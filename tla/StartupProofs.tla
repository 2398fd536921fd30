--------------------------- MODULE StartupProofs -----------------------------
(***************************************************************************)
(* Proofs about Startup, for every process and whatever the endpoints,     *)
(* the manifest and the dictionaries are.  A step of Startup is a step of  *)
(* Connections and a step of ForceClean, or leaves them alone: so the      *)
(* invariants of both hold of the composition.                             *)
(***************************************************************************)
EXTENDS Startup, ConnectionsProofs

------------------------------------------------------------------------------
(***************************************************************************)
(* ForceClean, for any set of enums and any number of failures.            *)
(***************************************************************************)

(***************************************************************************)
(* The inductive invariant: what each step may rely on, that the row is    *)
(* there as long as a type is, and that the deletion of the row is not     *)
(* sent, by this run or an earlier one, before the last type is gone.      *)
(***************************************************************************)
StepsInv ==
  /\ step \in {"enums", "checkTable", "deleteRow", "done"} => ~ schema
  /\ step \in {"checkTable", "deleteRow", "done"} => types = {}
  /\ step = "done" => ~ row

LateInv ==
  "deleteRow" \in late => types = {}

PromisesInv ==
  /\ step \notin {"enums", "threw"} => \A e \in Enums : promises[e] \in {"none", "settled"}
  /\ step = "enums" => \A e \in types : promises[e] \in {"query", "drop"}

RowInv ==
  /\ row => table
  /\ types # {} => row = table

CleanInv == CleanTypeOK /\ StepsInv /\ PromisesInv /\ RowInv /\ LateInv

\* The invariant holds initially.
LEMMA CleanInitInv == CleanInit => CleanInv
  BY CleanAssumption DEF CleanInit, CleanInv, CleanTypeOK, StepsInv, PromisesInv, RowInv, LateInv, NoPromises

\* The count of failures stays within its bound.
LEMMA FailureCount ==
  ASSUME failures \in 0 .. MaxCleanFaults, Failure
  PROVE  failures' \in 0 .. MaxCleanFaults
  BY CleanAssumption DEF Failure

\* Every step keeps the invariant.
LEMMA CleanStep == CleanInv /\ [CleanNext]_cleanVars => CleanInv'
<1> SUFFICES ASSUME CleanInv, [CleanNext]_cleanVars PROVE CleanInv'
  OBVIOUS
<1> USE CleanAssumption DEF CleanInv, CleanTypeOK, StepsInv, PromisesInv, RowInv, LateInv, Statements
<1>1. CASE LocateSchema
  BY <1>1 DEF LocateSchema
<1>2. CASE DropSchema
  BY <1>2 DEF DropSchema
<1>3. ASSUME NEW e \in Enums, QueryEnum(e) PROVE CleanInv'
  BY <1>3 DEF QueryEnum
<1>4. ASSUME NEW e \in Enums, DropType(e) PROVE CleanInv'
  BY <1>4 DEF DropType
<1>5. ASSUME NEW e \in Enums, EnumFails(e) PROVE CleanInv'
  BY <1>5, FailureCount DEF EnumFails, Sent
<1>6. CASE EnumsDropped
  BY <1>6 DEF EnumsDropped
<1>7. CASE CheckTable
  BY <1>7 DEF CheckTable
<1>8. CASE DeleteRow
  BY <1>8 DEF DeleteRow
<1>9. CASE StatementFails
  BY <1>9, FailureCount DEF StatementFails, Sent
<1>10. CASE CleanCrash
  BY <1>10, FailureCount DEF CleanCrash, NoPromises, Sent
<1>11. CASE CleanAgain
  BY <1>11 DEF CleanAgain, Ended, NoPromises, Sent
<1>12. CASE ProjectRuns
  BY <1>12 DEF ProjectRuns, Ended, NoPromises, Sent
<1>13. CASE UNCHANGED cleanVars
  BY <1>13 DEF cleanVars
<1>14. ASSUME NEW e \in Enums, DropMissing(e) PROVE CleanInv'
  BY <1>14 DEF DropMissing
<1>15. ASSUME NEW s \in Statements, LateStatement(s) PROVE CleanInv'
  BY <1>15 DEF LateStatement
<1> QED
  BY <1>1, <1>2, <1>3, <1>4, <1>5, <1>6, <1>7, <1>8, <1>9, <1>10, <1>11, <1>12, <1>13,
     <1>14, <1>15 DEF CleanNext

\* The invariant holds always.
LEMMA CleanInvariant == CleanSpec => []CleanInv
  BY CleanInitInv, CleanStep, PTL DEF CleanSpec

(***************************************************************************)
(* A forceClean that reports success has left nothing of the project, for  *)
(* any enums and any failures of earlier runs.                             *)
(***************************************************************************)
THEOREM CleanWhenDoneCorrect == CleanSpec => []CleanWhenDone
<1>1. CleanInv => CleanWhenDone
  BY DEF CleanInv, StepsInv, CleanWhenDone
<1> QED
  BY <1>1, CleanInvariant, PTL

(***************************************************************************)
(* What a failure leaves behind without its schema is still registered in  *)
(* public.subqueries.                                                      *)
(***************************************************************************)
THEOREM LeftoversRegisteredCorrect == CleanSpec => []LeftoversRegistered
<1>1. CleanInv => LeftoversRegistered
  BY DEF CleanInv, RowInv, LeftoversRegistered
<1> QED
  BY <1>1, CleanInvariant, PTL

------------------------------------------------------------------------------
(***************************************************************************)
(* Startup.                                                                *)
(***************************************************************************)

(***************************************************************************)
(* The inductive invariant: providers are built in the order in which they *)
(* are injected, and the configuration, which comes first, comes once.     *)
(***************************************************************************)
PhaseInv ==
  /\ process \in Processes
  /\ at \in 1 .. Len(Phases[process]) + 1
  /\ built \subseteq Configured \cup NodeCore[process] \cup Provided[process]
  /\ failed \in BOOLEAN

OrderInv ==
  /\ at = 1 => built = {}
  /\ "APIService" \in built => status = "ready"
  /\ "IBlockchainService" \in built => "APIService" \in built
  /\ (\E r \in Requests : requests[r].stage # "unused") => "IBlockchainService" \in built

StartInv == PhaseInv /\ OrderInv

\* The configuration is the first phase, and there are at most five.
LEMMA PhasesShape ==
  ASSUME NEW p \in Processes
  PROVE  /\ Len(Phases[p]) \in 2 .. 5
         /\ \A n \in 1 .. Len(Phases[p]) : Phases[p][n] = "configure" <=> n = 1
  BY DEF Phases, Processes, Bootstrap, InitWorker, GetTestRunner, Subcommand

\* A phase that is over is followed by the next, or by none.
LEMMA AdvanceTyped ==
  ASSUME PhaseInv, NEW phase, InPhase(phase), Advance, UNCHANGED process
  PROVE  at' \in 1 .. Len(Phases[process']) + 1 /\ at' # 1
<1>1. Len(Phases[process]) \in 2 .. 5
  BY PhasesShape DEF PhaseInv
<1> QED
  BY <1>1 DEF PhaseInv, InPhase, Running, Advance

\* The service and its user are no providers of node-core or of the configuration.
LEMMA TokensDiffer ==
  ASSUME NEW p \in Processes
  PROVE  /\ "APIService" \notin Configured \cup NodeCore[p]
         /\ "IBlockchainService" \notin Configured \cup NodeCore[p]
  BY DEF Configured, NodeCore, Imported, Declared, Processes

\* A step of a process is a step of its connections, or leaves them alone.
LEMMA ConnPart == [Next]_vars => [ConnNext]_connVars
<1> SUFFICES ASSUME [Next]_vars, ~ UNCHANGED connVars PROVE ConnNext
  OBVIOUS
<1>1. CASE StartNext
  BY <1>1 DEF StartNext, StartGoesOn, Configure, ConfigureFails, StartFails, StartApi, ProvideApi, Provide, Create, InitProject,
              CreateDictionary, InitFetch, Listen, ConnNext, ConnectNext
<1>2. CASE Connect \/ Pool
  BY <1>2 DEF Connect, Pool, ConnNext
<1>3. ASSUME NEW r \in Requests, Use(r) \/ Answer(r) PROVE ConnNext
  BY <1>3 DEF Use, Answer, ConnNext
<1>4. CASE Clean \/ Terminating \/ UNCHANGED vars
  BY <1>4 DEF Clean, Terminating, vars
<1> QED
  BY <1>1, <1>2, <1>3, <1>4 DEF Next

\* Likewise for the force clean.
LEMMA CleanPart == [Next]_vars => [CleanNext]_cleanVars
<1> SUFFICES ASSUME [Next]_vars, ~ UNCHANGED cleanVars PROVE CleanNext
  OBVIOUS
<1>1. CASE StartNext
  BY <1>1 DEF StartNext, StartGoesOn, Configure, ConfigureFails, StartFails, StartApi, ProvideApi, Provide, Create, InitProject,
              CreateDictionary, InitFetch, Listen
<1>2. CASE Connect \/ Pool
  BY <1>2 DEF Connect, Pool
<1>3. ASSUME NEW r \in Requests, Use(r) \/ Answer(r) PROVE CleanNext
  BY <1>3 DEF Use, Answer
<1>4. CASE Clean \/ Terminating \/ UNCHANGED vars
  BY <1>4 DEF Clean, Terminating, vars
<1> QED
  BY <1>1, <1>2, <1>3, <1>4 DEF Next

\* A service that is up stays up.
LEMMA StaysReady ==
  ASSUME [ConnNext]_connVars, status = "ready"
  PROVE  status' = "ready"
  BY DEF connVars, ConnNext, ConnectNext, CreateConnections, InitFails, Connected, Refused, CreateFails,
         PoolNext, AdvanceHead, CreateAgain, Rested, ApiConnect, AnswerTo, HealthAnswers,
         HeaderAnswers, HeaderMissing, BlocksAnswer, BlocksPending, BlocksThrow, FetchAgain,
         RequestFails, Call, CallUnconnected

\* Only Use makes a request of one that is unused.
LEMMA StaysUnused ==
  ASSUME ConnInv, ConnectNext \/ PoolNext \/ (\E s \in Requests : AnswerTo(s)),
         NEW r \in Requests, requests[r].stage = "unused"
  PROVE  requests'[r].stage = "unused"
<1>0. requests \in [Requests -> RequestSet]
  BY DEF ConnInv, ConnTypeOK, RequestSet
<1>1. CASE ConnectNext \/ PoolNext
  BY <1>1 DEF ConnectNext, CreateConnections, InitFails, Connected, Refused, CreateFails,
              PoolNext, AdvanceHead, CreateAgain, Rested, ApiConnect
<1>2. ASSUME NEW s \in Requests, AnswerTo(s) PROVE requests'[r].stage = "unused"
  <2>1. s # r
    BY <1>2 DEF AnswerTo, HealthAnswers, HeaderAnswers, HeaderMissing, BlocksAnswer, BlocksPending,
                BlocksThrow, FetchAgain, RequestFails, InFlight
  <2> QED
    BY <1>0, <1>2, <2>1 DEF AnswerTo, HealthAnswers, HeaderAnswers, HeaderMissing, BlocksAnswer,
                            BlocksPending, BlocksThrow, FetchAgain, RequestFails
<1> QED
  BY <1>1, <1>2

\* The steps of a start keep the invariant.
LEMMA StartNextStep ==
  ASSUME StartInv, StartNext
  PROVE  StartInv'
<1>0. process \in Processes /\ at \in 1 .. Len(Phases[process]) + 1
  BY DEF StartInv, PhaseInv
<1>1. \A phase : InPhase(phase) => at \in 1 .. Len(Phases[process]) /\ Phases[process][at] = phase
  BY <1>0, PhasesShape DEF InPhase, Running
<1>2. CASE Configure
  <2>1. at = 1 /\ built = {}
    BY <1>0, <1>1, <1>2, PhasesShape DEF Configure, StartInv, OrderInv
  <2>2. PhaseInv'
    BY <1>2, AdvanceTyped DEF Configure, StartInv, PhaseInv
  <2>3. OrderInv'
    BY <1>0, <1>2, <2>1, TokensDiffer DEF Configure, Advance, StartInv, OrderInv, connVars
  <2> QED
    BY <2>2, <2>3 DEF StartInv
<1>3. CASE ConfigureFails \/ StartFails
  BY <1>3 DEF ConfigureFails, StartFails, StartInv, PhaseInv, OrderInv, connVars
<1>4. CASE StartApi
  BY <1>4 DEF StartApi, CreateConnections, startVars, StartInv, PhaseInv, OrderInv
<1>5. CASE ProvideApi
  <2>1. at # 1
    BY <1>0, <1>1, <1>5, PhasesShape DEF ProvideApi, CanProvide
  <2> QED
    BY <1>5, <2>1 DEF ProvideApi, CanProvide, StartInv, PhaseInv, OrderInv, connVars
<1>6. ASSUME NEW token \in Provided[process], Provide(token) PROVE StartInv'
  <2>1. at # 1
    BY <1>0, <1>1, <1>6, PhasesShape DEF Provide, CanProvide
  <2>2. token = "IBlockchainService" => "APIService" \in built
    BY <1>6 DEF Provide, CanProvide, Injected
  <2> QED
    BY <1>6, <2>1, <2>2 DEF Provide, CanProvide, StartInv, PhaseInv, OrderInv, connVars
<1>7. CASE Create \/ InitProject \/ InitFetch \/ Listen
  <2>1. UNCHANGED <<connVars, process, built, failed>>
    BY <1>7 DEF Create, InitProject, InitFetch, Listen
  <2>2. at' \in 1 .. Len(Phases[process']) + 1 /\ at' # 1
    BY <1>7, AdvanceTyped DEF Create, InitProject, InitFetch, Listen, StartInv
  <2> QED
    BY <2>1, <2>2 DEF StartInv, PhaseInv, OrderInv, connVars
<1>8. CASE CreateDictionary
  BY <1>8 DEF CreateDictionary, StartInv, PhaseInv, OrderInv, connVars
<1> QED
  BY <1>2, <1>3, <1>4, <1>5, <1>6, <1>7, <1>8 DEF StartNext, StartGoesOn

\* Every step keeps the invariant.
LEMMA StartStep == ConnInv /\ StartInv /\ [Next]_vars => StartInv'
<1> SUFFICES ASSUME ConnInv, StartInv, [Next]_vars PROVE StartInv'
  OBVIOUS
<1>1. status = "ready" => status' = "ready"
  BY ConnPart, StaysReady
<1>2. CASE StartNext
  BY <1>2, StartNextStep
<1>3. CASE Connect \/ Pool \/ \E r \in Requests : Answer(r)
  <2>1. UNCHANGED startVars
    BY <1>3 DEF Connect, Pool, Answer
  <2>2. (\E r \in Requests : requests'[r].stage # "unused") =>
          \E r \in Requests : requests[r].stage # "unused"
    BY <1>3, StaysUnused DEF Connect, Pool, Answer
  <2> QED
    BY <1>1, <2>1, <2>2 DEF startVars, StartInv, PhaseInv, OrderInv
<1>4. ASSUME NEW r \in Requests, Use(r) PROVE StartInv'
  BY <1>1, <1>4 DEF Use, startVars, StartInv, PhaseInv, OrderInv
<1>5. CASE Clean \/ Terminating \/ UNCHANGED vars
  <2>1. UNCHANGED <<connVars, startVars>>
    BY <1>5 DEF Clean, Terminating, vars
  <2> QED
    BY <2>1 DEF connVars, startVars, StartInv, PhaseInv, OrderInv
<1> QED
  BY <1>2, <1>3, <1>4, <1>5 DEF Next

\* All three invariants hold initially.
LEMMA StartInit == Init => ConnInv /\ CleanInv /\ StartInv
<1> SUFFICES ASSUME Init PROVE ConnInv /\ CleanInv /\ StartInv
  OBVIOUS
<1>1. ConnInv /\ CleanInv
  BY ConnInitInv, CleanInitInv DEF Init
<1>2. process \in Processes
  BY StartupAssumption DEF Init
<1>3. PhaseInv
  <2>1. 1 \in 1 .. Len(Phases[process]) + 1
    BY <1>2, PhasesShape
  <2> QED
    BY <1>2, <2>1 DEF Init, PhaseInv
<1>4. OrderInv
  BY DEF Init, ConnInit, OrderInv, NoRequest
<1> QED
  BY <1>1, <1>3, <1>4 DEF StartInv

\* The invariants hold always.
LEMMA StartInvariant == SafeSpec => [](ConnInv /\ CleanInv /\ StartInv)
<1>1. ConnInv /\ CleanInv /\ StartInv /\ [Next]_vars => (ConnInv /\ CleanInv /\ StartInv)'
  BY ConnPart, CleanPart, ConnStep, CleanStep, StartStep
<1> QED
  BY <1>1, StartInit, PTL DEF SafeSpec

(***************************************************************************)
(* A process that starts is in one of its phases, or past the last one,    *)
(* and has only the providers of its modules.                              *)
(***************************************************************************)
THEOREM StartTypeCorrect == SafeSpec => []TypeOK
<1>1. ConnInv /\ CleanInv /\ StartInv => TypeOK
  BY DEF ConnInv, CleanInv, StartInv, PhaseInv, TypeOK
<1> QED
  BY <1>1, StartInvariant, PTL

(***************************************************************************)
(* Whatever order providers are built in, nobody makes a request before    *)
(* AlgorandApiService.init is done.                                        *)
(***************************************************************************)
THEOREM UsedWhenReadyCorrect == SafeSpec => []UsedWhenReady
<1>1. StartInv => UsedWhenReady
  BY DEF StartInv, OrderInv, UsedWhenReady
<1> QED
  BY <1>1, StartInvariant, PTL

(***************************************************************************)
(* The promises of the components hold of every process that is composed   *)
(* of them: one chain, exit for cause, a whole force clean.                *)
(***************************************************************************)
THEOREM ComponentsKept ==
  SafeSpec => [](OneChain /\ FinalizedExists /\ ExitForCause /\ CleanWhenDone /\ LeftoversRegistered)
<1>1. ConnInv /\ CleanInv => OneChain /\ FinalizedExists /\ ExitForCause
                            /\ CleanWhenDone /\ LeftoversRegistered
  BY DEF ConnInv, RequestsInv, RequestInv, PoolInv, FinalizedExists, ExitForCause,
         CleanInv, StepsInv, RowInv, CleanWhenDone, LeftoversRegistered
<1> QED
  BY <1>1, StartInvariant, PTL

\* A process that starts implements what the rest of the node relies on.
THEOREM StartImplementsApiService == SafeSpec => Service!SafeSpec
<1>1. Init => Service!Init
  BY DEF Init, ConnInit, Service!Init
<1>2. ConnInv /\ [Next]_vars => [Service!Next]_(Service!vars)
  BY ConnPart, ServiceStep
<1> QED
  BY <1>1, <1>2, StartInvariant, PTL DEF SafeSpec, Service!SafeSpec

------------------------------------------------------------------------------
(***************************************************************************)
(* The dictionaries of a node.                                             *)
(***************************************************************************)

\* The endpoints before the ones still to be tried were tried.
Tried ==
  /\ todo \in Seq(DictionaryEndpoints)
  /\ dictionaries \in Seq(DictionaryEndpoints)
  /\ Len(todo) <= Len(AllEndpoints)
  /\ \A i \in 1 .. Len(todo) : todo[i] = AllEndpoints[Len(AllEndpoints) - Len(todo) + i]
  /\ ValidOf(AllEndpoints, Len(AllEndpoints) - Len(todo), dictionaries)

DictionaryInv ==
  /\ manifest \in DictionaryOptions
  /\ registry \in Seq(DictionaryEndpoints)
  /\ process = "node" =>
       /\ at <= 3 => dictionaries = << >>
       /\ at = 4 => Tried
       /\ at > 4 => ValidOf(AllEndpoints, Len(AllEndpoints), dictionaries)

\* The phase of a node tells where it is, and the other way round.
LEMMA NodePhases ==
  /\ Len(Phases["node"]) = 5
  /\ Phases["node"][1] = "configure" /\ Phases["node"][2] = "create"
  /\ Phases["node"][3] = "project" /\ Phases["node"][4] = "fetch" /\ Phases["node"][5] = "listen"
  BY DEF Phases, Processes, Bootstrap

LEMMA NodePlace ==
  ASSUME PhaseInv, process = "node", NEW phase, InPhase(phase)
  PROVE  /\ phase \in {"configure", "create"} => at \in 1 .. 2
         /\ phase = "project" => at = 3
         /\ phase = "fetch" => at = 4
         /\ phase = "listen" => at = 5
<1>1. at \in 1 .. 5 /\ Phases["node"][at] = phase
  BY NodePhases DEF PhaseInv, InPhase, Running
<1> QED
  BY <1>1, NodePhases

\* The endpoints are a list.
LEMMA EndpointsList ==
  ASSUME manifest \in DictionaryOptions, registry \in Seq(DictionaryEndpoints)
  PROVE  AllEndpoints \in Seq(DictionaryEndpoints) /\ Len(AllEndpoints) \in Nat
<1>1. ManifestEndpoints \in Seq(DictionaryEndpoints)
  <2>1. CASE manifest = NoDictionary
    BY <2>1 DEF ManifestEndpoints
  <2>2. CASE manifest # NoDictionary /\ manifest \in [array : {FALSE}, value : DictionaryEndpoints]
    <3>1. manifest.array = FALSE /\ manifest.value \in DictionaryEndpoints
      BY <2>2
    <3>2. ManifestEndpoints = <<manifest.value>>
      BY <2>2, <3>1 DEF ManifestEndpoints
    <3> QED
      BY <3>1, <3>2
  <2>3. CASE manifest # NoDictionary /\ manifest \in [array : {TRUE}, value : Seq(DictionaryEndpoints)]
    BY <2>3 DEF ManifestEndpoints
  <2> QED
    BY <2>1, <2>2, <2>3 DEF DictionaryOptions
<1> QED
  BY <1>1 DEF AllEndpoints

\* One more endpoint is tried.
LEMMA ValidOfOneMore ==
  ASSUME NEW S, NEW seq, NEW n \in Nat, NEW list \in Seq(S), seq[n + 1] \in S,
         ValidOf(seq, n, list)
  PROVE  /\ IsValid(seq[n + 1]) => ValidOf(seq, n + 1, Append(list, seq[n + 1]))
         /\ ~ IsValid(seq[n + 1]) => ValidOf(seq, n + 1, list)
<1>1. PICK pick \in [DOMAIN list -> 1 .. n] :
        /\ \A i, k \in DOMAIN list : i < k => pick[i] < pick[k]
        /\ \A m \in 1 .. n : IsValid(seq[m]) <=> \E i \in DOMAIN list : pick[i] = m
        /\ \A i \in DOMAIN list : list[i] = seq[pick[i]]
  BY DEF ValidOf
<1>2. Len(list) \in Nat /\ DOMAIN list = 1 .. Len(list)
  OBVIOUS
<1>3. ASSUME ~ IsValid(seq[n + 1]) PROVE ValidOf(seq, n + 1, list)
  <2>1. pick \in [DOMAIN list -> 1 .. n + 1]
    OBVIOUS
  <2>2. \A m \in 1 .. n + 1 : IsValid(seq[m]) <=> \E i \in DOMAIN list : pick[i] = m
    <3> SUFFICES ASSUME NEW m \in 1 .. n + 1
                 PROVE  IsValid(seq[m]) <=> \E i \in DOMAIN list : pick[i] = m
      OBVIOUS
    <3>1. CASE m \in 1 .. n
      BY <1>1, <3>1
    <3>2. CASE m = n + 1
      BY <1>3, <3>2
    <3> QED
      BY <3>1, <3>2
  <2> QED
    BY <1>1, <2>1, <2>2 DEF ValidOf
<1>4. ASSUME IsValid(seq[n + 1]) PROVE ValidOf(seq, n + 1, Append(list, seq[n + 1]))
  <2> DEFINE longer == Append(list, seq[n + 1])
             more == [i \in 1 .. Len(list) + 1 |-> IF i = Len(list) + 1 THEN n + 1 ELSE pick[i]]
  <2>1. /\ DOMAIN longer = 1 .. Len(list) + 1 /\ longer[Len(list) + 1] = seq[n + 1]
        /\ \A i \in 1 .. Len(list) : longer[i] = list[i]
    BY <1>2
  <2>2. /\ more[Len(list) + 1] = n + 1
        /\ \A i \in 1 .. Len(list) : more[i] = pick[i] /\ pick[i] \in 1 .. n
        /\ more \in [DOMAIN longer -> 1 .. n + 1]
    BY <1>2, <2>1
  <2>3. \A i \in 1 .. Len(list) + 1 : i = Len(list) + 1 \/ i \in 1 .. Len(list)
    BY <1>2
  <2> HIDE DEF longer, more
  <2>4. \A i, k \in 1 .. Len(list) + 1 : i < k => more[i] < more[k]
    <3> SUFFICES ASSUME NEW i \in 1 .. Len(list) + 1, NEW k \in 1 .. Len(list) + 1, i < k
                 PROVE  more[i] < more[k]
      OBVIOUS
    <3>1. i \in 1 .. Len(list)
      BY <1>2
    <3>2. CASE k \in 1 .. Len(list)
      BY <1>1, <1>2, <2>2, <3>1, <3>2
    <3>3. CASE k = Len(list) + 1
      BY <2>2, <3>1, <3>3
    <3> QED
      BY <2>3, <3>2, <3>3
  <2>5. ASSUME NEW m \in 1 .. n + 1
        PROVE  IsValid(seq[m]) <=> \E i \in 1 .. Len(list) + 1 : more[i] = m
    <3>1. CASE m = n + 1
      BY <1>2, <1>4, <2>2, <3>1
    <3>2. CASE m \in 1 .. n
      <4>1. IsValid(seq[m]) <=> \E i \in 1 .. Len(list) : pick[i] = m
        BY <1>1, <1>2, <3>2
      <4>2. m # n + 1
        BY <3>2
      <4>3. (\E i \in 1 .. Len(list) : pick[i] = m) <=>
              \E i \in 1 .. Len(list) + 1 : more[i] = m
        <5>1. ASSUME NEW i \in 1 .. Len(list), pick[i] = m
              PROVE  i \in 1 .. Len(list) + 1 /\ more[i] = m
          BY <1>2, <2>2, <5>1
        <5>2. ASSUME NEW i \in 1 .. Len(list) + 1, more[i] = m
              PROVE  i \in 1 .. Len(list) /\ pick[i] = m
          BY <2>2, <2>3, <4>2, <5>2
        <5> QED
          BY <5>1, <5>2
      <4> QED
        BY <4>1, <4>3
    <3> QED
      BY <3>1, <3>2
  <2>6. \A i \in 1 .. Len(list) + 1 : longer[i] = seq[more[i]]
    <3> SUFFICES ASSUME NEW i \in 1 .. Len(list) + 1 PROVE longer[i] = seq[more[i]]
      OBVIOUS
    <3>1. CASE i = Len(list) + 1
      BY <2>1, <2>2, <3>1
    <3>2. CASE i \in 1 .. Len(list)
      BY <1>1, <1>2, <2>1, <2>2, <3>2
    <3> QED
      BY <2>3, <3>1, <3>2
  <2>7. ValidOf(seq, n + 1, longer)
    <3>1. more \in [DOMAIN longer -> 1 .. n + 1]
      BY <2>2
    <3>2. /\ \A i, k \in DOMAIN longer : i < k => more[i] < more[k]
          /\ \A m \in 1 .. n + 1 : IsValid(seq[m]) <=> \E i \in DOMAIN longer : more[i] = m
          /\ \A i \in DOMAIN longer : longer[i] = seq[more[i]]
      BY <2>1, <2>4, <2>5, <2>6
    <3> QED
      BY <3>1, <3>2, Zenon DEF ValidOf
  <2> QED
    BY <2>7 DEF longer
<1> QED
  BY <1>3, <1>4

\* What is valid, and where, does not change.
LEMMA ValidOfSame ==
  ASSUME UNCHANGED <<manifest, registry, valid>>
  PROVE  /\ AllEndpoints' = AllEndpoints
         /\ \A seq, n, list : ValidOf(seq, n, list)' <=> ValidOf(seq, n, list)
  BY DEF AllEndpoints, ManifestEndpoints, ValidOf, IsValid

\* The node tries one endpoint.
LEMMA CreateDictionaryTried ==
  ASSUME PhaseInv, DictionaryInv, process = "node", CreateDictionary
  PROVE  at' = 4 /\ Tried'
<1> DEFINE n == Len(AllEndpoints) - Len(todo)
<1>1. at = 4 /\ Tried
  BY NodePlace DEF CreateDictionary, DictionaryInv
<1>2. /\ AllEndpoints \in Seq(DictionaryEndpoints) /\ Len(AllEndpoints) \in Nat
      /\ AllEndpoints' = AllEndpoints
      /\ \A seq, k, list : ValidOf(seq, k, list)' <=> ValidOf(seq, k, list)
  BY EndpointsList, ValidOfSame DEF CreateDictionary, DictionaryInv
<1>3. /\ todo \in Seq(DictionaryEndpoints) /\ todo # << >> /\ Len(todo) \in Nat
      /\ Len(todo) <= Len(AllEndpoints) /\ Len(todo) >= 1
      /\ todo' = Tail(todo) /\ Head(todo) = todo[1]
      /\ dictionaries \in Seq(DictionaryEndpoints)
  BY <1>1 DEF CreateDictionary, Tried
<1>4. /\ todo' \in Seq(DictionaryEndpoints) /\ Len(todo') = Len(todo) - 1
      /\ \A i \in 1 .. Len(todo') : todo'[i] = todo[i + 1]
  BY <1>3
<1>5. /\ n \in Nat /\ n + 1 \in 1 .. Len(AllEndpoints)
      /\ Len(AllEndpoints) - Len(todo') = n + 1
      /\ Head(todo) = AllEndpoints[n + 1] /\ AllEndpoints[n + 1] \in DictionaryEndpoints
  BY <1>1, <1>2, <1>3, <1>4 DEF Tried
<1>6. ASSUME NEW i \in 1 .. Len(todo') PROVE todo'[i] = AllEndpoints[n + 1 + i]
  <2>1. i + 1 \in 1 .. Len(todo) /\ n + (i + 1) = n + 1 + i
    BY <1>2, <1>3, <1>4
  <2>2. todo[i + 1] = AllEndpoints[n + (i + 1)]
    BY <1>1, <2>1 DEF Tried
  <2> QED
    BY <1>4, <2>1, <2>2
<1>7. ValidOf(AllEndpoints, n, dictionaries)
  BY <1>1 DEF Tried
<1> HIDE DEF n
<1>8. /\ dictionaries' \in Seq(DictionaryEndpoints)
      /\ ValidOf(AllEndpoints, n + 1, dictionaries')
  <2>1. CASE IsValid(Head(todo))
    <3>1. dictionaries' = Append(dictionaries, AllEndpoints[n + 1])
      BY <1>5, <2>1 DEF CreateDictionary
    <3> QED
      BY <1>3, <1>5, <1>7, <2>1, <3>1, ValidOfOneMore
  <2>2. CASE ~ IsValid(Head(todo))
    <3>1. dictionaries' = dictionaries
      BY <2>2 DEF CreateDictionary
    <3> QED
      BY <1>3, <1>5, <1>7, <2>2, <3>1, ValidOfOneMore
  <2> QED
    BY <2>1, <2>2
<1>9. Len(AllEndpoints') - Len(todo') = n + 1
  BY <1>2, <1>5
<1>10. ValidOf(AllEndpoints, Len(AllEndpoints) - Len(todo), dictionaries)'
  BY <1>2, <1>8, <1>9
<1>11. at' = 4
  BY <1>1 DEF CreateDictionary
<1>12. Len(todo') <= Len(AllEndpoints')
  BY <1>2, <1>3, <1>4
<1> QED
  BY <1>2, <1>4, <1>6, <1>8, <1>9, <1>10, <1>11, <1>12 DEF Tried

LEMMA DictionaryStep == PhaseInv /\ DictionaryInv /\ [Next]_vars => DictionaryInv'
<1> SUFFICES ASSUME PhaseInv, DictionaryInv, [Next]_vars PROVE DictionaryInv'
  OBVIOUS
<1>1. UNCHANGED <<process, manifest, registry, valid>>
  BY DEF Next, vars, startVars, StartNext, StartGoesOn, Configure, ConfigureFails, StartFails, StartApi, ProvideApi,
         Provide, Create, InitProject, CreateDictionary, InitFetch, Listen, Connect, Pool, Use, Answer,
         Clean, Terminating
<1>2. /\ AllEndpoints \in Seq(DictionaryEndpoints) /\ Len(AllEndpoints) \in Nat
      /\ AllEndpoints' = AllEndpoints
      /\ \A seq, k, list : ValidOf(seq, k, list)' <=> ValidOf(seq, k, list)
  BY <1>1, EndpointsList, ValidOfSame DEF DictionaryInv
<1> SUFFICES ASSUME process = "node"
             PROVE  /\ at' <= 3 => dictionaries' = << >>
                    /\ at' = 4 => Tried'
                    /\ at' > 4 => ValidOf(AllEndpoints, Len(AllEndpoints), dictionaries)'
  BY <1>1 DEF DictionaryInv
<1>3. at \in Nat
  BY NodePhases DEF PhaseInv
<1>4. CASE UNCHANGED <<at, todo, dictionaries>>
  <2>1. Tried => Tried'
    BY <1>2, <1>4 DEF Tried
  <2> QED
    BY <1>2, <1>4, <2>1 DEF DictionaryInv
<1>5. CASE Configure \/ Create
  BY <1>5, NodePlace DEF Configure, Create, Advance, DictionaryInv
<1>6. CASE InitProject
  <2>1. at = 3 /\ at' = 4 /\ dictionaries = << >> /\ dictionaries' = << >>
    BY <1>6, NodePlace DEF InitProject, Advance, DictionaryInv
  <2>2. todo' = AllEndpoints
    BY <1>6 DEF InitProject, AllEndpoints
  <2>3. ValidOf(AllEndpoints, 0, << >>)
    <3>1. << >> \in [DOMAIN << >> -> 1 .. 0] /\ DOMAIN << >> = {} /\ 1 .. 0 = {}
      OBVIOUS
    <3> QED
      BY <3>1 DEF ValidOf
  <2>4. << >> \in Seq(DictionaryEndpoints)
    OBVIOUS
  <2>5. Len(AllEndpoints') - Len(todo') = 0
    BY <1>2, <2>2
  <2>6. ValidOf(AllEndpoints, Len(AllEndpoints) - Len(todo), dictionaries)'
    BY <1>2, <2>1, <2>3, <2>5
  <2>7. Tried'
    BY <1>2, <2>1, <2>2, <2>4, <2>5, <2>6 DEF Tried
  <2> QED
    BY <2>1, <2>7
<1>7. CASE CreateDictionary
  BY <1>7, CreateDictionaryTried
<1>8. CASE InitFetch
  <2>1. at' = 5 /\ Tried /\ todo = << >> /\ dictionaries' = dictionaries
    BY <1>8, NodePlace DEF InitFetch, Advance, DictionaryInv
  <2>2. Len(AllEndpoints) - Len(todo) = Len(AllEndpoints)
    BY <1>2, <2>1
  <2> QED
    BY <1>2, <2>1, <2>2 DEF Tried
<1>9. CASE Listen
  <2>1. at = 5 /\ at' = 6 /\ dictionaries' = dictionaries
    BY <1>9, NodePlace DEF Listen, Advance
  <2> QED
    BY <1>2, <2>1 DEF DictionaryInv
<1> QED
  BY <1>4, <1>5, <1>6, <1>7, <1>8, <1>9
     DEF Next, vars, startVars, StartNext, StartGoesOn, ConfigureFails, StartFails, StartApi, ProvideApi,
         Provide, Connect, Pool, Use, Answer, Clean, Terminating

(***************************************************************************)
(* A node that listens has every dictionary it can have, in the order of   *)
(* initDictionaries, whatever endpoints there are.                         *)
(***************************************************************************)
THEOREM DictionariesKeptCorrect == SafeSpec => []DictionariesKept
<1>1. Init => DictionaryInv
  BY StartupAssumption DEF Init, DictionaryInv
<1>2. PhaseInv /\ DictionaryInv => DictionariesKept
  BY NodePhases DEF DictionaryInv, DictionariesKept, Running, PhaseInv
<1>3. StartInv => PhaseInv
  BY DEF StartInv
<1> QED
  BY <1>1, <1>2, <1>3, DictionaryStep, StartInvariant, PTL DEF SafeSpec
==============================================================================
