------------------------------ MODULE Startup --------------------------------
(***************************************************************************)
(* Processes of the node and how they start (packages/node/src: main.ts,   *)
(* yargs.ts, init.ts, the modules and the subcommands).  A process is the  *)
(* node itself, one of its worker threads, a test run, a reindex or a      *)
(* force clean.  It reads its configuration, builds its providers, each    *)
(* once the ones injected into it are there, and initialises its services. *)
(*                                                                         *)
(* This module composes Connections, which the provider APIService starts, *)
(* and ForceClean, which one of the subcommands runs.                      *)
(***************************************************************************)
EXTENDS Connections, ForceClean, Sequences

CONSTANTS
  DictionaryEndpoints,
  NoDictionary,  \* network.dictionary is not given
  Situations     \* processes that start, each with what the endpoints' block 1 says,
                 \* network.dictionary, the registry and the dictionaries that answer

Processes == {"node", "worker", "test", "reindex", "forceClean"}

\* network.dictionary: an array, one endpoint, or none.
DictionaryOptions ==
  {NoDictionary} \cup [array : {FALSE}, value : DictionaryEndpoints]
                 \cup [array : {TRUE}, value : Seq(DictionaryEndpoints)]

ASSUME StartupAssumption ==
  \A s \in Situations :
    /\ s.process \in Processes
    /\ s.manifest \in DictionaryOptions
    /\ s.registry \in Seq(DictionaryEndpoints)

VARIABLES
  process,       \* which process this is
  at,            \* index of the phase it is in
  built,         \* providers that are there
  failed,        \* the process has ended with an error
  manifest,      \* network.dictionary of the project
  registry,      \* endpoints the dictionary registry has for the chain
  valid,         \* endpoints that are dictionaries of the chain
  todo,          \* dictionary endpoints still to be tried
  dictionaries   \* dictionariesV1

startVars == <<process, at, built, failed, manifest, registry, valid, todo, dictionaries>>

vars == <<connVars, cleanVars, startVars>>

\* bootstrap, initWorker and getTestRunner; node-core starts the other subcommands.
Bootstrap == <<"configure", "create", "project", "fetch", "listen">>

InitWorker == <<"configure", "create", "project">>

GetTestRunner == <<"configure", "create", "project">>

Subcommand == <<"configure", "create">>

Phases ==
  [p \in Processes |->
     CASE p = "node"   -> Bootstrap
       [] p = "worker" -> InitWorker
       [] p = "test"   -> GetTestRunner
       [] OTHER        -> Subcommand]

Running == at > Len(Phases[process])

InPhase(phase) == ~ failed /\ status # "exit" /\ ~ Running /\ Phases[process][at] = phase
------------------------------------------------------------------------------
(***************************************************************************)
(* Providers.  A class of node-core, whose dependencies are not in this    *)
(* repository, counts as built with the configuration, in the processes    *)
(* whose modules declare or import it.  The exception is                   *)
(* UnfinalizedBlocksService, which needs the API (reindex.module.ts).      *)
(***************************************************************************)

\* Exported by ConfigureModule.
Configured == {"NodeConfig", "ISubqueryProject", "IProjectUpgradeService", "Null"}

\* What the modules of node-core and of the framework must export for those that import them.
Imported ==
  [p \in Processes |->
     CASE p = "node"    -> {"EventEmitter2", "ConnectionPoolService", "ConnectionPoolStateManager",
                            "SandboxService", "InMemoryCacheService", "StoreService",
                            "IStoreModelProvider", "PoiSyncService", "MonitorService"}
       [] p = "worker"  -> {"EventEmitter2", "ConnectionPoolService", "SandboxService",
                            "DynamicDsService", "IUnfinalizedBlocksService"}
       [] p = "test"    -> {"EventEmitter2", "ConnectionPoolService", "SandboxService"}
       [] p = "reindex" -> {"EventEmitter2"}
       [] OTHER         -> {}]

\* Classes of node-core and of the framework that the modules of this repository declare.
Declared ==
  [p \in Processes |->
     CASE p = "node"    -> {"DsProcessorService", "DynamicDsService", "IProjectService",
                            "MultiChainRewindService", "FetchService"}
       [] p = "worker"  -> {"DsProcessorService", "IProjectService"}
       [] p = "test"    -> {"DsProcessorService", "DynamicDsService", "IProjectService", "TestRunner"}
       [] p = "reindex" -> {"DsProcessorService", "DynamicDsService", "IStoreModelProvider",
                            "StoreService", "ReindexService", "PoiService", "ForceCleanService",
                            "ConnectionPoolStateManager", "ConnectionPoolService",
                            "MultiChainRewindService", "SchedulerRegistry"}
       [] OTHER         -> {}]

NodeCore == [p \in Processes |-> Imported[p] \cup Declared[p]]

\* The providers in each module whose dependencies are known.
FetchModule ==
  {"APIService", "IBlockchainService", "IUnfinalizedBlocksService", "IndexerManager",
   "IBlockDispatcher", "DictionaryService"}

WorkerFetchModule == {"APIService", "IBlockchainService", "IndexerManager", "WorkerService"}

TestingFeatureModule ==
  {"APIService", "IBlockchainService", "IUnfinalizedBlocksService", "IIndexerManager"}

ReindexFeatureModule == {"APIService", "IBlockchainService", "UnfinalizedBlocksService"}

Provided ==
  [p \in Processes |->
     CASE p = "node"    -> FetchModule
       [] p = "worker"  -> WorkerFetchModule
       [] p = "test"    -> TestingFeatureModule
       [] p = "reindex" -> ReindexFeatureModule
       [] OTHER         -> {}]

\* Mutant: BlockchainService is given the service later.
InjectedLate(token) ==
  IF token = "IBlockchainService" THEN {}
  ELSE {"ISubqueryProject", "ConnectionPoolService", "EventEmitter2"}

\* Mutant: BlockchainService needs UnfinalizedBlocksService, which needs it.
InjectedInCircle(token) ==
  IF token = "IBlockchainService" THEN {"APIService", "IUnfinalizedBlocksService"}
  ELSE IF token = "APIService" THEN {} ELSE {"IBlockchainService"}

IndexerManagerParameters ==
  {"APIService", "NodeConfig", "SandboxService", "DsProcessorService",
   "DynamicDsService", "IUnfinalizedBlocksService", "IBlockchainService"}

DispatcherInject ==
  {"NodeConfig", "EventEmitter2", "IProjectService", "IProjectUpgradeService",
   "InMemoryCacheService", "StoreService", "IStoreModelProvider", "PoiSyncService",
   "ISubqueryProject", "DynamicDsService", "IUnfinalizedBlocksService",
   "ConnectionPoolStateManager", "IBlockchainService", "IndexerManager",
   "MultiChainRewindService", "MonitorService"}

DictionaryParameters == {"ISubqueryProject", "NodeConfig", "EventEmitter2", "DsProcessorService"}

WorkerServiceParameters ==
  {"APIService", "IndexerManager", "IProjectService", "IProjectUpgradeService", "NodeConfig"}

\* What is injected: the inject list of a factory, the parameters of a constructor.
Injected(token) ==
  CASE token = "APIService"         -> {"ISubqueryProject", "ConnectionPoolService", "EventEmitter2"}
    [] token = "IBlockchainService" -> {"APIService"}
    [] token \in {"IUnfinalizedBlocksService", "UnfinalizedBlocksService"} -> {"APIService"}
    [] token \in {"IndexerManager", "IIndexerManager"} -> IndexerManagerParameters
    [] token = "IBlockDispatcher"   -> DispatcherInject
    [] token = "DictionaryService"  -> DictionaryParameters
    [] token = "WorkerService"      -> WorkerServiceParameters

\* What bootstrap, initWorker and getTestRunner take out of the application; get throws
\* when it is not there.
Gets ==
  [p \in Processes |->
     CASE p = "node"   -> {"IProjectService", "FetchService"}
       [] p = "worker" -> {"IProjectService", "WorkerService"}
       [] p = "test"   -> {"IProjectService", "TestRunner"}
       [] OTHER        -> {}]
------------------------------------------------------------------------------
Init ==
  /\ ConnInit
  /\ CleanInit
  /\ \E s \in Situations :
       /\ process = s.process /\ network = s.network
       /\ manifest = s.manifest /\ registry = s.registry /\ valid = s.valid
  /\ process = "forceClean" => \A e \in Endpoints : head[e] = 1
  /\ process # "forceClean" => schema /\ types = {} /\ table
  /\ at = 1
  /\ built = {}
  /\ failed = FALSE
  /\ todo = << >>
  /\ dictionaries = << >>

\* Mutant: a phase that nobody awaits.
AdvanceTwice == at' = at + 2

\* The phase is over.
Advance == at' = at + 1

\* ConfigureModule.register: the manifest was read and validated.
Configure ==
  /\ InPhase("configure")
  /\ Advance
  /\ built' = Configured \cup NodeCore[process]
  /\ UNCHANGED <<connVars, cleanVars, process, failed, manifest, registry, valid, todo, dictionaries>>

\* createSubQueryProject rejects: the manifest cannot be read or is not valid.
ConfigureFails ==
  /\ InPhase("configure")
  /\ failed' = TRUE
  /\ UNCHANGED <<connVars, cleanVars, process, at, built, manifest, registry, valid, todo, dictionaries>>

\* Anything later that throws, NestFactory.create and app.init included: exitWithError, or, in
\* a worker, an error for the main thread.
StartFails ==
  /\ \E phase \in {"create", "project", "fetch", "listen"} : InPhase(phase)
  /\ failed' = TRUE
  /\ UNCHANGED <<connVars, cleanVars, process, at, built, manifest, registry, valid, todo, dictionaries>>

CanProvide(token) ==
  /\ InPhase("create")
  /\ token \in Provided[process] \ built
  /\ Injected(token) \subseteq built

\* The factory of APIService is AlgorandApiService.init, and it is awaited.
StartApi ==
  /\ CanProvide("APIService")
  /\ CreateConnections
  /\ UNCHANGED <<cleanVars, startVars>>

ProvideApi ==
  /\ CanProvide("APIService")
  /\ status = "ready"
  /\ built' = built \cup {"APIService"}
  /\ UNCHANGED <<connVars, cleanVars, process, at, failed, manifest, registry, valid, todo, dictionaries>>

Provide(token) ==
  /\ token # "APIService"
  /\ CanProvide(token)
  /\ built' = built \cup {token}
  /\ UNCHANGED <<connVars, cleanVars, process, at, failed, manifest, registry, valid, todo, dictionaries>>

\* NestFactory.create and app.init
Create ==
  /\ InPhase("create")
  /\ Provided[process] \subseteq built
  /\ Advance
  /\ UNCHANGED <<connVars, cleanVars, process, built, failed, manifest, registry, valid, todo, dictionaries>>

ManifestEndpoints ==
  CASE manifest = NoDictionary -> << >>
    [] manifest # NoDictionary /\ ~ manifest.array -> <<manifest.value>>
    [] OTHER -> manifest.value

\* projectService.init; in the node, fetchService.init comes next and calls initDictionaries.
InitProject ==
  /\ InPhase("project")
  /\ Gets[process] \subseteq built
  /\ Advance
  /\ todo' = IF process = "node" THEN ManifestEndpoints \o registry ELSE << >>
  /\ UNCHANGED <<connVars, cleanVars, process, built, failed, manifest, registry, valid, dictionaries>>

\* AlgorandDictionaryV1.create resolves.
IsValid(endpoint) == endpoint \in valid

\* Mutant: an endpoint that is no dictionary ends the loop.
CreateDictionaryOrStop ==
  /\ InPhase("fetch")
  /\ todo # << >>
  /\ todo' = IF IsValid(Head(todo)) THEN Tail(todo) ELSE << >>
  /\ dictionaries' = IF IsValid(Head(todo)) THEN Append(dictionaries, Head(todo)) ELSE dictionaries
  /\ UNCHANGED <<connVars, cleanVars, process, at, built, failed, manifest, registry, valid>>

\* An endpoint that is no dictionary is skipped.
CreateDictionary ==
  /\ InPhase("fetch")
  /\ todo # << >>
  /\ todo' = Tail(todo)
  /\ dictionaries' = IF IsValid(Head(todo)) THEN Append(dictionaries, Head(todo)) ELSE dictionaries
  /\ UNCHANGED <<connVars, cleanVars, process, at, built, failed, manifest, registry, valid>>

InitFetch ==
  /\ InPhase("fetch")
  /\ todo = << >>
  /\ Advance
  /\ UNCHANGED <<connVars, cleanVars, process, built, failed, manifest, registry, valid, todo, dictionaries>>

Listen ==
  /\ InPhase("listen")
  /\ Advance
  /\ UNCHANGED <<connVars, cleanVars, process, built, failed, manifest, registry, valid, todo, dictionaries>>
------------------------------------------------------------------------------
Alive == ~ failed /\ status # "exit"

StartGoesOn ==
  \/ Configure \/ StartApi \/ ProvideApi
  \/ \E token \in Provided[process] : Provide(token)
  \/ Create \/ InitProject \/ CreateDictionary \/ InitFetch \/ Listen

StartNext == StartGoesOn \/ ConfigureFails \/ StartFails

\* The service connects, and its endpoints answer.
Connect == Alive /\ status # "off" /\ ConnectNext /\ UNCHANGED <<cleanVars, startVars>>

Pool == Alive /\ status # "off" /\ PoolNext /\ UNCHANGED <<cleanVars, startVars>>

Answer(r) == Alive /\ AnswerTo(r) /\ UNCHANGED <<cleanVars, startVars>>

\* Whoever has the BlockchainService may use it: the factories and constructors it is
\* injected into, and the services they initialise.
Use(r) ==
  /\ Alive
  /\ "IBlockchainService" \in built
  /\ \E op \in Ops : CallUnconnected(r, op) \/ \E height \in Heights : Call(r, op, height)
  /\ UNCHANGED <<cleanVars, startVars>>

\* The force clean, once its process has started.
Clean ==
  /\ process = "forceClean"
  /\ Running
  /\ CleanNext
  /\ UNCHANGED <<connVars, startVars>>

Terminating == (Running \/ ~ Alive) /\ UNCHANGED vars

Next ==
  \/ StartNext \/ Connect \/ Pool
  \/ \E r \in Requests : Use(r) \/ Answer(r)
  \/ Clean
  \/ Terminating

SafeSpec == Init /\ [][Next]_vars

\* The event loop runs what is ready, requests end with an answer or an error, the
\* chain grows, and node-core brings endpoints back.  No failure of the start is fair.
Fairness ==
  /\ WF_vars(StartGoesOn)
  /\ WF_vars(Connect)
  /\ WF_vars(Pool)
  /\ \A r \in Requests : WF_vars(Answer(r))

Spec == SafeSpec /\ Fairness
------------------------------------------------------------------------------
TypeOK ==
  /\ ConnTypeOK
  /\ CleanTypeOK
  /\ process \in Processes
  /\ at \in 1 .. Len(Phases[process]) + 1
  /\ built \subseteq Configured \cup NodeCore[process] \cup Provided[process]
  /\ failed \in BOOLEAN

(***************************************************************************)
(* Nobody uses the connections before AlgorandApiService.init is done:     *)
(* whatever order the providers are built in, requests are only made by a  *)
(* process whose service is up.                                            *)
(***************************************************************************)
UsedWhenReady == (\E r \in Requests : requests[r].stage # "unused") => status = "ready"

AllEndpoints == ManifestEndpoints \o registry

\* list is what is left of the first n of seq, in their order, without the ones
\* that are no dictionary: pick says where each element comes from.
ValidOf(seq, n, list) ==
  \E pick \in [DOMAIN list -> 1 .. n] :
    /\ \A i, k \in DOMAIN list : i < k => pick[i] < pick[k]
    /\ \A m \in 1 .. n : IsValid(seq[m]) <=> \E i \in DOMAIN list : pick[i] = m
    /\ \A i \in DOMAIN list : list[i] = seq[pick[i]]

(***************************************************************************)
(* A node that listens has the dictionaries it can have: the endpoints of  *)
(* the manifest and then those of the registry, in this order, without the *)
(* ones that turned out to be no dictionary.                               *)
(***************************************************************************)
DictionariesKept ==
  process = "node" /\ Running =>
    ValidOf(AllEndpoints, Len(AllEndpoints), dictionaries)

(***************************************************************************)
(* Every start ends: the process runs, or it ends with an error.  Nothing  *)
(* makes an error happen, so the providers of every process can be built:  *)
(* what is injected into them is declared or imported, without a circle.   *)
(***************************************************************************)
StartSettles == <>(Running \/ ~ Alive)
==============================================================================
