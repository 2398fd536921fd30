# Verification of the SubQuery node for Algorand

TLA+ models of `subquery/subql-algorand`, checked with TLC, their
safety properties proved with TLAPS. Paths below are relative to the repository's `packages/`.

## The system

SubQuery's Algorand node follows an Algorand chain through an *indexer* endpoint
(algosdk's `Indexer`), hands blocks and transactions to the handlers of a user's
project, and stores what they produce. Queues, retries, storage, the connection
pool and the sandbox are in `@subql/node-core`, which is not in this repository.
What is in it:

| Component | State | Operations | Interacts with |
|---|---|---|---|
| `AlgorandApi` fetching (`node/src/algorand/api.algorand.ts`) | `blockCache`, an array of blocks looked up ahead | `fetchBlocks`, `blockInCache`, `getBlockHash` | called concurrently by dispatchers and workers, retried by node-core; calls the endpoint |
| `AlgorandApi` requests and `SafeAPIService` (same file) | one request's header, pages, token | `getBlockByHeight`, `getHeaderOnly`, `getLatestBlockHeader`, `paginatedTransactions`, `combinePaginateBlock`, `constructBlock`, `getBlock`, `getTxns` | `fetchBlocks`, handlers through the safe API |
| Filters (`node/src/algorand/utils.algorand.ts`) | none | `filterBlock`, `filterTransaction`, `txComparator`, `mappingFilterTransaction` | indexer manager |
| Dictionary (`node/src/indexer/dictionary`) | query entries, the list of dictionaries | `buildDictionaryV1QueryEntries`, `initDictionaries` | decides which rounds are fetched at all |
| `IndexerManager` (`node/src/indexer/indexer.manager.ts`) | the data sources of the block | `indexBlock`, `indexBlockData`, filters per kind | calls handlers, which may create data sources |
| `BlockchainService` (`node/src/blockchain.service.ts`) | none | `fetchBlocks`, headers, heights, timestamps, `updateDynamicDs` | node-core's view of all of the above |
| Worker service (`node/src/indexer/worker`) | an `AlgorandApi` per thread | `fetchChainBlock`, `processFetchedBlock` | node-core's worker pool |
| Connections (`api.connection.ts`, `api.service.algorand.ts`) | one connection per endpoint, with its chain | `init`, `create`, `assertChainId`, `handleError`, `apiConnect` | node-core's connection pool; every request above goes through them |
| Manifest (`common-algorand/src/project`) | the manifest | parsing into model classes, validation by their rules | read at start; its filters and data sources go to the dictionary and the indexer manager |
| Force clean (`node/src/subcommands/forceClean*`) | the database | `forceClean` | SQL |
| Testing, reindex (`node/src/subcommands`) | none | start of their processes | node-core's test runner and reindex service |
| Configuration (`node/src/configure`) and wiring (`main.ts`, `init.ts`, `yargs.ts`, the modules) | which providers are built | five kinds of process and the phases of their start | NestJS; starts all of the above |

What makes it hard:

* **The hash of a round is only known from the next round.** `fetchBlocks` finds
  it in the batch or looks the next round up, keeps that block for later, and has
  to wait when the next round does not exist yet. Calls run concurrently on one
  cache, a call that fails is repeated with the same array of heights, and
  `Promise.all` does not stop the promises of a call it has already rejected.
* **A block comes in one piece or in pages**, and its keys arrive in another
  spelling than the one the node reads.
* **The dictionary decides which rounds are skipped.** A mistake there shows no
  error: handlers are just not called.
* **Data sources are created while the list of data sources is iterated over.**
* **Endpoints are not alike.** They may be of another chain, be at different rounds,
  fail at the start or later, and come back unchecked. A request that is made in two
  parts must not mix two of them, and one bad endpoint must not stop the node.
* **Start is asynchronous and has five variants.** The service is built by a factory
  that is awaited; nobody may use it before.
* **Force clean is several statements and no transaction.**

`PROJECT.json` lists the hazards line by line, with the properties that watch
them.

## Modules

| Module | Models | Used by |
|---|---|---|
| `BlockFeed` | abstract: what `fetchBlocks` promises | refined by `FetchBlocks` |
| `FetchBlocks` | `fetchBlocks`, `blockInCache`, `getBlockHash`; callers and retries | `MCFetchBlocks`, the proof modules |
| `FetchBlocksProofs` | proofs: the inductive invariant, what is delivered, refinement | `OwnershipRetryProofs` |
| `OwnershipRetryProofs` | proofs: no block object is shared, retries are bounded | |
| `ApiService` | abstract: what `AlgorandApiService` promises | refined by `Connections` and `Startup` |
| `Connections` | endpoints, connections, errors, requests | `MCConnections`, `Startup` |
| `ConnectionsProofs` | proofs: one chain, exit for cause, refinement | `StartupProofs` |
| `ForceClean` | `forceClean` with failures, crashes, repetition | `Startup` |
| `Startup` | processes, phases, providers, `initDictionaries`; composes `Connections` and `ForceClean` | `MCStartup` |
| `StartupProofs` | proofs about `ForceClean`, the composition and the dictionaries | |
| `GetBlock` | requests for one block or header, safe API | `MCGetBlock` |
| `GetBlockProofs` | proofs: whole blocks, group transactions, causes of failure | |
| `Filters` | filter operators, `updateDynamicDs` | `Dictionary`, `Indexing`, `Manifest` |
| `Dictionary` | query entries and the rounds they select | `MCDictionary` |
| `DictionaryProofs` | proofs: no call is missed, no round is fetched in vain | |
| `Indexing` | `indexBlock` | `MCIndexing` |
| `IndexingProofs` | proofs: exactly the calls that are due, what dynamic data sources see | |
| `Manifest` | parsing and validation of a project manifest | `MCManifest` |
| `ManifestProofs` | proofs: what is accepted is what the filters can handle | |

Operators called "Mutant" in the modules are plausible mistakes at the place where
they stand. None of them is part of a specification; putting one in the place of
the definition after it makes the property named in `PROJECT.json` fail, which is
how we know that the property says something about that code.

### FetchBlocks

JavaScript runs a callback to its end, so an action is the code between two
awaits.

| State | Code |
|---|---|
| `cache` | `blockCache`, as a set of block objects; the array's order only decides which of two copies of a round is taken, and `BlockInCache` allows either |
| `nums[j]` | the array that the caller passes on every attempt |
| `attempt[j]` | how often `fetchBlocks` was called for job `j` |
| `pc[c]` | where a call is: waiting for blocks, for hashes, resolved, rejected |
| `slots[c][p]` | the promise chain of one height: its block, its hash, its stage |
| `head` | the endpoint's last round, for lookups and health checks alike |
| `faults[j]` | transient failures so far |

| Action | Code (`api.algorand.ts`) |
|---|---|
| `FetchBlocks(j)` | the whole `blockNums.map(...)`: cache hits are spliced out, other heights are looked up |
| `LookupOk`, `LookupFault` | `getBlockByHeight` of an own height |
| `CollectHashes(c)` | first `Promise.all` resolves; `getBlockHash` starts for each block and takes the hash from the batch if it can |
| `NextBlockOk` | the next round arrives, is pushed to the cache, gives the hash |
| `NextBlockMissing`, `NextBlockFault` | the `catch` block |
| `HealthThrows`, `HealthWaits`, `WaitEnds`, `HealthFault` | health check, the waiting loop, and the `throw` after it |
| `Resolve(c)` | second `Promise.all` resolves |

The stages `next`, `health` and `waiting` do not look at `pc`: these promises go on
after their call was rejected, and their pushes to the cache happen during the
retry. A block carries an `id`, the lookup that made the object, so that two
objects with the same round can be told apart.

External, modelled from how the code is used: the chain (`AdvanceHead`), failing
requests (`Fault`), and node-core's retry with the same array (`MayCall`).

### GetBlock

One operation on one height: `op` is `getBlockByHeight`, `getHeaderOnly`,
`getLatestBlockHeader`, `SafeAPIService.getBlock` or `getTxns`. A page has any
length up to the limit, also a shorter one when more follow, as the comment in
`paginatedTransactions` warns. Keys are modelled by the spelling of the object that
holds them (a page that is not empty carries a next-token: an assumption about the
indexer, without which the code would ask for the first page again); a key of several words reads as `Undefined` in the wrong spelling. An
answer may lack the `transactions` key, which is optional in `AlgorandBlock`;
`constructBlock` then creates it with the value `undefined`, on which
`camelCaseObjectKey` throws.

### Filters, Dictionary, Indexing

A transaction is its type and the values at the paths that
`mappingFilterTransaction` names. A filter is the *sequence* of its entries, because
`filterTransaction` visits them in the order of the manifest and stops at the first
that fails, and one of them may throw. Outcomes are `pass`, `drop` and `throw`. A
value is a pair of its JavaScript type and what it is, so that a number and a string
are compared without being equal. A list is compared with a string character by
character, as `data[i]` does (`ElementAt`; the constant `CharAt` gives the characters).

`Dictionary` builds the entries handler by handler, selects rounds the way node-core
uses the entries (external: equality of all conditions of an entry with the columns
of a transaction, plus multiples of each modulo), and indexes the selected rounds.
The property compares the calls made with those of a scan of every round. Calls that
no entry can stand for are named (`OutsideIndex`): transactions of a type without
columns, filters that accept more than values equal to their own (`Loose`: a null or empty
`txType`, a list under another key than `applicationArgs`), and a modulo of zero or null,
which `filterBlockModulo` lets pass and the dictionary leaves out. The columns are
external: `Column` assumes that they follow `mappingFilterTransaction`, so that an asset
freeze has an address and no sender, and that a type without a mapping has a type and a
sender; `NothingUseless` rests on it.

`Indexing` goes through the handlers of a data source (`IndexHandler`), the data sources
(`NextDataSource`) and then the transactions (`NextPass`). node-core's `indexData`
(external) evaluates all filters before the first handler is awaited, so a filter that
throws keeps every handler of its data source from being called (`IndexDataThrows`). A
handler that is called may push data sources, after `updateDynamicDs`, to the array that
the loop is iterating over (`MayCreate`).

### Manifest

`UnsupportedVersion`, `UnsupportedHandler` and `Parse` are the constructor of
`AlgorandProjectManifestVersioned`, `Accept` and `Invalid` are `validate`. A rule of
`TransactionFilter` is the type that its decorator asks for (`DeclaredType`) and the
values of `txType` for which `@ValidateIf` lets it run (`ValidateIf`); class-validator
runs no rule on a property whose condition is false, and none on `null` or
`undefined` under `@IsOptional`. `forbidNonWhitelisted` makes a key without decorators an
error, but what is validated is the deployment, which a class outside the repository
makes of the manifest and which may not have such keys any more: a manifest with one may
be rejected or accepted (`HasUnknownKey`). The properties then apply the operators of `Filters` to what was
accepted: validation and filters are two tables about the same keys, kept in two
packages, and the properties say where they agree. Exceptions are named (`Gaps`,
`UncheckedList`).

### Connections

| State | Code |
|---|---|
| `network[e]` | `genesis-hash` and `genesis-id` of block 1 of endpoint `e`; either may be absent |
| `head[e]` | the last round of the endpoint |
| `conn[e]` | its connection: being created, failed, refused by a check, in the pool, resting after a timeout or a rate limit, disconnected |
| `status` | of `AlgorandApiService.init` |
| `requests[r]` | one call of `BlockchainService`, `WorkerService` or a handler: operation, endpoint, what it waits for, round, attempt |
| `sources` | genesis hashes of the endpoints that gave data |

`CreateConnections`, `Connected`, `Refused`, `CreateFails` and `InitFails` are `init`
with `AlgorandApi.create`, the constructor of `AlgorandApiConnection` (whose getters
assert that the values are not empty) and `assertChainId`. `Call` takes a connection
from the pool and the request keeps it: `getLatestBlockHeader` makes its health check and
its lookup on the same `AlgorandApi`. `HandleError` classifies an error by the *set* of
marks in it, in the order of the code's tests. `getHeaderForHash` asks for any round, or
NaN, as `parseInt` of a base64 text does. How blocks get their hashes is in
`FetchBlocks`; here a batch is one height that can be answered when the next round is
there (`BlocksAnswer`), waits at the head and is rejected after the wait
(`BlocksPending`, `BlocksThrow`).

External: the pool (`PoolAfter`, `Rested`, `CallUnconnected`), new attempts to create a
connection (`CreateAgain`), and the repetition of `fetchBlocks` at another endpoint, up
to `MaxAttempts` (`AfterError`, `FetchAgain`). An endpoint stays on its chain.

### ForceClean

One action per statement. The promises of the enums are steps of their own, because
`Promise.all` rejects with the first failure and the others go on. When a statement fails,
the process dies (`CleanCrash`) or ends while promises are pending (`Ended`), the
statements under way become `late`: the database may execute them at any later time, also
in the middle of the next run, or never. A type that a late statement dropped between the
query for it and its drop makes that drop fail (`DropMissing`). Afterwards the command is
run again, directly or after a run of the project, which creates the schema and the row;
a late deletion may take away the row of that run. `ForceCleanModule` gets its service from node-core, which
has a class of the same name; the class modelled is the one in this repository.

### Startup

A process (the node, a worker thread, a test run, a reindex, a force clean) has a
sequence of phases (`Bootstrap`, `InitWorker`, `GetTestRunner`, `Subcommand`). In the
phase "create" NestJS builds the providers of the process's modules in any order in which
each comes after the ones injected into it; `StartApi` and `ProvideApi` are the awaited
factory `AlgorandApiService.init`, and between them the actions of `Connections` run.
What is injected into a class of node-core is not in the repository, so such a class counts
as built with the configuration, but only in a process whose modules declare it
(`Declared`) or must get it from the modules they import (`Imported`). The exception is
`UnfinalizedBlocksService`, which needs the API, as a comment in `reindex.module.ts` says.
Any phase may fail: the manifest cannot be read (`ConfigureFails`), or something in or after
`NestFactory.create` throws (`StartFails`). `Gets` is what the start takes out of the
application afterwards. In the phase "fetch" `CreateDictionary` tries the
dictionary endpoints one by one.

## Runs

| Run | Shows | Bounds and why they are enough |
|---|---|---|
| `fetch_gap` | type invariant; `WaitsForPendingRound`, `AttemptsBounded`, `DeliveredAsAsked`, `ExclusiveBlocks`; every job is answered; refinement of `BlockFeed` with its liveness | batches `<<1,3>>` and `<<3,2>>` on up to 4 rounds: a lookup ahead that the other job uses, a descending batch that overlaps, copies of a round in the cache, a hash that must wait for the head, one transient failure per job, and more attempts (4) than `AttemptsBounded` allows (3) |
| `fetch_pending` | violation of `WaitGivesHash` | see findings |
| `get_block` | `WholeBlock`, `GroupsOfOwnBlock`, `FailsForCause`, pagination ends | rounds with 0, 1, 2 (the lookup limit) and 7 transactions, pages of up to 3: three pages or more, of all lengths; round 0 and a round past the end; one failing request |
| `get_header` | violation of `HeaderHasParentHash` | see findings |
| `dictionary` | `NothingMissed`, `NothingUseless` | all pairs of handlers out of 26, with block filters, custom handlers, undefined, null and empty values, lists, unknown keys and unknown kinds; all chains of two rounds with at most one transaction each out of 10 |
| `indexing` | `CallsExact`, `DynamicHandlesApplOnly` | blocks of up to 2 transactions of four types, 1 or 2 data sources in the manifest, up to 4 in the array, templates that name another type |
| `filter_sender`, `filter_throws` | violations | see findings |
| `manifest` | `NothingIgnored`, `LikeWithLike`, `ThrowsOnlyUnchecked` | filters with every type (also none, null, an unknown one), every key (also an unknown one) and a value of every JavaScript type, in a data source and in a template; both kinds of data source with and without a processor. One handler is enough: no rule relates two handlers |
| `manifest_args` | violation of `DocumentedFiltersAccepted` | see findings |
| `connections` | `OneChain`, `FinalizedExists`, `ExitForCause`; every request ends; refinement of `ApiService` with its liveness | two endpoints, the second of the right chain, of another one, or without a genesis hash or id; heads from 1 to 3 that differ by up to two rounds; two failures per endpoint, so that one can fail at creation and again later; three attempts, one more than there are endpoints. One request: requests only share the pool, and failures of others are in the faults |
| `startup` | `UsedWhenReady`, `DictionariesKept`, `CleanWhenDone`, `LeftoversRegistered`; every start ends | all five processes on three sets of endpoints (all right, one of another chain, none right); dictionaries given as none, one, an empty array and two, with a registry, any subset of them valid; force clean of two enums with two failures or crashes, late statements, and any number of repetitions |

Deadlock is checked in all of them but `connections`: each specification has a
`Terminating` step for the states in which the code has nothing left to do, so a state
in which a call hangs would be reported. In `connections` a process that has ended, or
whose requests have all been made, may stop; that requests end is `RequestsEnd`.

**Fairness.** `FetchBlocks!Fairness` assumes that the chain produces rounds, that a
request is answered (possibly with a failure), that the event loop runs what is
ready, and that the caller retries. Failures have no fairness and are bounded by
`MaxFaults` per job; with endless failures no node makes progress. `GetBlock!Spec`
assumes that requests are answered. `ConnFairness` assumes that a connection under
creation ends one way or the other, that heads grow, that the pool brings back endpoints
which rest or disconnected, and that requests are answered or fail; nobody has to start
the service or to use it, and `CreateAgain` is not fair. `Startup!Fairness` adds the
steps with which a start goes on (`StartGoesOn`), and not those with which it fails, so
`StartSettles` cannot hold just because the process may end. Nothing else is fair. `EveryJobAnswered` also
needs a caller that retries often enough; `AttemptsBounded` says how often that is,
and `MaxAttempts` is above it in the run.

## Findings

1. `fetch_pending`: after waiting for the next round, `getBlockHash` throws instead
   of fetching it (`api.algorand.ts:236`), against the test "waits on pending block to
   fetch hash"; the trace ends in `WaitEnds`. If the round appears before the first health
   check there is no wait, and the lookup's error is thrown (line 228, `HealthThrows`).
   Either way a fetch at the head costs one rejected attempt; `AttemptsBounded` shows that
   it is never more than that.
2. `get_header`: `getHeaderOnly` does not respell keys (`api.algorand.ts:86`), so
   headers made from it have no parent hash.
3. `filter_sender`: asset freezes have no `sender` in the mapping and state proofs no
   mapping at all.
4. `filter_throws`: an `applicationArgs` filter throws on transactions without
   arguments: those of other types when it has no `txType`, and application calls
   with no arguments in any case.
5. `manifest_args`: validation asks for a string where `applicationArgs` is documented
   and used as a list (`models.ts:90`), so a filter with `txType: appl` and a list is
   rejected.

## Proofs

Eight modules prove every invariant that a run checks, and the safety part of both
refinements, for any values of the constants that satisfy the assumptions:

| Theorem | Statement | Module |
|---|---|---|
| `TypeCorrect` | `SafeSpec => []TypeOK` | `FetchBlocksProofs` |
| `DeliveredCorrect` | `SafeSpec => []DeliveredAsAsked` | `FetchBlocksProofs` |
| `FeedImplemented` | `SafeSpec => Feed!SafeSpec`, the safety part of the refinement | `FetchBlocksProofs` |
| `ExclusiveCorrect` | `SafeSpec => []ExclusiveBlocks` | `OwnershipRetryProofs` |
| `AttemptsCorrect`, `WaitsCorrect` | `SafeSpec => []AttemptsBounded`, `[]WaitsForPendingRound` | `OwnershipRetryProofs` |
| `RequestTypeCorrect`, `WholeBlockCorrect`, `GroupsCorrect`, `FailsForCauseCorrect` | `SafeSpec => []...` | `GetBlockProofs` |
| `DictionaryTypeCorrect`, `NothingMissedCorrect`, `NothingUselessCorrect` | `Spec => []...` | `DictionaryProofs` |
| `IndexingTypeCorrect`, `CallsExactCorrect`, `DynamicCorrect` | `Spec => []...` | `IndexingProofs` |
| `ManifestTypeCorrect`, `NothingIgnoredCorrect`, `LikeWithLikeCorrect`, `ThrowsOnlyUncheckedCorrect` | `Spec => []...` | `ManifestProofs` |
| `ConnTypeCorrect`, `OneChainCorrect`, `FinalizedExistsCorrect`, `ExitForCauseCorrect` | `ConnSafeSpec => []...` | `ConnectionsProofs` |
| `ApiServiceImplemented` | `ConnSafeSpec => Service!SafeSpec`, the safety part of the refinement | `ConnectionsProofs` |
| `CleanWhenDoneCorrect`, `LeftoversRegisteredCorrect` | `CleanSpec => []...` | `StartupProofs` |
| `StartTypeCorrect`, `UsedWhenReadyCorrect`, `DictionariesKeptCorrect` | `SafeSpec => []...` | `StartupProofs` |
| `ComponentsKept`, `StartImplementsApiService` | the invariants of `Connections` and `ForceClean`, and the refinement of `ApiService`, hold of the composition | `StartupProofs` |

### Assumptions

Every assumption is an `ASSUME` of the module that declares the constant, and TLC
evaluates it in the module's runs.

* `FetchBlocks`: the bounds are naturals, batches are non-empty sequences of distinct
  heights below `MaxRound`, `Hash` is a function on the rounds, and the three "no value"
  constants differ from values (`NatAssumption`, `ChainAssumption`, `BatchAssumption`,
  `NoBlockAssumption`, `NoResultAssumption`).
* `GetBlock`: the bounds are naturals, a page holds at least one transaction, every round
  has a number of transactions (`BoundsAssumption`), and `Undefined` is neither a number
  nor a list (`UndefinedAssumption`).
* `Dictionary`: a filter of a transaction handler is an object, so no key occurs twice
  (`FilterAssumption`); round `r` of a chain has the number `r` and a list
  of transactions (`ChainAssumption`); the bound is a natural.
* `Indexing`: a block has a list of transactions or none (`BlockAssumption`); data sources
  and templates have lists of handlers, those of lists of filters, and a handler of a runtime
  template has one filter object or none (`DataSourceAssumption`); the string 'appl' is
  not undefined or null (`ValueAssumption`); the bound is a natural.
* `Manifest`: the filter of a template's handler is missing or a list of entries
  (`TemplateAssumption`).
* `Connections`: there is an endpoint, the bounds are naturals, the networks are records of
  a hash and an id, and the empty string is no hash of a chain (`ConnectionsAssumption`).
* `ForceClean`: the bound on failures is a natural, and no enum is one of the two strings
  that stand for other statements (`CleanAssumption`).
* `Startup`: situations name one of the five processes, and give dictionary endpoints in one
  of the shapes the manifest allows (`StartupAssumption`).

### Arguments

*The inductive invariant of FetchBlocks.* `DeliveredAsAsked` speaks of resolved calls only.
`SafeInv` extends it to every call under way and to the cache: every block object
carries the parent hash of its round (`CacheInv`, `SlotsInv`), a hashed slot has the
chain's hash and the next round exists, all calls of a job but the last are rejected
(`AttemptInv`: without it a retry could change what was delivered), `nums` never
changes, and the stage of every slot fits its call's `pc` (`StageInv`). Each action
has a lemma that it preserves `SafeInv`; the steps at one position share
`PositionStep`, which reduces the invariant to the one slot that changed.

*Refinement.* `delivered[j]` is the sequence of headers of the last call when it is
resolved. `Resolve` is `Deliver`, `AdvanceHead` is `Grow`, everything else is a
stutter: `OtherStepsSilent` shows that slots of a resolved call never change.

*Ownership.* `ExclusiveBlocks` alone is not inductive: a lookup ahead that ends must
not make an object somebody already has. `OwnershipInv` adds where objects come from:
a cached object was made by a lookup ahead that has *ended*, a held one by its own
lookup or by such a lookup ahead, and cached objects have different ids. `BatchAssumption`
(distinct heights) is what keeps two positions of one call from taking the same object.

*Retries.* `RetryInv` counts, per job, attempts against transient failures, and counts
an attempt as lost as soon as one of its positions is past the `catch` of
`getBlockHash`. The step that matters is `AdvanceHead`: all heights of a job exist when
it is first asked for (`ReachedInv`), so one more round completes every batch, and a
missing next round can cost an attempt only once.

*GetBlock.* The properties speak of the result; `RequestInv` says what has been gathered on
the way. `PagesInv` is the heart of it: the pages collected are exactly the first `token`
transactions of the round, whatever the lengths of the pages were, so that a page without
a next token ends with all of them. `HeaderInv` says that a header under way is of the
round asked for and lacks its list only when the answer did, and `StageInv` which
operation can be in which step.

*Dictionary.* Entries are compared with filters through two lemmas on `FilterTransaction`:
`PassMatches`, that a transaction accepted by a filter which is not `Loose` meets the
conditions made of it, and `MatchPasses`, the converse for filters without arguments.
`BuiltInv` says that each handler visited so far is covered (an entry, a modulo, or the
construction was given up), `EntriesInv` that an entry comes from a filter of a
transaction handler, and `SelectedInv` that a chosen round is still to be indexed or its
calls have been made. Missing nothing uses the first lemma and `BuiltInv`; fetching
nothing in vain uses the second and `EntriesInv`.

*Indexing.* `CallsExact` is inductive only with the place of the loops (`PlaceInv`) and with
`BornInv`: a data source is never born later than the current pass, and one that is not of
the manifest went through `updateDynamicDs`. The step that matters is `IndexHandler` with
`MayCreate`: data sources pushed while a handler runs are behind the place of the loop
(`Pushed`), so no call of theirs was due before, and the outcomes of the handlers that
were there do not change. `ApplOnlyType` shows that the filter written by
`updateDynamicDs` accepts application calls only.

*Manifest.* `ParsedInv` says that a parsed manifest has no unknown handler and an accepted
one is valid. The theorems then follow from the rules: `AcceptedEntry` reads off what validation established
of one entry of an accepted filter, `ThrowsAtList` that a filter can throw at a list only,
`AcceptedList` where an accepted filter may still have one, and `CreatedEntries` that
`updateDynamicDs` adds nothing to a template's filter but the type.

*Connections.* `OneChain` follows from where data can come from: `PoolInv` says that an
endpoint that was ever in the pool has the project's chain, also while it rests or is
disconnected, and that the service is up then; `RequestsInv` says that a request under way
is at such an endpoint, and that a header that `getFinalizedHeader` waits for is within
the head of its endpoint, which only grows. `PoolInv` also records why a connection is not
there (a failure, or a check that does not pass), which gives `ExitForCause`.
`RequestChange` reduces a step of a request to the one record it changes.

*ForceClean.* `StepsInv` says what is gone when a step is reached, `PromisesInv` that a
type that still exists is one that some promise is about to drop, and `RowInv` that the row
is there as long as a type is. The second is why `await Promise.all` matters. Statements
that are late can only make these more true, but for the deletion of the row: `LateInv`
says that it is never sent, by this run or an earlier one, while a type is left.

*Startup.* A step of a process is a step of its connections, or leaves them alone
(`ConnPart`), and likewise for the force clean (`CleanPart`), so their invariants carry
over. `OrderInv` is the chain from a request to the service: a request needs
`IBlockchainService`, that needs `APIService`, and that is only built when the service is up,
which stays so; the configuration, which resets the providers, comes once and first.

*Dictionaries.* `DictionariesKept` relates the list of dictionaries to the endpoints by an
increasing function of positions. The invariant (`DictionaryInv`) says the same of the
endpoints tried so far, and that those still to be tried are the rest of the list; one
more endpoint extends the function by one position or not at all (`ValidOfOneMore`).
This takes the place of `SelectSeq`, of which the provers know nothing.

### Only model-checked

Everything about liveness, which this version of the prover cannot do:
`EveryJobAnswered`, `Ends`, `RequestsEnd`, `StartSettles`, and the fairness parts of
`ImplementsBlockFeed` and `ImplementsApiService`. The violations of the findings are
counterexamples of TLC.

## Not modelled

* The caches of several endpoints at once: `FetchBlocks` has one `AlgorandApi`, as has
  every endpoint of a process; `Connections` has several endpoints and no caches. What is
  shown of `FetchBlocks` holds at each endpoint; a batch that is repeated elsewhere is a new
  job there.
* The network and runner sections of a manifest and the deployment's YAML: fields
  checked one by one, which nothing else here reads.
* Reading files and command line options: node-core's `registerApp`.
* `getChainInterval`, `getBlockSize`: a number from constants or from one block.
* The worker's queue and messages, rewinding, running tests: node-core. It is modelled only
  as far as this code relies on it.
* Timestamps: whether a block is due on a cron schedule is node-core's
  `filterBlockTimestamp`, a Boolean of the block here.
* What is injected into node-core's classes, and what its modules export beyond what the
  providers of this repository need.
* An endpoint that changes its chain while it is disconnected (`apiConnect` checks nothing),
  and an indexer whose pages lack a next-token.
* Build and lint configuration, and the interfaces that only user projects use.

## Plan

Done: `BlockFeed`, `FetchBlocks`, `GetBlock`, `Filters`, `Dictionary`, `Indexing`,
`Manifest`, `ApiService`, `Connections`, `ForceClean`, `Startup`, and proofs of every
invariant the runs check and of the safety part of both refinements.

Left:

1. Action properties worth a theorem: what a step of the cache of `FetchBlocks`, of the
   array of data sources, or of the pool may never do.
2. How far the exceptions of `Dictionary` and `Manifest` meet: a filter that validation
   accepts and that is `Loose`.
