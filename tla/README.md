# A TLA+ model of the OnlyDoge indexer

This directory holds a formal model of platform.onlydoge.io, a Dogecoin
explorer: TLA+ modules translated from the TypeScript source, TLC
configurations that check them on small instances, and TLAPS proofs of the
properties that matter most. All paths of the code are relative to the root of
the repository.

    tlc -workers 2 -config CoreWindow_online.cfg MCCoreWindow
    tlapm CoreWindowRowProofs.tla

1. [The system](#the-system)
2. [The modules](#the-modules)
3. [The runs](#the-runs)
4. [The proofs](#the-proofs)
5. [Where code and documentation disagree](#where-code-and-documentation-disagree)
6. [What is not modelled](#what-is-not-modelled)
7. [Plan](#plan)

## The system

One program, started in several roles (`apps/onlydoge/src/index.ts`). The
*indexer* copies the chain of a Dogecoin node into a ClickHouse warehouse and
keeps its progress in a metadata database (PostgreSQL, MySQL or libSQL). The
*API* answers queries from both and is guarded by API keys. A *mempool
detector* tells open SSE sessions about transactions that touch the address
they watch. Roles share nothing but the databases, the object store and the
node; within a role, concurrency is that of awaits in one event loop.

| component | state | operations | talks to | hard because | correct when |
|---|---|---|---|---|---|
| leader lease (`core-dogecoin-indexer-service.ts` 1674-1804) | row `primary`; `primaryLease`, heartbeat timer | claim, renew, stand by, assert | metadata store | clocks, statements that outlive their caller, deaths | a lease is replaced only when stale; a lease trusted without asking is current; somebody leads |
| core windows (same file, 937-1261, 1348-1449; `warehouse.ts` 1349-1685) | recovery marker, process tail, warehouse tables | mark, rewind, insert, clear, publish, reconcile | metadata store, warehouse, raw blocks, node | no transaction spans the stores, abandoned inserts run on, crashes between statements, reorganizations | rows are never partial without a mark, never twice, one chain, no hole; it catches up |
| pipeline stages (same file, 285-770) | stage, sync and process tail, readiness flags, materialization checkpoint | sync, process, materialize, promote, go back | all stores | long restartable work whose flags and tails are written separately | history is readable only when complete; promotion happens |
| raw block sync (`raw-block-sync.ts`) | frontier, concurrency | fetch and store rounds of batches, retry, checkpoint | node, object store, metadata, refs | parallel batches fail one by one | the sync tail has no gap below it |
| block prefetcher (`core-block-prefetcher.ts`) | batches, generation, budget | get, reset, settle | node or object store | answers from before a reset, budget | the block of the height asked for, never a wait for nothing |
| current state (`warehouse.ts`, `projection-models.ts`) | unspent outputs, balances, movements | apply, materialize, rematerialize | warehouse tables | replays, spends within a window | balances are the sums of unspent outputs |
| metadata store (`metadata-store.ts`) | rows | compare-and-swap, relaxed writes, locks, migrations | database | lost updates, commits that are not flushed | a swap is atomic; migrations run once |
| mempool watch (`mempool-*.ts`) | registry of watches, sessions, transaction cache, detector status | open, match, expire, notify | metadata store, node, NOTIFY | a match beside the opening and the closing of a session, lost notifications, fetches that are given up | the limit of watches holds; a match of an open watch arrives unless something named was lost |
| access control (`access-control-service.ts`, `api-key-rate-limiter.ts`) | keys, windows of requests, audit events | authenticate, bootstrap, create, update, delete, consume, record | metadata store | check, then act, in separate statements | one bootstrap key; an admin remains; every request audited once; no window above its limit |
| migrations (`clickhouse-migrations.ts`, `metadata-store.ts`) | ledgers, locks, tables, read models | lock, migrate, backfill, verify | warehouse, metadata store | two processes boot at once, DDL without transactions, deaths between a table and its ledger row, statements that outlive their caller | what serves finds its schema; read models miss no row, and double none but those two statements insert at once |
| RPC gateway (`rpc.ts`) | schedule per endpoint | call, batch, retry | node | concurrent callers, answers in any order, a chain that moves between two batches | the rate is kept; an answer is of its call |
| explorer queries (`explorer-query-service.ts`) | cached mempool page | look up a transaction, list the mempool | all stores | stores that disagree while blocks are replaced; a load that outlives its entry | a lookup finds the transaction where the chain has it; one load at a time |
| analytics queries (`analytics-query-service.ts`, the backfill script) | slots per key, readiness, facts tail | query, backfill facts | warehouse, metadata store | facts rewritten beside queries, slots given back on every path | a query reads the facts of every finalized block; slots never leak |
| block decoding (`dogecoin-raw-block.ts`, `amounts.ts`) | none | decode, classify, convert | RPC gateway, indexer | proofs of parent chains with their own format, widths that depend on values | decoding inverts the format, and refuses what is cut off |
| HTTP routing, storage adapters, settings, sampler, scripts | none of interest | | | | |

## The modules

| module | models | checked by | proved in |
|---|---|---|---|
| `PrimaryLease` | the leader lease | `MCPrimaryLease` | `PrimaryLeaseProofs` |
| `CoreWindow` | one indexer process applying windows, against a server whose inserts outlive it | `MCCoreWindow` | `CoreWindowProofs`, `CoreWindowBlockProofs`, `CoreWindowRowProofs` |
| `CorePipeline` | the stages around the windows, readiness flags, materialization | `MCPipeline` | `CorePipelineProofs` |
| `RawBlockSync` | rounds of batches that store raw blocks | `MCPipeline` | `RawBlockSyncProofs` |
| `BlockPrefetcher` | the read-ahead of the backfill | `MCPipeline` | `RawBlockSyncProofs` |
| `SchemaMigrations` | two processes that boot and migrate the same stores | `MCPipeline` | `RawBlockSyncProofs` |
| `BlockDecoding` | raw blocks, output scripts and amounts, as functions | `MCPipeline` | |
| `BlockEffects` | what blocks do to outputs (no state) | `MCWarehouse` | |
| `MemoryWarehouse` | the warehouse in memory: the abstract specification | `MCWarehouse` | |
| `ClickHouseWarehouse` | the ClickHouse warehouse, statement by statement | `MCWarehouse` | `WarehouseProofs` |
| `MempoolWatch` | sessions, registry, detector, bus | `MCServices` | `ServiceProofs` |
| `AccessControl` | API keys, requests, audit trail | `MCServices` | `ServiceProofs` |
| `ApiKeyRateLimiter` | fixed request windows | `MCServices` | `ServiceProofs` |
| `AnalyticsQueries` | facts, readiness, concurrency slots | `MCServices` | `ServiceProofs` |
| `RpcGateway` | rate slots, batches, retries | `MCServices` | `ServiceProofs` |
| `TransactionLookup` | a lookup beside a reorganization | `MCServices` | `ServiceProofs` |
| `MempoolCache` | the cached mempool page | `MCServices` | `ServiceProofs` |

The modules keep the parameters of the code (intervals, depths, window sizes)
as CONSTANTS under named assumptions, and have one action per stretch of code
between two awaits. `Variant` operators beside a definition are its mutated
forms: plausible mistakes against which the properties are tried.

`MCPipeline` and `MCServices` put components side by side that share no state
beyond what each module abstracts of the others. A variable `part`, chosen in
the initial state, says which component a behaviour is about; the others stay
where they started. The state spaces add up, they do not multiply, and every
component is explored as if it were alone.

### PrimaryLease

Any number of instances, each with a clock of its own, and the row
`app_config['primary']`. `pc[i]` says where the loop of an instance is:

| model | code |
|---|---|
| `SkipRoundTrip`, `ReadLease` | `leaseLeadership`, `hasFreshPrimaryLease` |
| `StandBy`, `Claim`, `RenewOwn` | `leaseKnownPrimary`, `leaseCompetingPrimary`, `claimPrimaryLease`, `renewPrimaryLease` |
| `LeaseWon`, `LeaseLost` (`Adopt`) | what both do with the answer |
| `HeartbeatFires`, `HeartbeatAnswered`, `WorkEnds` | `runWithPrimaryLeaseHeartbeat`: timer, renewal, `finally` |
| `ExecuteCall`, `ExecuteOrphan` (`Swap`) | `MetadataStore.compareAndSwapJsonValue` in the database |
| `ClaimFails`, `RenewFails`, `Die` | an awaited statement that throws, a process that dies |

Sending a statement, its execution and its answer are three steps. A caller
that gives up turns its statement into an *orphan*, which executes at any later
time or never. `call[i]` is the statement instance `i` awaits; the heartbeat
and the loop never await at once, since the loop ends its work before it asks
for the lease again. An instance that is restarted has a new id, so it is
another instance. The token compared by a swap is the JSON of a lease, an owner
and a time in milliseconds; two leases of one owner in the same unit of the
model's clock are equal, which only makes more swaps succeed.

### CoreWindow

One process, the server of the warehouse, the metadata database and the node.
A block is a height and a fork; fork `f` leaves its parent at `branch[f]`, so
`Parent` stands for the previous block hash. What a block contains is left out:
a row is its block, and `twice` remembers rows that were appended over equal
ones. The fact tables are two sets, those a rewind empties before the processed
blocks (`Early`: creates and spends) and after them (`Late`: the two movement
tables, the applied blocks, the analytics transactions). The runs take one table of each.

| `pc` | model | code |
|---|---|---|
| start, idle | `StartProcess`, `ReadTip` | `start`, `runDogecoinConfig` |
| marker, recovered | `ReadMarker`, `ClearRecovered` | `recoverPendingCoreApplyIfNeeded` |
| tail, retail | `ReadTail`, `LowerTail` | `ensureState`, `reconcileProcessTailWithWarehouse` |
| drain, delete, forget, rebuild | `Drain`, `DeleteFrom`, `Deleted`, `ClearCurrent`, `RebuildCurrent` | `rewindCoreDogecoinWindow`: `waitForCoreWindowInserts`, `deleteCoreDogecoinTail`, `rematerializeCoreCurrentStateAt` |
| plan, load | `PlanBackfill`, `PlanOnline`, `LoadWindow` | `processBackfill`, `advanceOnlineBacklog`, `onlineProcessHeights`, `planBackfillWindow` and the loading of snapshots |
| mark | `SetMarker` | `applyWindowApplicationsWithRecovery` |
| check, validate | `CheckProcessed`, `Valid`, `RejectWindow` | `pendingCoreWindowApplications`, `validatePendingCoreWindow` |
| facts, current, processed | `InsertFacts`, `InsertCurrent`, `InsertProcessed`, `Answer`, `Inserted` | `insertPendingCoreWindow` |
| unmark, publish | `ClearMarker`, `Publish` | `clearCoreApplyRecoveryMarker`, `publishWindowProgress` |

`durable` is what of the metadata has been flushed: `setJsonValue` (the marker)
flushes everything before it, `executeRelaxed` (the deletion of the marker, the
tail) does not, and commits are lost from the newest on. `running` holds the
inserts the server executes; `awaited` those the process waits for.

The faults are: an awaited insert fails, on the server or only for the process
(`InsertFails`); any other awaited call throws (`CallFails`; the rewind to the
warehouse tail counts as a kind of its own); the process dies with any of its
inserts still running (`Die`); the metadata database restarts and forgets what
it had not flushed (`MetadataCrash`); the host stops and takes the process, the
unflushed metadata and the newest rows of every table (`PowerLoss`, which
assumes that no processed block survives the rows it stands for, since it is
written after them).

Simplifications: raw sync is one step, and stores what the node has; online, it
reaches the tip in one round (`syncWindow` is not a bound). A backfill window
ends anywhere within the limit of blocks, since the limit of rows depends on
what blocks contain; it holds the stored blocks or, up to the finalized height,
the node's (source `auto`, which falls back to storage at any time, or
`storage`; a source fixed to `node` is left out). Deleting a table and clearing the current state are atomic
per table. The process that survives a metadata crash has its statement fail,
if one was under way.

### CorePipeline

One indexer process around its windows; a window and the tail it publishes are
one step here, and how a window is applied is `CoreWindow`'s subject. `state` and
`config` are the rows of the metadata database as its clients see them and
`onDisk` what a crash would leave: the state row, the progress and the
checkpoint of the materialization are relaxed commits, the flags are not, and a
crash (`MetadataCrashes`) loses the newest relaxed ones in commit order.

| model | code (`core-dogecoin-indexer-service.ts`) |
|---|---|
| `BeginIteration`, `EnsureState`, `MarkTransactionRefsReady`, `PublishProgress`, `AnnounceStage` | `runDogecoinConfig`, `ensureState`, `publishProgress` |
| `StartSync`, `CheckpointSyncTail`, `SyncWindowDone` | the sync of each stage, with the tail checkpointed while it runs |
| `ProcessBackfillWindow`, `ReturnBackfillToSync`, `ProcessOnlineWindow`, `OnlineNoWork` | `processBackfill`, `online` |
| `StartMaterialization`, `ClearTable`, `InsertRange`, `CheckpointRange`, `MergeParts`, `RangesDone`, `ClearDerived`, `InsertBalances`, `InsertAppliedBlocks` | the materialization of the current state (`core-dogecoin-state-store.ts`, `warehouse.ts`): key ranges, each checkpointed, resumed after a failure |
| `WriteFlag`, `DropCheckpoint`, `PromoteToOnline`, `Promoted` | `promoteBackfillToOnline` |
| `ProcessDies`, `WatchdogExpires`, `IterationFails` | deaths, the stall watchdog, any call that throws |

### RawBlockSync

`jobs` are the batches that run, each at the stage of its attempt: `Fetch`,
`Store`, `UpsertCoreBlocks`, `UpsertTransactionRefs`, with `BatchFails` at any
of them until the attempts are used up. `StartCall` cuts a window into
batches, `StartRound` takes as many as the concurrency allows, `RoundDone`
reports the frontier. When a batch fails for good the call ends at once, the
other batches of its round go on, and the next call runs beside them. The
concurrency halves on a failure and rises after `RampUp` successes.

### BlockPrefetcher

`Get` (drop what is below, fetch on, wait), `Settle` (a fetch of this or an
earlier generation ends), `Deliver`, `DeliverError` (a failure resets),
`PlanAgain` (the consumer falls back) and `ChangeSource` (a reset). What a
block weighs is left out, so whether the weight budget admits another batch is
a free choice, and bounds in weight are not claimed. `Rounds` says which sets
of batches the loop of `pump` may add, `GoesOn` and `MayStop` where it goes on
and where it may stop.

### SchemaMigrations

Each process of `Booters` migrates the metadata database, then the warehouse,
then serves. What a death undoes depends on the database: all migrations
(SQLite), the one under way (Postgres), nothing (MySQL and the warehouse). The
lock of either migration is the metadata database's and goes with its process.
`Old` processes know one version less, `Slow` ones have a clock that runs
behind, which matters since the ledger of the warehouse takes the row with the
latest time. Column lists and checksums are abstracted to the state of each
table.

A migration may refuse (`Refused`): a scoped core table or a legacy table with
rows in it, keys without an id or a hash. The boot then fails and is repeated.

The backfill is two statements of the server, one for each read model
(`RunBackfill`). Each chooses its rows when it starts and inserts them one by
one, in any order; what it has yet to insert is `statement`. A process that dies,
or whose request times out, frees the lock and leaves the statement running: its
rows become `orphans`, which land at any later time or never (`LandOrphan`), also
beside the statement of the next boot. Processes that serve store rows meanwhile:
a row is in its source (`StoreRow`) before its materialized view has put it into
the read model (`FeedView`), and `views` are the rows in between. `raced` records
which rows a backfill chose while an orphan or a view was still to insert them.

Two simplifications: the anti-join reads the source and the read model at one
instant, and a boot that refuses beside a view under way starts again after the
view is done. The read model of the current outputs replaces equal rows and that
of the movements does not; the model counts copies in both.

### BlockDecoding

Functions rather than a process: `DecodeRawBlock` and what it is made of follow
the functions of `dogecoin-raw-block.ts` one by one over sequences of bytes with
the widths of the wire, `ClassifyScriptPubKey` the matchers of output scripts,
`FormatKoinu` and `FromDecimalUnits` the way of an amount through a decimal
string. A second group of definitions (`Encoded`, `EncodedProof`,
`StandardScripts`) states the formats; `DecodingIsExact` says that the first
group inverts the second. Hashes and numbers other than counts stay bytes, a
digest is a record of its argument, and Base58 is left out. Numbers that reach
`fromDecimalUnits` as floating point (`toFixed`) are left out as well: a raw
block yields strings.

### BlockEffects, MemoryWarehouse, ClickHouseWarehouse

Here blocks have contents: transactions spend and create outputs of an owner
and an amount. `MemoryWarehouse` applies a window, with whatever it replaces, in
one step; it is the code's own in-memory warehouse and serves as the abstract
specification of the port. `ClickHouseWarehouse` executes the statements one by
one: a rewind (`RewindStep`, the deletes and the rebuild in their order),
`LoadPrevouts`, the repair of missing prevouts (`CleanForRepair`, `CleanStep`,
`Repair`), `InsertFacts`, `InsertCurrentOutputs`, `InsertBalances`,
`InsertProcessedBlocks`, and the materialization; any call fails between two of
them, and current rows get lost (`LoseRow`), which is what the repair is for.
Current outputs and balances are versioned rows, of which readers take the
highest.

The refinement `Memory == INSTANCE MemoryWarehouse WITH ...` maps the outputs
to those the fact tables imply and the balances to the newest versions; while a
call is under way, or owed a recovery, callers see what the processed blocks
below its cutoff say. `ActsAsInMemory` is `Memory`'s specification as a property
of this one. The movements are mapped to those that follow from the outputs,
since the backfill's differ (see the
[disagreements](#where-code-and-documentation-disagree)); `MovementsFollowFacts`
says what does hold of them.

### MempoolWatch

The API and the indexer in processes of their own over one Postgres database.
A session opens, counts and inserts its watch under the advisory lock of its
key, announces it, and ends by a match, its timeout, its client or a failure;
the detector refreshes the registry, catches up with the mempool for new
watches and matches raw transactions from ZMQ; NOTIFY carries both directions.
All sessions watch one address and a transaction is the units it pays. Five
minutes outlast any step that is pending, and an INSERT's answer outruns a
detection. Counted faults: a bus error on either side, a failed call of the
detector, an overflowing cache, the death of the API. Two things happen without
being counted, since they need nothing to be out of order: a raw transaction is
lost or cannot be decoded (`RawTxFails`, so ZMQ may bring nothing at all), and a
transaction leaves the mempool between its listing and its fetch, for which the
whole fetch is given up (`HydrationFails`) unless the node still has it in its
index (`FinishSynchronize`).

A synchronisation is two steps, the snapshot of the mempool and the rest
(`FinishSynchronize`, or `AbandonSynchronize` with its causes). An abandoned
refresh has replaced the list of watches already, so what its new watches should
have caught up with is `lost`, like the events that a call fails to publish or
that nobody hears while the API is `offline`. Events that are never made, since a
refresh for another watch was the first to cache a transaction, are `swallowed`.
Left out: failures of the metadata database other than in listing the watches,
persisting the status and publishing, and a raw transaction that arrives before
the last watch ends and is decoded after: it is not cached.

### AccessControl

Requests with or without a token go through authentication, their handler's
reads and writes of `api_keys`, one step per statement, and the audit hooks.
Secrets and tokens are names. `StoreFails` fails any statement. The bootstrap
of the first key runs under its lock; the checks that keep an active admin run
under none. A request with a token is not held up by that lock: while the first
key is about to be made, a key can appear beside it when a request that was
authenticated earlier creates one after all keys have been deleted.
`BootstrapIsExclusive` allows just that (`MadeWithToken`).

### ApiKeyRateLimiter, RpcGateway, MempoolCache

Small timed modules with a clock in ticks. The limiter is one subject's fixed
window. The gateway is a chain of callers that reserve slots, send batches and
match what comes back by id; overloaded calls are repeated after a growing
delay, and the node may follow another branch between the hashes and the
blocks. The cache is one entry with its loads, of which several may be under
way when they outlive the entry.

### AnalyticsQueries

The indexer applies and rewinds the facts of blocks and publishes the finalized
tail; the operator's script rewrites facts and declares them ready; queries
check readiness and tails, then read, inside a concurrency slot of their key.
Facts are *rough* when applied in the backfill, before prevouts are looked up.
The chain replaces no block that has once been as deep as the reprocess depth,
also where the tail has fallen since (`highest`): the finalized tail that is
published is never lowered, so a chain that did would hide facts from a query
whatever the service does.

### TransactionLookup

One transaction, in at most one of the replaced blocks on either branch, at any
position. The indexer replaces blocks store by store; a lookup reads references
and blocks in as many steps. While references are not ready it scans the newest
raw blocks, as many as `ScanLimit` allows (1000 in the code) and none that is
processed; a transaction between the two is not found (`BeyondScan`). A lookup
is `calm` while the indexer takes no step beside it; the property is about those.

## The runs

Passing runs (`PROJECT.json` names the mutant each property catches):

| run | configuration | shows |
|---|---|---|
| `lease` | `PrimaryLease.cfg` | two indexers whose clocks differ, statements that outlive their callers, a death: `FreshLeaseIsCurrent`, `TakeoverIsOfAStaleLease`, `SomeoneLeads`, `ReplacedLeaderNotices` |
| `backfill` | `CoreWindow_backfill.cfg` | windows of the backfill with two faults of any kind but a power loss, and a node that lags once: `RewindRunsAlone`, `NoDuplicateRows`, `NoHole`, `CatchesUp` |
| `online` | `CoreWindow_online.cfg` | windows that follow the tip over two reorganizations, with two faults: `PartialRowsAreCovered`, `InsertsAreMarked`, `ProcessedIsAChain`, `CurrentStateIsExact`, `PublishedTailIsProcessed` |
| `power` | `CoreWindow_power.cfg` | one power loss and one reorganization in the backfill: `NoHole` |
| `pipeline` | `Pipeline.cfg` | `PublishedStateHolds`: flags and tails the API reads are true whatever fails or is lost; `SyncTailIsStored`: everything below a sync tail is complete; `ReadAheadIsAccounted`, `WaitIsAnswered`: the read-ahead's count is right and nobody waits for a fetch nobody makes; `ServedSchemaIsCurrent`; `ReadModelsAreExact`: the read models miss no row and double none but the raced ones; `DecodingIsExact`; and that stages, raw sync and boots get done: `StagesReachTheTip`, `RawSyncCompletes`, `BootsComplete` |
| `warehouse` | `Warehouse.cfg` | `ActsAsInMemory` (the refinement), `KeptRowsFollowFacts`: the current rows and the movements agree with the facts |
| `services` | `Services.cfg` | `WatchLimitHolds`; `NothingIsMissed`: what a session misses has one of two named causes; `BootstrapIsExclusive`, `LastAdminNeedsARace`, `AuditedOnce`; `OnlyTheScriptHidesFacts`, `ConcurrencyIsExact`; `LimitsAreKept`; `ResultsAreOfTheirCalls`, `RateIsKept`; `CalmLookupsAreRight`; `LoadsAreShared` |

Runs that end with a counterexample: `hole_reconcile`, `history_ready`,
`movements`, `last_admin`, `lookup_unprocessed`, described
[below](#where-code-and-documentation-disagree).

`CatchesUp` is the liveness of the windows. Online, the processed blocks become
those of the node; in the backfill, every height up to the sync tail gets a
processed block, which may be a stored one that has been replaced since: the
online stage replaces it later. A backfill that meets a reorganization and a
node that lags behind an online window that failed do not catch up (see the
disagreements), so those two faults are left out of `backfill` and `online`.

Bounds. They say how often something happens, never when, except for those of the MC
modules named below (`FewBootDeaths`, `FewWatchEvents`, `FewFactsChanges`), which
also say beside what.

* `lease`: with a heartbeat of one unit and clocks one apart, a horizon of 6
  lets a lease become stale on both clocks, be replaced and be renewed; faults
  end early, so that time is left for a takeover after the last one. The proofs
  cover any number of instances, any heartbeat and a skew of up to two
  heartbeats.
* windows: two faults are what it takes to fail a window and then its recovery;
  heights up to 3, windows of two blocks and a reprocess depth of two give
  windows that start below, at and above the tail and reorganizations below the
  start of a window; two forks give a branch that replaces a branch.
* `pipeline`: a chain of up to four blocks needs several sync windows and at
  least two processed ones; two key ranges make a materialization that stops
  half way, two faults one that fails again when resumed. Raw sync has more
  batches than it runs at once and enough failures to use up the attempts of
  one and leave another in the background. The read-ahead is shorter than the
  chain and reset three times. Two processes boot, one of the previous release
  and the other with the slower clock, over each database, with one death, or two
  on MySQL where nothing is refused (`FewBootDeaths`), so that an abandoned
  backfill may run beside two later ones. There is one row for each source,
  stored before the boot, during it or never; the proofs cover any rows and any
  number of deaths, and two rows with two deaths, safety only, have been tried by
  TLC on `SchemaMigrations` alone. Blocks of one and two transactions, without a
  proof and with both kinds, arrive whole, cut off at every byte and with a byte behind them; their scripts
  have lengths on both sides of 253. Amounts have two decimals instead of eight,
  up to 20 units.
* `warehouse`: two chains over a genesis block; a spend that both contain at
  different heights, one within a window, one across windows, an output nobody
  owns; four windows allow a block to be applied, replaced and brought back.
* `services`: three sessions for two places, one of them with a minimum value, and
  one fault; transactions come where two sessions are opened, and a second one,
  so that one leaves while both are fetched, where nothing fails and the second
  session is idle or open (`FewWatchEvents`; one transaction for three sessions
  with a fault, and two for two without, have been tried on `MempoolWatch`
  alone); two requests over two keys that are both admins or absent (members arise
  by updates); two queries for one slot, two rewinds and two runs of the script, but
  not all four (`FewFactsChanges`); three limiter
  windows; two callers with two overloads; every placement of the transaction
  in two replaced blocks, with a scan of one block, so that it can lie beyond;
  four loads.

Fairness. `PrimaryLease`: time passes, the loop of a live process takes its
steps and its work ends (every step of the work has a timeout,
`runCoreBlockStep`), a heartbeat that is due fires, the database executes what
it was sent. `CoreWindow`: weak fairness of the process as a whole (it is
restarted when it stops, and each of its awaits ends with an answer or an
error), of the server (an insert it has ends), and of the node (the chain
grows, up to the bound). `CorePipeline`: weak fairness of the process's own
steps, for the same reasons. `RawBlockSync`: of its calls and batches, each of
whose awaits ends. `SchemaMigrations`: of each process that boots, which is
restarted after a death or a refusal, and of the views, since the server
finishes an insert; an abandoned backfill need not go on. Faults are never
fair. The services have safety properties only.

Deadlock is checked in the runs of `CoreWindow` and in `history_ready`. In the
others the system may come to rest or reaches a bound: the clocks of
`PrimaryLease` and of the timed services stop, booted processes have nothing
left to do, requests are answered.

## The proofs

All theorems hold for every value of the constants that satisfies the named
assumptions of the modules (`LeaseConstants`, `BoundedSkew`, `WindowConstants`,
`SyncConstants`, `PipelineConstants`, `ChainsAreValid`, ...); what else a
theorem assumes is in the third column.

| theorem | property | assumes |
|---|---|---|
| `PrimaryLeaseProofs!TypeCorrect` | `TypeOK` | |
| `FreshLease` | `FreshLeaseIsCurrent` | |
| `OnlyStaleLeasesAreTaken` | `TakeoverIsOfAStaleLease` | |
| `CoreWindowProofs!TypeCorrect` | `TypeOK` | |
| `MarkedInserts` | `InsertsAreMarked` | |
| `LonelyRewind` | `RewindRunsAlone` | |
| `CoreWindowBlockProofs!NothingIsSkipped` | `NoHole` | `FaultsAreApart` |
| `ProcessedStayOneChain` | `ProcessedIsAChain` | `FaultsAreApart` |
| `PublishedTailWasProcessed` | `PublishedTailIsProcessed` | `FaultsAreApart` |
| `CoreWindowRowProofs!RowsAreWrittenOnce` | `NoDuplicateRows` | `FaultsAreApart` |
| `DisagreementIsMarked` | `PartialRowsAreCovered` | `FaultsAreApart` |
| `CurrentStateStaysExact` | `CurrentStateIsExact` | `FaultsAreApart`, `Early # {}` |
| `RawBlockSyncProofs!SyncTypeCorrect`, `SyncTailCovers` | `SyncTailIsStored` | |
| `ServedSchemaStaysCurrent`, `ReadModelsStayExact` | `ServedSchemaIsCurrent`, `ReadModelsAreExact` | |
| `ReadAheadStaysAccounted`, `EveryWaitIsAnswered` | `ReadAheadIsAccounted`, `WaitIsAnswered` | |
| `CorePipelineProofs!PipeTypeCorrect`, `PublishedState` | `PublishedStateHolds` | |
| `WarehouseProofs!WarehouseInvariant`, `KeptRowsAreKept` | `KeptRowsFollowFacts` | |
| `WarehouseActsAsInMemory` | `ActsAsInMemory`: the refinement of outputs, balances and processed blocks; the stored movements are not compared | |
| `ServiceProofs!WatchLimitAlwaysHolds` | `WatchLimitHolds` | |
| `NothingIsEverMissed` | `NothingIsMissed` | |
| `OnlyTheScriptEverHidesFacts` | `OnlyTheScriptHidesFacts` | |
| `ConcurrencyStaysExact` | `ConcurrencyIsExact` | |
| `LimitsAreKeptAlways` | `LimitsAreKept` | |
| `ResultsOfTheirCalls`, `RateLimitIsKept` | `ResultsAreOfTheirCalls`, `RateIsKept` | |
| `MempoolLoadsAreShared` | `LoadsAreShared` | |
| `CalmLookupsAreAlwaysRight` | `CalmLookupsAreRight` | `0 \notin FirstTails` |
| `EachRequestIsAuditedOnce` | `AuditedOnce` | |
| `FirstKeyIsMadeOnce` | `BootstrapIsExclusive` | |
| `LastAdminNeedsARaceHolds` | `LastAdminNeedsARace` | |

*FreshLease.* A lease an instance believes in need not be its own any more, and
an orphan may bring back an owner of long ago, so the property is not
inductive. The invariant adds that every lease anyone holds, stored, sent or
orphaned was made at a moment its owner's clock has reached, and that a lease
an instance still counts as fresh is either in the row or has been replaced
only by one that was stale, which takes three heartbeats less two of skew: one
heartbeat, after which the lease is no longer fresh. This is where
`BoundedSkew` is used; with a larger skew the property fails.

*MarkedInserts and LonelyRewind* rest on one invariant, `MarkInv`: where a
window is being applied its marker is in the database and on disk, the blocks
to insert are among the window's, an insert that runs while nothing has failed
is awaited, and inserts run only where rows are being inserted or where a loop
that gave up has not drained them yet (`MayInsert`). With `TypeOK` it is
inductive: a step that leaves `MayInsert` either has all answers in (`Settled`)
or has waited for the server (`Drain`), and a marker is removed only after one
of the two. `TypeStep` and `MarkStep` go through the actions one by one, on the
facts about least and greatest heights proved as lemmas (`LeastExists`,
`GreatestExists`, `MarkCoversWindow`).

*NothingIsSkipped, ProcessedStayOneChain, PublishedTailWasProcessed* rest on
`TailInv` and `BlockInv`: below the floor of every tail there is (in memory, on
disk, in the marker, in the rewind under way) everything is processed, and the
blocks in hand continue the processed ones exactly where these end or where the
rewind has cut them. Both are about what a step may still rely on after the
process that knew it has gone: `CrashHolds` says that where the metadata
database may crash no tail is ever lowered, so that what it falls back to is
below what it had. `ChainInv` adds that every stored and processed block lies on
the node's newest branch or below a fork it will meet in the reprocess window.

`FaultsAreApart` excludes the combinations of faults in which `NoHole` is false:
a power loss, a failing rewind of the reconciliation, and online a node that
falls back or both deaths and crashes of the metadata database. Each has its
counterexample (the run `hole_reconcile` and the table
[below](#where-code-and-documentation-disagree)). In the runs `online` and
`backfill` two faults are too few for the last one; they cover both kinds
together, the theorems each of them any number of times, with errors.

*RowsAreWrittenOnce, DisagreementIsMarked, CurrentStateStaysExact* rest on
`RowInv` and `CurrentInv`, which say at each label what each table holds: the
rows of the processed blocks below the marker, everywhere without one, and of
the pending blocks from when the insert into that table has landed. The lemmas
behind them are about rows cut and appended together (`CutTogether`,
`FreshOnTop`, `Joined`). `Early # {}` is needed because the code deletes the
processed blocks between the fact tables: without one before them a rewind that
dies after the processed blocks leaves no trace that the next one must finish.

*SyncTailCovers.* The tail covers what is complete because the frontier does:
the batches of a round leave no gap above the frontier (`SyncInv`), each has
stored what its step says (`BatchHolds`), and a batch of an earlier call that
still runs only ever adds.

*The read-ahead.* `PrefetchInv`: the planned batches follow one another without
a gap, the fetches of the current generation that run are those the unsettled
batches wait for, batches the consumer has passed are loaded, and the height it
waits for is covered by one of them. A fetch of an earlier generation settles
without effect, so the count of what is in flight is that of the present plan
however often it is reset, and a consumer that waits does so for a fetch that
runs.

*The boot.* `MetaInv` is about what the holder of the lock sees (`Seen`: its
transaction, or what is committed), whatever the database undoes: schema and
ledger agree (`Sound`), what is seen has everything that is committed, and who
migrates holds the lock and has every version below its own. A statement of the
first missing version disturbs none of the recorded ones (`StatementKeeps`), so
a death that leaves half of a version behind, as in MySQL, does no harm.
The read models rest on
`ClickHolds`, that only the holder of the warehouse's lock has a statement, and
that in the middle of its backfill, and on `CopiesHold`: a row that was never
chosen while it was under way is there, or on its way there, at most once
(`Carried`: in the read model, among what running and abandoned statements and the
views have yet to insert), and a completed backfill has left out no stored row but
those whose view is under way. The rows are any set, and the backfills left behind
any number.

*PublishedState.* `CommitOrder` relates the rows in memory to those on disk: the
tails on disk enclose the facts, the readiness flag is on disk only when it is
set, and a checkpoint that would be resumed from disk would be resumed from
memory, over ranges that are filled. `WorkHolds` says what the process has in
hand, `MaterializationHolds` which ranges are done at each step. There is one
lemma per action.

*The warehouse.* `ClickInv` says what every table holds between any two
statements. Facts below the cutoff are those of the processed blocks below it,
and above it anything may be left of a window that failed (`FactsInv`); while a
rewind runs, the number of statements still queued tells which tables have been
cut (`Statements`, `Progress`). The blocks in hand continue the processed ones,
and a rewind to the start of a window leaves a chain it can be applied to
(`CallInv`). Of the current rows `Sound` says that each stands for an output of
the chain, that a spent output has the row of its spend, which outranks its
others, and that no more unspent outputs are without a row than rows have been
lost (`CurrentInv`). This holds again after a repair that stopped anywhere,
because the repair too is a rewind and cuts the facts before it rebuilds from
them. `ChainsAreValid` is what the node guarantees of a chain: what is spent
has been created, and nothing is created or spent twice.

*The refinement.* `BalanceInv` adds the balances: a row is never newer than the
end of the blocks it was computed for, and the newest row of an address is what
the unspent outputs of these blocks (`Live`) sum up to (`SoundBalances`); it also
says what a call has planned to write and which rows a rebuild has done.
`Holdings` is a fold over a set. That the fold exists, does not depend on the set
it is taken over (`SumsExist`, `SumsAgree`) and adds up over disjoint sets
(`TotalsAdd`) is shown by a least counterexample, so that what a window adds to
an address is what it creates less what it spends (`BalanceAfterAWindow`). It
follows that everything callers see of outputs, balances and blocks is a function of one set, the blocks that
count (`CallersSeeTheBlocks`). The simulation then only has to follow this set
(`StepIsSeen`): the insert of the processed blocks is the whole `Apply` of the
warehouse in memory; a window that starts a rewind, and a call that fails, are a
`Recover`; every other statement changes nothing that is seen. `AppliedRows` and
`RewoundRows` are what the two do to the outputs of a chain.

*Access control.* `BootstrapInv` (who is between the count and the insert holds
the lock), `AuditInv` (who is audited has its status and one event) and
`AdminInv`: what a change of keys has read is what is there until another one
writes beside it, so that the check it passed still holds when it writes.

*The services.* `WatchLimitInv`: who has counted holds the lock, so that there is
room for its row. `WatchInv` has two halves: an open session whose time is not over
is listed, known or about to be asked for (`SessionsHold`); and a watch the
detector knows and is not catching up with has heard of every qualifying
transaction of the mempool (`Heard`), or its event is still to come, in raw or
from the next poll, was lost, or was swallowed after the raw transaction had been
lost (`MempoolHolds`). `FactsInv`, `QueriesInv`: at or below the tail a query was
admitted with, only the script's deletions take facts away, and the slots are
those of the queries between `acquire` and `finally`. `LimiterInv`: a window's
admissions lie within it and number its count, so a stretch as long as a window
meets two at most. `RateInv`: the next slot lies as many intervals after the
start as batches were sent. `CallInv`: the hashes with which a call asks for
blocks are those of its heights on one branch. `CacheInv`: the entry is a load
that has not failed or has expired. `StoreInv`, `ReaderInv`: what the stores say
of the transaction at each step of a replacement, and what a lookup has read of
it, unless a step crossed it. `0 \notin FirstTails` says that a block that is
replaced has been processed; without it the run `lookup_unprocessed` is the
counterexample.

Only model-checked: `BlockDecoding`, which is recursion over data, and all
liveness, since neither fairness nor ENABLED is within the prover's reach.

## Where code and documentation disagree

Each of these is a run that ends with a counterexample.

* `hole_reconcile`: `warehouseTailReconciled` is set before the rewind it
  stands for; when the rewind fails after a power loss, the same process
  continues above lost blocks. The comment of `reconcileProcessTailWithWarehouse`
  sets out to prevent that "permanent hole".
* `history_ready`: `promoteBackfillToOnline` writes the stage and then, in
  another statement, `dogecoin_history_ready`; after a death between the two no
  iteration writes the flag. The runbook lists both as the healthy state.
* `movements`: windows of the backfill look up no prevouts of earlier windows,
  so a spend of an older output writes no debit movement, and nothing adds it
  later; address histories are paginated over movements.
* `last_admin`: the count of active admins and the write that removes one are
  separate statements; two requests can both count two. The service refuses to
  "remove the last active admin API key".
* `lookup_unprocessed`: references of a transaction are ordered by height, not by
  age. When blocks that were synced but not processed are replaced, the
  reference of the replaced block stays, outranks the right one and is then
  rejected, although "processed transactions always resolve through the core
  create table".

Others show when a constant or a property of a run is changed:

| change | what fails | why |
|---|---|---|
| `CoreWindow_online.cfg`, `MaxShrink = 1`, with `NoHole` | `NoHole` | a window that starts lower because the node reported a lower tip fails and is rewound to its own start; the next one starts above it |
| `CoreWindow_online.cfg`, `MaxFaults = 3`, `Faults = {"death", "metadata"}`, with `NoHole` | `NoHole`, `PublishedTailIsProcessed` | after a restart the reconciliation lowers the tail, which a crash of the metadata database takes back while a window from the lower tail is planned; a second crash fails that window, its recovery rewinds below the tail that came back, and the same process, which has reconciled, starts its next window above the cut |
| `CoreWindow_backfill.cfg`, `MaxFork = 1` | `CatchesUp` | a block stored inside the reorg window and replaced since is followed by a final one from the node that names another parent; no stage before the online one goes back, and the backfill throws for good |
| `CoreWindow_power.cfg`, with `NoDuplicateRows` | `NoDuplicateRows` | the deletion of the marker was flushed, the tail was not, and rows without processed blocks survived: the window is appended over them, and movements are not deduplicated ("only replays idempotent work", `README.md`) |
| `Pipeline.cfg`, with `BackfillIsReplaySafe` (`SchemaMigrations`) | a movement is twice in its read model | a backfill whose process dies runs on at the server while the lock is free; the next boot chooses the same rows, and both insert them into a table whose amounts are summed (`clickhouse-migrations.ts` 381), although "migration steps are replay-safe" (`docs/production-runbook.md` 147) |
| `Services.cfg`, with `CatchUpIsKept` (`MempoolWatch`) | a new watch is not caught up | a refresh replaces the list of watches and then fetches; when a transaction of the batch has left the mempool the whole refresh is given up (`mempool-appear-detector.ts` 117, `rpc.ts` 110), and the next one has no new watch: "on connect, the indexer rematches its shared current-mempool cache" (`docs/dogecoin-explorer-api.md` 48) |
| `Services.cfg`, with `PollingDetects` (`MempoolWatch`) | an older watch misses a transaction that ZMQ did not bring | a refresh for a new watch is the first to fetch it, caches it and matches it with the new watch only; the next poll sees nothing new (`mempool-appear-detector.ts` 225): "ZMQ `rawtx` [...] plus RPC polling" (`docs/dogecoin-explorer-api.md` 54) |
| `CalmLookupsAreRight` without `BeyondScan` | a lookup answers that there is no such transaction | with references not ready and more blocks waiting than the scan takes, a block above the process tail is neither scanned nor in the created outputs |
| `CalmLookupsAreRight` without `calm` | lookups during a reorganization | between the raw block and its metadata a lookup answers the new block with the position in the old one |
| `OnlyTheScriptHidesFacts` without `owed` | a query misses facts | a second run of the script deletes facts that are declared ready before it inserts them (`warehouse.ts` 3487); and rough facts above the finalized tail are kept when the stage goes online |

And three met on the way that no module states as a property: a recovered
window deletes the transaction refs above its start although "everything newer
is synced with refs"; two leaders work side by side while the replaced one is
slow to renew ("runs one leader"); on Postgres and MySQL the audit migration adds
a column of NULLs and copies resource ids only where it finds '[]'
(`metadata-store.ts` 1601). A power loss that takes the
newest key range of the warehouse while the checkpoint of the materialization
survives leaves a range empty; `CorePipeline` assumes the warehouse keeps what
it acknowledged.

## What is not modelled

* Of `CoreWindow`: the adaptation of the window size to its duration and the
  watchdogs that exit the process (a death to the model). Two indexers at work
  on one warehouse, a replaced one and its successor, are not composed:
  `PrimaryLease` shows how long they overlap and `CoreWindow` has one process.
* An event that arrives before its session has its watch (the model lets the
  INSERT's answer outrun it), the watch limit on databases without advisory
  locks, and a schema lock lost in the middle of a migration.
* Routing, request validation, cache headers and the wording of audit events:
  no state.
* The validation of analytics SQL and Base58: sequential functions over text,
  which tests with fixtures reach better.
* Raw block storage behind its put and get, the DuckDB adapter, the row formats
  of the SQL dialects, the mempool sampler (a timer that copies a snapshot),
  settings, wiring, signals, logging and the operator scripts other than the
  analytics backfill.

## Plan

The model is complete as far as the lists above say. What is left is a proof:
`CoreWindow`'s chain and rows without the part of `FaultsAreApart` that only holes
need. TLC finds no counterexample with a third fault either (`online` with
`MaxFaults = 3` and `Faults = {"death", "metadata"}`), so `ProcessedIsAChain`,
`NoDuplicateRows`, `PartialRowsAreCovered` and `CurrentStateIsExact` should
follow from a weaker `TailInv`.

`BlockDecoding` is recursion over data and stays with TLC, as does liveness.
