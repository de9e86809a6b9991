# A verification project for the Ethereum pipeline

The repository is a pipeline for Ethereum data with two paths. The *stream* path
takes new blocks from a node to Kafka, from there into TimescaleDB and to a
dashboard. The *batch* path exports a day's data to Google Cloud Storage and
refines it in layers with Spark. This directory holds TLA+ models of the parts
whose control can go wrong, their model-checking instances, and proofs.

Paths below are relative to the repository, which the source references in
`PROJECT.json` call `src/`.

## 1. The system

    ethereumetl stream --> Kafka: blocks, transactions, token_transfers
                                  |
                                  v
    Redis (block times) <-> stream consumer --> TimescaleDB
                                  |                  |
                          Kafka: whale-alerts        | REST queries, cached metrics
                                  v                  v
                           FastAPI backend --WebSocket--> dashboard hook

    Airflow: bronze (ethereumetl -> GCS) -> silver (Spark) -> gold (Spark -> BigQuery)

| component | state it keeps | operations | what is hard | what makes it correct |
|---|---|---|---|---|
| **stream consumer** `src/consumer` | two batches, the `running` flag, the producer's send buffer and `_error`; outside: group offsets, rows, alerts, block times with a TTL | poll, validate, cache a block time, enrich a transfer, `flush_batches`, shut down | three systems written one after the other; every call may fail; crash, rebalance, asynchronous commit, late delivery reports | offsets are stored only over records whose rows and alerts are out; a stop ends; a failed flush is repeated |
| **whale broadcast** `src/backend/core/ws_manager.py`, `main.py`, `api/whales.py` | the list of connections, the heartbeat task, the alert task, what lifespan has opened | connect, disconnect, broadcast, heartbeat, consume, start, stop | sends in flight while the list changes, a client that does not read, a start-up that fails half-way, shutdown order | who is listed has missed nothing; the stream goes on; what was opened is closed |
| **cached metrics** `src/backend/services` | Redis entries with a TTL, two locks, the connection pool | get with double-checked locking | expiry and failure between checks; waiting for a lock with a pooled connection in hand | one query per miss; answers do not go back in time; nobody waits for ever |
| **REST queries** `src/backend/repositories` | none | reads | none of their own | content of the SQL |
| **whale feed** `frontend/src/hooks/useWhaleWebSocket.ts` | messages, status, attempt counter, timer, socket | mount, connect, history, message, close, reconnect, unmount | timers racing socket events and unmounting; history against alerts; StrictMode | one connection or one timer; no promised whale forgotten; it recovers |
| **dashboard views** `frontend/src/components` | view state | render | an answer that is late | - |
| **stream producer** `run_stream.py` | a checkpoint file of a third-party process | launch | - | - |
| **bronze batch** `dags/eth_etl_dag*.py`, `src/storage` | temporary files, GCS objects, XComs | ask the range, export, upload, check, publish, clear | retries after a clean-up; a kill between uploads; a day that is not over | a published day is complete and exact; days in order |
| **silver and gold layers** `dags/eth_{silver,gold}_dag_*.py`, `src/silver`, `src/gold` | GCS partitions, BigQuery tables, asset events | trigger, build, write, check, publish, append | exceptions that are caught, delete-then-rename, two computations of one table, events that meet a running DAG | published tables were rebuilt; BigQuery follows the files; a day arrives |
| **aggregations** `src/silver/transform`, `src/gold/transform` | none | joins, tiers, flow types, windows, sums, labels | ties, duplicates, zero and boundary cases | a transfer counted once for each of its successful receipts; sums balance; labels follow the numbers |
| **reference data** `src/address`, `scripts` | CSV files, an index | load | - | - |

They interact through Kafka topics (at least once, per-partition order), shared
stores (database, Redis, GCS), Airflow asset events, and within a process
through callbacks (delivery reports), signals, timers and asyncio tasks.
`PROJECT.json` lists every component with its sources and status, and under
`hazards` each thing that is hard to test, at its line.

## 2. The plan

| module | models | theorems in |
|---|---|---|
| `EthConsumer`, abstract `AtLeastOnceSink` | the stream consumer | `EthConsumerProofs` |
| `WhaleBroadcast` | lifespan, alert task, heartbeat, endpoints and connection manager of the server | `WhaleBroadcastProofs` |
| `CachedMetric` | the two caches, their locks and the pool | `CachedMetricProofs` |
| `WhaleFeed` | the hook, with the backend it talks to | `WhaleFeedProofs` |
| `BronzeRun` | the daily bronze DAGs in their three variants | `BronzeRunProofs` |
| `LayerPipeline` | the silver and the gold DAGs and their jobs, composed through partitions and events | `LayerPipelineProofs` |
| `WhaleTables` | the tables computed of a day's whales | `WhaleTablesProofs`, on `FiniteSums` |

`MCEthConsumer`, `MCWhaleBroadcast`, `MCCachedMetric` and `MCWhaleTables` give
TLC the constants that a `.cfg` cannot write; the others are checked directly.

The modules meet at promises. `EthConsumer` proves `AlertIsStored` and
`CommittedIsAlerted` of the topic whale-alerts, where `WhaleBroadcast` starts;
`WhaleFeed` takes from both that an alert comes after its row and that a listed
client misses none. `BronzeRun` proves what the asset event means
(`PublishedDayIsExact`), `LayerPipeline` starts from the event and treats a
day's bronze as one version.

What is left: an abstract specification of the feed, `depends_on_past` over
runs that overlap, and the token popularity scores.

## 3. Models and code

### 3.1 `EthConsumer`

One variable per piece of state and one action per call that leaves the process,
because each may fail on its own and a crash or a signal may come between any two.

| variable | in the code |
|---|---|
| `Log`, `position`, `requested`, `committed` | the partitions, what `poll` has returned, what `commit()` last asked for, what the broker has stored for the group |
| `pc` | where the single thread stands (below) |
| `running`, `reason` | the global flag; which of its two callers runs `flush_batches` |
| `txBatch`, `tokenBatch` | `tx_batch`, `token_batch` |
| `held`, `retries` | `token_model` and `retries` in `enrich_token_timestamp` |
| `staged`, `rows` | rows of the open transaction; rows committed, by primary key |
| `cursor`, `queue`, `error`, `alerts` | progress of the loop over whales, librdkafka's send buffer, `_error`, the topic whale-alerts |
| `cache` | `block_time:<n>` keys in Redis |

`pc` runs `poll -> check` for each message (through `enrich` for a transfer without a
timestamp), `check -> connect -> insert -> commit -> publish -> flush -> offsets -> poll`
for a flush, and `exit -> ... -> close -> down` when the loop is left; a shutdown flush is
the same code with `reason = "shutdown"` and `Resume` as its continuation.
An exception inside the `try` of `flush_batches` is `AbortFlush`, whatever call raised
it; an exception in the loop that is not a `ValidationError` goes to `exit`, and the
record at hand is gone from memory although its position has passed.

Choices worth knowing:

* A record has a key, a block, a value, a *shape* (parses and validates, or not) and a
  *stamp*: the block time, a given but null or unreadable time (which
  `parse_eth_timestamp` turns into one of `WallClock`), or none. Block numbers stand for
  block times too, so `Block` and `WallClock` are disjoint.
* A poll that returns nothing stands for a record not yet produced, so a constant log
  loses no behaviour.
* `COMMIT` that fails may have been obeyed; a delivery that fails may have been stored.
* `consumer.commit()` records the position and returns. `OffsetsStored` and
  `OffsetsLost` are its fate, at any later time; a newer request supersedes an older one.
* Rejoining the group after a session timeout is served by `poll`: fetching starts again
  at the committed offsets while the batches stay as they are, since the code sets no
  rebalance callbacks.
* Start-up that fails (database or Redis unreachable) exits without effect; it is a
  `Start` that has not happened yet.
* There is one consumer, as in `infra/vm1-docker-compose.yml` (`container_name`,
  `restart: always`).

### 3.2 `WhaleBroadcast`

One event loop, so a step is the code between two awaits that can suspend. `phase` is
where `lifespan` stands, `open` what it (and the alert task) has opened, `broken` the
closes and awaits that raised, `task` the state of the alert and the heartbeat task,
`sending` the sends each task's `gather` still waits for, `conns` is
`active_connections`, `endpoint` the coroutine `whale_websocket` of each client and
`link` what a send to it would meet. `position`, `origin` and `lost` are the Kafka
consumer's place in the topic; `current` and the history variable `owed` say which
alert is being broadcast and what a listed client has not had.

* `accept()` does not suspend under uvicorn, so checking the limit, accepting and
  listing are one step: the limit cannot be overrun there.
* A client that reads slowly is one whose `Send` comes late; one that does not read at
  all is `stuck`, its send never completes, and uvicorn's keep-alive (`ws_ping_interval`
  and `ws_ping_timeout`, 20 s each) ends its connection: `Keepalive`.
* The partitions of whale-alerts are one merged sequence. With auto-commit and
  `auto.offset.reset: latest` a new session resumes anywhere from where the last one
  started to the end.
* What the CSV loaders write is abstracted; they are steps of the start-up that may fail, as
  are opening the pool, constructing the Elasticsearch client and reading the token file for it.
* `main.py:99` cancels the task while `poll` may still run in its worker thread. The
  thread that outlives the cancellation is not modelled.

### 3.3 `CachedMetric`

Each request is a process; `pc` walks `acquire -> check -> lock -> recheck -> query
(-> fallback) -> store`, with every await a step and `Fail` from each of them. The
database is a version number that `Write` raises; `cache[k]` is the version Redis holds,
`redis` is empty when Redis was not there at start-up, `locked` and `conns` are the
asyncio locks and the pool. Trending and plain requests hold their connection from
`Depends(get_db)` to the end; the gas request borrows one for each query
(`MayQuery`). `floor` is history: the newest version answered before a request arrived.

### 3.4 `WhaleFeed`

`mounted`, `current`, `timers`, `attempt`, `status` and `list` are the refs and states of
the hook. `sock` holds two connections, the one in use and the one before it, each with
the mail on its way and the fate of the history request made for it; an answer that
arrives for the older one is still merged, as in the code. The backend's side is
`Store`, `Alert`, `AlertLost`, `Accept` and `AnswerHistory`. An entry from an alert is
kept apart from one of the history (`live`): the payload has `hash` where the hook looks
for `tx_hash`, so ids never match and a whale may be listed twice. Delays are left out:
a timer fires at any time.

### 3.5 `BronzeRun`

`Variant` is the DAG. `Plan` is its chain of tasks and `StepsOf` the calls inside a task,
`at`, `step` and `tries` the place of the run in them; time is counted in blocks, and
`range` is what `calculate_block_range` got from Etherscan. `disk` is what the running try
can see: in k8s and gke a try is a new pod with an empty disk, in local the tasks share a
directory and a task that ends removes files in `finally`. `Fail` is an exception at any
step, `Killed` a pod that dies without its `finally`, `Clear(k)` the operator clearing a
failed run from task `k`. An export may come out bad (`Outcome`) in
the two ways the quality check can see: an empty file, or a number of receipts that is not
that of the whales (`eth_etl_dag_k8s.py:161-180`). An export that returns without error but
leaves out blocks or rows of another table is not modelled; no check of the code would see it. gke and local take the day that is still running, k8s the day
before: only k8s satisfies `PublishedDayIsExact`, and the mutant `SameDay` is the others'
choice. Not modelled: a backfill, and runs that start before the run of the day before
has succeeded.

### 3.6 `LayerPipeline`

A partition is the version of the bronze day it goes back to, 0 when it is not there.
`due` holds the asset events no run has consumed, `run` the day of each layer's active
run (`max_active_runs=1`), `task` and `tries` its tasks, `held` what a job has read and
not yet written, `based` the bronze version when the silver run started, `caught` the jobs
whose exception `main` logged, `lost` (history) the days whose last event did not end in a
good run.

* `Start` consumes every waiting event and works on one of them (`events[0]`).
* Dynamic partition overwrite is a delete (`Build`) and a rename (`WriteSilver`); what
  fails in between leaves no partition. Gold files are one step, since one gold job's
  torn partition is read by nobody; `Fail` still may leave it removed.
* A gold job computes its rows twice, for the files and for BigQuery (`Appended` reads
  silver again), and appends: a retry after the append adds the rows again, where
  `docs/gold/gold_transform.md:208` speaks of an overwrite. `Loaded` looks at the last copy.
* `QualityCheck` is in the local DAG only. It computes with columns that the schema does
  not have, so it fails on every table it can read and passes on those it cannot.
* An exception in `token_flow` or `whale_txns` is caught by `main` in the cloud DAGs (`Raise`);
  a pod that is killed fails its task (`Dies`), and the task is tried again.
* `lasting` marks a failure that all tries meet.
* Not combined: failures while `publish` runs, and DAG variants that share the asset
  `silver/ethereum_silver_complete` side by side.

### 3.7 `WhaleTables`

`day` counts how often each transaction, with its receipts, is among the day's; `TxnEnriched`, `WhaleTxns`,
the columns of `top_whales_daily` and `MarketFlowHourly` are operators of it. Where Spark
does not fix a result, it is a set: `KeptLabels` are the choices of `dropDuplicates`
(made separately in the sender and the receiver join), `Orders` the orders of rows with
one timestamp in a window. Amounts are whole numbers (the thresholds are multiples of
100 ETH).

## 4. What is checked

| run | module, size | shows |
|---|---|---|
| `consumer_safety` | `MCEthConsumer`, 884,456 states | One block, one whale (exactly at the threshold), a tombstone, a small transaction and a transfer that needs enrichment, on three partitions; batch size 2, one retry, a send buffer of 2. All failures, crashes, rejoins, stops and cache expiry interleave freely. |
| `consumer_liveness` | 85,310 | One batch, a malformed record and a tail; `StopTerminates` and `OnlyPartialTail` under `FairSpec`. |
| `consumer_token_loss` | - | violates `TokenAtLeastOnce`: a transfer whose block time is not cached is skipped, and the next flush acknowledges it. |
| `consumer_duplicate_rows` | - | violates `OneRowPerRecord`: a null timestamp makes the wall clock part of the primary key, so redelivery adds a row. |
| `broadcast_safety` | `MCWhaleBroadcast`, 309,659 | Three clients at a limit of two, three records (one does not decode), one lost session, every start-up and shutdown step failing. |
| `broadcast_liveness` | 73,695 | Two clients that stall, die or fail; the stream, the heartbeat and the shutdown get on. |
| `cache_safety` | `MCCachedMetric`, 479,395 | Three requests for one trending list, one for gas, one plain, over a pool of two; with and without Redis; one write. |
| `bronze_safety` | `BronzeRun`, 73,434 | Three days of the k8s DAG, up to five failures, bad exports or kills, any task cleared. |
| `bronze_resume` | `BronzeRun` | violates `RetryFindsInput` in the local DAG (section 6). |
| `layers_safety` | `LayerPipeline`, 871,627 | Each of the three variants over two days, two publications or runs by hand, one exception or kill anywhere. |
| `feed_safety` | `WhaleFeed`, 678,157 | Two whales, one remount, three faults. |
| `tables_safety` | `MCWhaleTables`, 4,495 | Every day of up to three transactions of 29 kinds, with every choice of labels and every order of ties. |

The properties, by module.

`EthConsumer`
* `CommittedIsStored`, `CommittedIsAlerted`: below a stored offset nothing the consumer
  owes is missing from the database or from whale-alerts. "Owes" excludes what the code
  drops on purpose: invalid records and transfers it cannot date.
* `AlertIsStored`: an alert never precedes its row. `ConsumedIsSafe`: what `poll` returned
  is in a batch, or out. `OffsetsNeverRegress`, an action property.
* `RetryIsFutile`: the ten retries of `enrich_token_timestamp` cannot succeed: the only
  thread that caches block times is the one that waits.
* `ImplementsSink`: every step is a step of `AtLeastOnceSink` (store, announce a stored
  key, acknowledge records whose duty is done) or leaves its three variables alone.
* `IInv`: the inductive invariant of the proofs.
* `StopTerminates`: a stop request ends the process, whatever fails meanwhile.
* `OnlyPartialTail`: once failures cease, a full batch does not stay in memory and every
  record the consumer owes is in the partial batch or out. There is no flush by time, so
  the partial batch may wait for ever. (While `error` is set a failed delivery cannot be
  told from a successful one, so `Fault` counts only the one that sets it.)

`WhaleBroadcast`
* `NoGapWhileListed`: a listed client has had every alert since it was accepted, but the
  one whose send is pending. A client that missed one is removed, never served on.
* `ReleasedWhenDown`: wherever the start-up failed, the `finally` of `lifespan` leaves
  open only what could not be closed, unless the alert task or Elasticsearch raised: those
  two exceptions are not caught and skip the rest.
* `StreamKeepsUp`, `DeadConnectionLeaves`, `ShutdownEnds`: liveness. The stream keeps up when
  every alert was broadcast or passed over: those that a new session skips are lost to the
  dashboard until it asks for the history again, and no property forbids it.

`CachedMetric`
* `NoStampede`: nobody runs the heavy query for a key that is in the cache.
* `MonotoneAnswers`: no answer is older than one given before the request arrived.
* `EveryRequestAnswered`: nobody waits for ever, and locks and connections come back.

`WhaleFeed`
* `OneConnection`: connections and timers together are one while mounted, none otherwise.
* `NothingForgotten`: a whale stored before the page connected or alerted since is listed
  or on its way, unless the list is full. (That what a full list keeps is newer is left to the
  merge's sorting and is not part of the property.)
* `FeedRecovers`: once connections no longer break, the feed is live.

`BronzeRun`
* `PublishedDayIsExact`, `PublishedInOrder`, `RetryFindsInput`, `EveryDayPublished`.

`LayerPipeline`
* `PublishedIsRebuilt`: silver is published with tables of the bronze the run was started
  for, or a later one, but for jobs whose exception was caught.
* `BigQueryKeepsUp`: the rows appended last are not older than the files, unless the day's
  run is under way or known to have failed.
* `EveryDayArrives`: the last bronze of a day reaches every table, with three exceptions:
  a run failed, an exception was caught, the event was consumed by a run for another day. The
  code does the last two, so that a caught exception lets the gold layer run on stale tables
  and that a dropped event leaves its day behind is recorded (`caught`, `lost`) and not
  prevented. Of the local variant the property says next to nothing: its quality check fails
  on every table it can read, and with it the run.

`WhaleTables`
* `EachTransferOnce`, `FlowsCancel`, `FlagWhateverTheTies`, `PressureFollowsFlow`,
  `TierNotBelow`; each for every choice Spark may make. Rows are counted by transaction and
  receipt, not by hash, and flow types and tiers are those of the code (section 6).

Each module has a type invariant. Each property of a passing run has a mutant (an operator
marked *Mutant* before the definition it replaces): a plausible bug at that place of the
code which the property catches.

### Bounds

* Consumer: a batch of 2 over two transactions and a transfer gives full and partial
  batches in every mix; `BufferCap = 3` is one more than a batch, so a retried flush of a
  grown batch occurs; one retry distinguishes the first look-up, a repeat and giving up.
  One block and one partition per topic are enough for a transfer to be read before its
  block, after it, and after its expiry.
* Broadcast: with three clients and a limit of two, one is refused or comes after another
  has gone; three records separate reading, skipping and broadcasting again after a
  reassignment. The clients are symmetric in the safety run (its properties do not tell
  them apart); the liveness run uses no symmetry.
* Cache: three requests for one key are a reader, the one that queries and one that waits
  for the lock; with the plain one they exceed the pool. One write makes stale and fresh
  answers differ.
* Bronze: three days let a failed day hold up a next one that others follow; five faults
  exceed the tries of a task (two) twice. Two blocks tell the first of a day from the last.
* Layers: two days are needed for an event to be lost to another day's run; two events let
  a day be published again while it is being built; one fault at any step, which may last,
  uses up the tries.
* Feed: a list of three overflows with two whales that come from both sources; three
  faults break two connections in turn and lose or repeat an alert.
* Tables: three rows are what the sums and flags need to tell orders apart (`HighCount` 2);
  the amounts lie below, at and above each threshold used.

### Fairness

* Consumer: `Process`: the single thread goes on, each call returning or raising
  (`flush()` has no timeout of its own, but librdkafka gives each message up after
  `message.timeout.ms`, hence weak fairness of `DeliverAlert \/ DeliverAlertFails`).
  `Start`: the container is restarted always. `Poll(p)`: strong, because a poll that
  returns nothing is always possible and the client fetches from each partition again and
  again. `OnlyPartialTail` is conditional on failures ceasing.
* Broadcast: runnable coroutines run, timers fire, uvicorn drops a silent peer (weak).
  `PollAlert` is strong: errors may come between polls, but not for ever instead of them.
  Peers, operators and failures owe nothing.
* Cache: weak fairness of each request's own next step: Redis and the database answer or
  raise. The lock needs no strong fairness with finitely many requests.
* Bronze: Airflow starts and runs what is due, blocks are mined (weak); the operator
  clears a failed run from its first task again and again (strong). Faults are bounded.
* Layers: Airflow runs what is due (weak). Clearing a failed run is not assumed.
* Feed: the browser delivers events and answers, and the backend accepts and answers
  (weak, of all progress together). Faults are bounded.

`EveryDayPublished` and `FeedRecovers` hold because faults are bounded: they say that no
number of faults leaves the system stuck, not how long it takes.

Deadlock is checked for the consumer, which can always crash or restart. The other systems
may stop (a server that is down, requests that are answered, no more days), so their runs
say `CHECK_DEADLOCK FALSE`; that they do not stop too early is what their liveness
properties say.

## 5. What is proved

For every value of the constants, from the assumption of each module alone
(`ConsumerAssumption`, `BroadcastAssumption`, `CacheAssumption`, `FeedAssumption`,
`BronzeAssumption`, `LayerAssumption`, `TableAssumption`):

| theorem | module |
|---|---|
| `TypeCorrect`: `Spec => []TypeOK` | `EthConsumerProofs`, `WhaleBroadcastProofs`, `CachedMetricProofs`, `WhaleTablesProofs`, `LayerPipelineProofs`, as `FeedTypeCorrect` `WhaleFeedProofs`; `BronzeRunProofs` for the three DAGs |
| `Inductive`, `StoredAtLeastOnce`, `AlertedAtLeastOnce`, `AlertsFollowRows`, `NothingForgotten`, `Monotone`, `RetriesAreFutile` | `EthConsumerProofs` |
| `Refinement`: `Spec => ImplementsSink` | `EthConsumerProofs` |
| `NoGap` (`NoGapWhileListed`), `NothingLeftOpen` (`ReleasedWhenDown`) | `WhaleBroadcastProofs` |
| `OneQueryPerMiss` (`NoStampede`), `AnswersAreMonotone` (`MonotoneAnswers`) | `CachedMetricProofs` |
| `NeverListensTwice` (`OneConnection`), `NothingIsForgotten` (`NothingForgotten`) | `WhaleFeedProofs` |
| `TransfersOnce` (`EachTransferOnce`), `BooksBalanceEveryDay` (`FlowsCancel`), `FlagIgnoresTies` (`FlagWhateverTheTies`), `PressureIsRight` (`PressureFollowsFlow`), `TiersAgree` (`TierNotBelow`) | `WhaleTablesProofs` |
| `PublicationInOrder` (`PublishedInOrder`) for the three DAGs, `InputIsThere` (`RetryFindsInput`) for k8s and gke, `PublishedDayExact` for k8s | `BronzeRunProofs` |
| `LoadedWhatIsWritten` (`BigQueryKeepsUp`), `RebuiltBeforePublished` (`PublishedIsRebuilt`) | `LayerPipelineProofs` |

The arguments.

**Consumer.** `CommittedIsStored` is not inductive: a step that stores offsets relies on
what was true when they were requested. `RequestedIsSettled` says it of the requested
offsets, and `OffsetOrder` that stored offsets trail them. `CommitOffsets` requests the
position, so everything read must be out by then: `ConsumedIsSafe` says that it is in a
batch or out, and the four `Batch...` conjuncts carry the batch through `flush_batches`,
what is staged (`BatchStaged`), stored (`BatchStored`), handed to the producer and not
yet lost (`BatchSent`: delivered, in the buffer, or its failure on record) and finally
delivered (`BatchAnnounced`). A failure at any point leaves the batch in memory and the
requested offsets where they were; a crash loses the batch and the position with it.
The refinement maps the stored ids, the committed offsets and the topic to the sink's
variables; `Duties` lists what each record obliges to.

**Broadcast.** `Listing` adds to `NoGapWhileListed` that nobody is listed before the server
is up, that an unlisted client is owed nothing, and that no task sends to a client that
has not connected; only then does accepting a client start it without a debt. `Release`
says, for each stage of the clean-up, what is closed by then.

**Cache.** `LockHeld` ties the lock to the places of the code between taking and leaving
it, so that a key missing under the lock stays missing until its holder stores.
`MonotoneAnswers` needs `NewestInCache`, that a key's entry is not older than any answer
given, and `FloorWasAnswered`, that each floor was one. It is what would fail if a slow
query could overwrite a newer entry.

**Feed.** `OneListener` says which connection is the one, or that a timer is there instead.
`NothingForgotten` speaks of a merged history only, and merging relies on what happened
before the answer came. `NothingOwedIsLost` follows the whales owed to a connection that has
not ended: while the request is under way the database still has them all; once it is
answered each is in the answer, in the mail or in the list; once merged in the mail or the
list; or the list is full. `Covers` is what an update of the list must do, and is shown of
both: of `Prepend`, and of `MergeWith`, for which sorting must lose no entry
(`PlacesAreTaken`: the entries kept are put in places 1 to n one to one, because above is a
strict total order) and an answer of `Limit` whales must fill the list (`NewestAre`: they
are different). `OneListener` is needed once more: a message or an answer that finds the
page unmounted is dropped, and then no connection is owed anything.

**Tables.** The day is a state, but each property speaks of any set of rows the jobs may
have, so the arguments are about finite sets of any size. `FiniteSums` shows what they
need: induction over the subsets of a finite set (`SubsetInduction`, from the
well-foundedness of the natural numbers), that the sum of the library is what its equation
says for whatever order it takes the elements in (`SumRemove`), and from these that a sum by
groups is the sum (`SumByGroups`), which balances the books; that more rows sum to no less
(`SumMonotone`), which makes the last row's flag the highest and the tier of an address no
lower than that of a transfer. One label for each address gives one category for each side
of a transfer, so that a row is known by its transfer (`EachTransferOnce`). The label of the
pressure is arithmetic: rounding half up can turn a ratio above one into one exactly, which
is neutral, but never past it, and a ratio of two or of a half is too far from the limits.

**Bronze.** Where a run is in its plan decides what is true of it. For the three DAGs
together `Ordered` speaks of the plan by its steps and not by numbers: `Past(s)` says that
step `s` lies behind the run, every step done adds itself to the past (`AnyProceed`), and a
retry or a cleared task only takes from it (`AnyGiveUp`, `AnyClear`). So a table whose export
is past has a report (`Reported`), which is what its upload stores (`ExportedBefore`), and
the days published are those of the runs that ended, from the first: only the last step of
a plan ends a run, and the next run starts only after one that ended. `InputKept` is
about k8s and gke, where the try that takes the hashes exported the transactions itself;
in the local DAG it is false, and `bronze_resume` shows how.

That a published day is exact holds for k8s only. `RangeIsDay` (the range asked of Etherscan is the day's, because the k8s DAG
takes a day that is over), `OneFile` (a file's name carries its range, so repeating an
upload replaces it), `ReportsAreTrue` (a file's outcome is what the last export
reported) and `ChecksPassed` (behind the quality check every table is full) give
`PublishedDayIsExact`.

**Layers.** `Versions`: nothing downstream is newer than what it was made of, as long as
that is there. `Torn` says the same of what a job holds while its partition is away,
`Rebuilt` that a finished table is not older than its run, `Loads` that BigQuery has what a
finished gold job wrote. The appended rows come from a later reading of silver than the
files, so `BigQueryKeepsUp` needs `Versions`: silver never falls behind gold.

Only model-checked: the liveness properties (fairness is beyond the prover). Every
invariant and every action property of a passing run is a theorem.

`TableAssumption` asks that transactions and labels are finitely many, and that the tiers of
gold begin no higher than those of silver, as 100/500/1000 do against 100/1000/10000. Proving
changed three things. `WhaleTables` counts a day's transactions by a function where it had a
bag, and `WhaleFeed` sorts by place where it used `SelectSeq`, which the prover cannot
expand; the behaviours are the same. `FeedAssumption` now asks for one whale at least, as
`Init` always did.

## 6. What the checks say about the documentation

* `stream-data.md:11-12`: redelivery after a restart is at least once, and the composite
  keys make it idempotent. Transactions and dated transfers are delivered at least once
  (proved); a transfer that needs its block time is not (`consumer_token_loss`). The keys
  absorb a repeat only if the timestamp is a function of the record, which it is not when
  it is null or unreadable (`consumer_duplicate_rows`).
* `docs/bronze/airflow_optimization_report.md:28-29`: a failed receipts task no longer
  deletes `transactions.json` and can be repeated at once. `receipts.py:107-111` deletes it
  in `finally`; where receipts is a task of its own, the local DAG, every retry fails until
  the blocks task is cleared too (`bronze_resume`). In k8s and gke the whole extraction is
  one task, and the try finds its input (proved).
* Seen while modelling and stated by no run: `docs/gold/gold_transform.md:208` says that
  BigQuery tables are overwritten by day, `gold/utils.py` appends. The docstring of
  `publish_silver_asset` (`eth_silver_dag_k8s.py:130`) says that silver is complete and
  verified, but a job that caught its exception counts as done and the check is commented
  out: `PublishedIsRebuilt` and `EveryDayArrives` except those jobs. The feed looks for
  duplicates by `tx_hash`, which the payload of an alert calls `hash`.

* `docs/silver/silver_transform.md` and `whale_txns.py` disagree on the values of two columns of
  `whale_txns`. Flow types: the document (:48, and the examples at :81-84) has `CEX_Deposit`,
  `CEX_Withdrawal`, `CEX_to_CEX`, `DEX_Swap`, `Bridge`, `Private` and `Internal`; the code
  (:86-93) writes `CEX_DEPOSIT`, `CEX_WITHDRAWAL`, `DEX_TRADE`, `BRIDGE_MOVE`, `PRIVATE_MOVE`
  and `OTHER`, so that a move between two exchanges is `OTHER`. `FlowTypes`, and with it
  `TypeOK`, has the code's values. Tiers: the document (:46) cuts at 1000, 500 and 100 ETH,
  the code (:78-83) at 10000, 1000 and 100. `TableAssumption` and `TierNotBelow` hold with
  either list, `MCSilverTiers` is the code's.
* `silver_transform.md:10` calls the hash of `txn_enriched` a unique key. The join with the
  receipts gives a row for each receipt, so a receipt that bronze holds twice gives a hash
  twice; `EachTransferOnce` says once for each successful receipt.

## 7. Not modelled

* *REST queries*: beyond the history the feed asks for and the connections they hold
  (`WhaleFeed`, `CachedMetric`), they are stateless reads whose content is SQL.
* *Dashboard views*: rendering, and per-view requests. (`TokenExplorer` and
  `WalletExplorer` do not guard against an answer that comes after a newer request.)
* *Stream producer*, *reference data*: third-party processes and one-shot scripts; pure I/O.
* *Infrastructure and experiments*: deployment, load tests, notification glue.
* *Bronze*: `contracts.py` (no DAG calls it), the manual backfill from BigQuery, runs that
  overlap under `depends_on_past`.
* *Layers*: DAG variants sharing an asset, failures of the publishing task itself, the
  quality job that the cloud DAGs have commented out.
* *Aggregations*: entities (string extraction), ranks and position labels, `token_flow`'s
  amounts, the token popularity scores (the hourly one filters on a column that does not
  exist).
* In all modules: payload fields that no property is about, log lines, memory limits, and
  time as a quantity: a timer or an expiry may come at any moment.
