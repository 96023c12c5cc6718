# A TLA+ verification of RosalindDB

RosalindDB is a multi-tenant vector database: a control plane that takes writes
and CRUD reads, a data plane that answers nearest-neighbour queries from
immutable FAISS shards in an object store, and background workers that turn
what was written into shards. This directory models the part of it whose
correctness depends on the order in which those processes act.

## 1. Inventory

| Component | Code | State it keeps | Operations |
|---|---|---|---|
| Recall tier | `adapters/recall/` (Postgres, or the in-process memtable) | `recall_vectors` (one row per id: payload, LSN, tombstone flag), the LSN sequence | batch upsert, delete (tombstone), search above a watermark, get and list by id, snapshot, trim, partition count, idle partitions |
| Index builder | `services/index_builder/run.py` | the object store's shards and sidecars, `_LAST_BUILD` | ingest build (`run_once`), vector delete (`run_delete_once`), consolidation (`run_consolidate_once`), delta fold and major compaction, shard and landing sweeps, idle sweep, prewarm hint |
| Shard catalog | `adapters/state/catalog.py`, `generations.py` | `datasets` (status, row_count), `shard_catalog`, per-dataset advisory lock | add/list/delete shards with NOTIFY, status updates, stale-dataset failing, generations, grace watermark, superseded shards, dataset deletion |
| Queue | `adapters/queue/queue.py` | per topic: waiting list, processing list, received stamps, attempt counters, dead-letter list; the reaper lock | publish, consume, ack, nack, reclaim |
| Reaper | `adapters/queue/reaper.py` | none of its own | reclaim stuck messages, reconcile stuck datasets, under a lock |
| Query proxy, authentication, quota | `services/query_api/query_proxy.py`, `services/auth/`, `adapters/state/quota.py` | per process: key cache, pool cache, token buckets; in Postgres: API keys, tenants with daily and vector quota | authenticate, limit, charge, choose a pool, forward with retries, revoke a key, move a tenant |
| Query path | `services/query_api/v1_query.py`, `adapters/cache/` | catalog cache, in-memory index cache, downloads in flight | resolve shard(s), recall scan and FAISS search in parallel, filter, top_k, suppression and merge, ephemeral fallback, status poll |
| Catalog cache and listener | `adapters/cache/catalog_cache.py`, `services/_common/catalog_listener.py` | shard rows with a time to live, a generation per dataset, a LISTEN connection | get or fetch, invalidate, reconnect |
| SSD tier | `adapters/storage/shard_tier.py` | residency table, byte count, downloads in flight, files | fetch, prewarm, evict |
| Ephemeral runner, result store | `services/ephemeral_runner/`, `services/query_api/result_store.py` | result envelopes in Redis | answer a query from the newest shard out of line, store, expire |
| Data-plane process | `services/query_api/dp_app.py`, `services/_common/`, `adapters/state/migrations.py` | migration ledgers, its persisted id, `dp_shard_residency` | migrate at start, resolve the id, consume prewarm hints, publish residency |
| Control plane | `services/source_registry/main.py` | quota counters | create/delete dataset, post/get/list/delete vectors, imports |
| Validator | `services/validator_worker/` | landing parquet parts | validate an upload, publish DATASET_READY |
| Observability, config, schemas | `adapters/observability/`, `adapters/metrics/`, `adapters/config.py`, `schemas/` | none that decides anything | metrics, traces, logs, constants |

The components interact through four shared stores (Postgres catalog, recall
Postgres, object store, Redis lists) and never through direct calls: a client
write commits to recall and may publish CONSOLIDATE, or (recall tier off) is
stored and announced with VALIDATE_DATASET; a validator turns uploads into
landing parts and publishes DATASET_READY; a builder takes the per-dataset
lock, writes objects, then a catalog row, then deletes old objects, rows,
landing parts and recall entries; a query reads catalog, recall and objects
one after the other with no lock at all. The one direct call between services
is the control plane's forwarding of a query to a data plane.

### What is hard, and what makes each part correct

* **Recall and consolidation.** A fold is a snapshot, an upload, a commit, a
  sweep and a trim in two databases and an object store without a transaction.
  Writes go on during all of it and queries run across it. Correct means: no
  acknowledged write is ever missing from the union a read takes; the watermark
  never falls; a read is not robbed of its shard or its rows while it is
  in flight; an idle partition drains.
* **Delta tier.** A generation is a base with deltas whose LSN bands must abut;
  tombstones live on the delta that deleted the id. Correct means: each retained
  generation is complete, its frontier is what its bands cover, the fan-out is
  bounded, and a compaction neither drops nor resurrects an id.
* **Queue.** Single Redis commands, no transactions, deaths between any two, a
  timeout that cannot tell a dead worker from a slow one. Correct means: one
  copy of a message, none lost, a poison message ends in the dead-letter list,
  nothing stays stuck.
* **Ingest.** At-least-once delivery into handlers that read a status, work, and
  write a status. Correct means: a completed import is indexed, no landing part
  is swept before it is folded, quota is kept, jobs and datasets leave their
  intermediate states.
* **Reads.** Get, list and query read shard row, sidecar and recall one after the
  other, without a lock. Correct means: a read by id returns the last
  acknowledged version, a walk over pages lists every id once, a query shows
  nothing that was deleted or overwritten, except for what an unreadable sidecar is
  known to take.
* **Catalog cache.** Rows cached for a time, against a sweep and a trim that
  count generations. Correct means: staleness has the bound the TTL gives, an
  invalidation is not undone by a slow reader, and a read misses a write only
  under the condition the design accepts.
* **Gateway.** Per-process caches and buckets, a quota row shared by all, retries
  of what may already have been done. Correct means: a revocation takes effect
  within the TTL, a day's quota is granted once, a query is sent and charged once.
* **Cold loads and ephemeral jobs.** Correct means: no answer from a partial
  file, none without its sidecar but where the reading of that failed, one
  download for all who wait, and every job ends in a result or an error.
* **Start of a process.** Correct means: no migration runs twice, the tier's
  contents are published under a stable identity.
* **SSD tier.** Two locks, file-system calls outside both, one download per URI
  with waiters. Correct means: an in-flight entry always has a living
  initiator, waiters are woken, and the books agree with the directory.

`PROJECT.json` lists the hazards line by line with the properties that cover
them, and every component, including the ones that are not modelled.

## 2. Modules

| Module | Models | Checked by |
|---|---|---|
| `VectorStore` | abstract specification: a store in which a write is visible when acknowledged and an answer is the store at one moment | refined by `RecallConsolidate` |
| `RecallConsolidate` | recall tier, consolidation without delta tier, catalog, queries | `recall_reads`, `recall_drains`, theorems |
| `DeltaTier` | consolidation with the delta tier and major compaction, queries | `delta`, `delta_reinsert`, theorems |
| `ReliableQueue` | one topic on Redis, workers, reapers | `queue_drains`, theorems |
| `IngestPipeline` | imports, posted batches, deletes; validators, builders, reaper | `ingest_safety`, theorems |
| `ShardTier` | the local shard cache | `tier_safety`, theorems |
| `QueryGateway` | authentication, rate limit, daily quota, pool lookup and forwarding of a query | `gateway`, theorems |
| `CatalogCache` | the cached shard list and its listener, composed with folds, sweeps, trims and re-creation of the dataset | `catalog`, theorems |
| `QueryServing` | hot and cold shard loads without the tier; ephemeral jobs, runners, result consumers | `serving`, theorems |
| `VectorReads` | get, list and query over the memtable, with filter and top_k, against writes and folds | `reads`, theorems |
| `DataPlaneFleet` | starts and deaths of processes: migrations, identity, prewarm consumer, residency writer | `fleet`, theorems |
| `...Proofs` | the theorems about the ten modules marked so, with their inductive invariants: `ControlPlaneProofs` for `QueryGateway` and `DataPlaneFleet`, `QueryApiProofs` for `QueryServing` and `VectorReads`, one module each for the others | tlapm |
| `MC...` | constants and symmetry sets of the instances | |

Definitions keep the names of the code where there is one; the `map` of
`PROJECT.json` gives the lines of each. Operators introduced by a comment
"Mutant" are wrong versions of a definition: each shows that the property it
belongs to would notice that mistake. No specification uses them.

### RecallConsolidate

One (tenant, dataset). The payload of a write is identified with its LSN, so a
shard is a function from ids to versions, 0 for "not there", and `truth` (a
history variable) holds the version of the last acknowledged write.

| Code | Model |
|---|---|
| `recall_upsert_vectors`, `recall_delete_vector`, the row cap in `post_vectors` | actions of the same names; LSN block and UPSERT are one transaction, the cap check publishes if the partition is above the cap |
| `dataset_build_lock` | `Take`, `Skip`; released by every way out and by a crash |
| `_run_consolidate_locked` | `Snapshot`, `SnapshotEmpty`, `NothingToFold`, `BuildShard` (objects), `CommitShard` (catalog row), `Settle` (row count, status), `SweepObjects`, `SweepRows`, `Trim` |
| `_maybe_sweep_idle_recall` | `IdleSweep` |
| exceptions and kills | `ConsolidateFails`, `Crash`, and the failing alternatives of sweep and trim |
| `run_query` | `ResolveShard`, `RecallSearch`, `LoadShard`, `Respond` |

The queue is a counter here: a message may also be dead-lettered or stranded.
A query loads its shard after or before its scan, as the two run in parallel.

### DeltaTier

The same store with RB_DELTA_TIER on and a bare IVF base. `BuildDeltaFold`
uploads the rows above the frontier with the deleted ids as tombstones;
`major_compaction` runs inside the same consolidation when RB_MAX_DELTAS deltas
are live; sweep and trim go by generation. One builder stands for all, since
the lock is modelled in `RecallConsolidate`. `Merged` is the compaction's rule
(newest occurrence of an id wins), `Searched` the reader's: of the shards in whose
hits the id is left, the newest wins, and the tombstones of all resolved deltas are
pooled. Which shards these are is not the model's to say: filter, distances, probed
cells and unreadable sidecars decide, and the properties are stated for every set
of them (`found`), and for tombstones that some sidecar translated to an id or none
did (`mapped`). Versions are followed by int64 id; a record without sidecar entry
is answered under its hash and not looked for here (see `VectorReads`).

### ReliableQueue

Each action is one Redis command, or a run of commands whose intermediate
states no other process can tell apart. A message is on a list or in the hands
of a process between LREM and push. Stamps are `none`, `fresh` or `old`: only
whether the timeout has passed matters, and a stamp may age under a live worker
(`MaxAged` times). The reaper lock has an owner and may expire under it.

### IngestPipeline

The path with the recall tier off. The queue is reduced to how many copies of a
message wait and are held; a held one may come back although its holder lives,
and an ack removes *an* entry, as LREM does. What a nack or a reclaim may do
beyond that (attempts, dead-letter list, loss between two commands) is in
`ReliableQueue`. A validator handler is `Begin, Validate, SettleQuota, Land,
increment_row_count, MarkJob, MarkDataset, Announce, ack`, with the rejections
and exceptions of each place; a build is `TakeBuild, Scan, CommitBuild,
SettleBuild, sweep_indexed_landing, Finalize, CompleteJob, ack`. A commit may be
rolled back under its builder (`RolledBack`), which goes on all the same;
`undone` remembers the parts of such builds. `finalize_import` and `fail_import`
read the job in one step and write it in the next. `complete_import` publishes
before the request's transaction commits. A record of an upload is its id: the
version a shard holds of an id is the upload it came from. The two statements
that fail a job and its dataset are one step, since no code reads one to decide
about the other. A builder that finds the lock taken returns its message: as
that changes nothing here, it has no action (the attempt it costs is counted in
`ReliableQueue` as a nack).

### ShardTier

Each step is one critical section of `_RESIDENCY_LOCK` or `_INFLIGHT_LOCK`, or
a file-system call outside both: `Register`, `Download`, `Admit`,
`RejectPrewarm`, `UnlinkRejected`, `PopInflight`, `SetEvent` for an initiator,
`Wake` and `WaitTimesOut` for a waiter. `Allowed` selects the disturbances:
failing downloads and unlinks, expired waits, files removed by an operator, a
restart (which forgets the table and keeps the files), calls of `evict`.

### QueryGateway

A request in a slot goes through `auth` (the cached key, or a lookup whose row is
installed in a later step), `rate_limit`, the charge of the daily quota in a
transaction whose CURRENT_DATE was fixed when it began, the pool lookup, and up
to `Retries + 1` connects. A data plane may refuse the connection, answer, hang
past the read timeout or die after the request was sent. Keys are created and
revoked by requests of their own, of a process whose caches are followed or of
another; the bust of the cache and the commit are two steps, in the code's order.

### CatalogCache

A query's path is cache lookup, fetch outside the lock, install under the
generation check, recall scan and shard load. The builder of this module is
`RecallConsolidate`'s with the steps up to the upload joined, since no reader
sees them. A notification is queued at the commit and may be lost with its
connection; a listener that reconnects hears only what is announced from then on,
and rows cached before stay until their time is up. `list.stale` and
`list.change` are history: when the list stopped being true, and after how many
catalog changes it was read.

### QueryServing

Threads of one query API process share `_INFLIGHT_DOWNLOADS`; runner processes
share a cache directory and nothing else, so their downloads race on the file
system. A file is `absent`, `torn` or `whole`. An envelope travels from
`publish` over a consumer's hands to the result store; a redelivery of the job
publishes another one. Next to the index file a search needs the sidecar, which
`read_shard_sidecar` reads without ever raising: `ReadSidecar` may fail, and the
search or the cached entry goes on without (`named = FALSE`). `unread` remembers
which jobs, and whether this process, had such a read.

### VectorReads

The payload of a write is its LSN, as in `RecallConsolidate`. A shard is an index
(`vecs`) and a sidecar (`names`), as in the code: the index knows int64 hashes only,
and the sidecar has for each vector an entry under the client's id (`own`), one under
the stringified hash with empty metadata (`hash`), or none. A sidecar that cannot be
read is an empty one, for a get, a page, a query and a fold; what a fold read, or
did not, goes into the next shard (`FoldedSidecar`): without a rebuild of the index
the older entries are gone, with one they are under hashes. `forgotten` remembers the
ids such a fold found in the shard alone, until they are written again. A filter matches
even payloads, and the query vector is near to low or to high ones, so a new
version of an id may move in or out of any answer. A page is a read of its own:
`list_vectors_next` starts from the cursor of the page before. Limits of 0 and
above the maximum are among the inputs, as are the values of top_k just outside
the valid ones. `InOrder` is the sort of a page and of an answer: the one
sequence of a set's elements in the order of their keys. No two records have one
id, and no two the same payload and so the same distance; what the code does with
equal distances is not modelled.

### DataPlaneFleet

`LockAndReadLedger`, `ApplyNext` and `CommitMigrations` are the transaction of
`_apply_migrations`; what it executed counts when it commits. The reconcile
cycle is `ReconcileSnapshot`, the resolution of the id if there is none yet, one
`WriteOne` per row and `CycleDone`; `CycleFails` may end it anywhere. Two data
planes share a CACHE_DIR, the case for which `dp_id.py` persists the id with
O_EXCL.

## 3. Runs

| Run | Instance | Shows |
|---|---|---|
| `recall_reads` | 2 ids, 1 builder, 1 query, 3 LSNs | `TimelyAnswers`, `SweptOnlyWhenTwiceSuperseded`, refinement of `VectorStore`, and that `FoldInv` is an invariant |
| `recall_drains` | 2 ids, 2 builders, 3 LSNs, 1 fault | `NoWriteLost`, `WatermarkNeverRegresses`, and under fairness `DrainsWhenIdle` |
| `delta` | 2 ids, 2 deltas per base, 4 LSNs, 1 query, 1 fault | completeness and readability of both retained generations, frontier, stale copies only where a newer mention was missed, answers of queries in flight |
| `queue_drains` | 1 message, 2 workers, 2 reapers, 2 deaths, 1 aged stamp, 2 attempts | one copy, no silent loss, bounded poison, and under fairness the queue drains |
| `tier_safety` | 3 shards of two sizes, budget 2, 2 threads, all disturbances | waiters are woken, one download, byte and file accounting |
| `ingest_safety` | an NDJSON import and a posted batch sharing an id that may be deleted, 1 validator, 2 builders, quota 3, 1 fault | the ingest properties, with `ImportsEnd` and `StatusSettles` under fairness |
| `gateway` | 1 worker process and revocations by another, 2 requests at a time, TTLs and bucket of 1, quota 1, 1 retry, 3 ticks, 2 days | `CachesExpire`, `DailyQuotaHolds`, `ForwardedAtMostOnce` |
| `catalog` | 1 query thread, TTL 2 within 3 ticks, 2 LSNs, 3 shards, 2 lives of the dataset, 1 fault | `StaleRowsExpire`, `InvalidationSticks`, `GapNeedsTwoFolds` |
| `serving` | 2 threads, 1 job, 2 runners, 2 consumers, 2 attempts, 2 faults | `AnswersAreWhole`, `DownloadsAreShared`, and under fairness `JobSettles` |
| `reads` | 2 ids, 1 reader, pages of 1, top_k 1, batches of 1 and 2, 3 LSNs, 1 fault: a failed read of a sidecar by get, page or fold, a failed search, a failed fold | `GetReadsTruth`, `WalkIsExact`, `MatchesAreLive` |
| `fleet` | 2 data planes on one volume and the migration job, 2 migrations, 1 shard, 3 starts, 2 faults, a fresh database and a legacy one with the first migration | `SchemaOnce`, and under fairness `WarmIsListed` |

Bounds. Three LSNs are enough for upsert, overwrite and fold, and for a batch
that splits over a fold. The safety properties are besides proved for all values
of the constants (section 5), so for them the bounds decide nothing. Four LSNs
with two deltas per base give base, delta, delta that triggers the compaction,
and a write after it, with a delete and a second upsert among them
(`delta_reinsert` has five). In the queue, messages do not interact except on
the waiting list, so one message with two workers and two reapers meets every
race about a message; two deaths are needed for a worker and the holder of the
reaper lock. In the tier the large shard makes an admission evict both others.
In the ingest run the quota lets both uploads pass once and refuses the second
charge of a redelivered import. In the gateway TTL, burst and quota of 1 make
every limit bite within three ticks; two slots are two requests that race for
the last unit or for the cache. In `catalog` three shards are what it takes for
a list to be two folds old, and two LSNs for a record in each. `reads` needs two
ids for an order and a page boundary, and a third LSN to overwrite or delete
after a fold; its one fault is enough for a fold that forgets an id and for the
write that heals it (8.5 million states, the longest of the runs). Pages and top_k of 1
are what cuts two records; larger ones pass too, in a run that is too long to keep,
and are covered by the proofs. In `fleet`
three starts are both data planes and the job, or a data plane that starts again
next to the other one. The legacy database has the first of two migrations, as
the one of `migrations.py:229-231` has five of nine.

The types of the variables are stated as `TypeOK` where a module is long; they
are part of the inductive invariants and so proved.

`ingest_safety` has two builders and one validator. The same configuration with
`Validators = {v1, v2}` and `Builders = {b1}` (a validator overtaken by the
redelivery of its own message) passes as well, in 1.1 million states; both pairs
at once are too many for a run of minutes. `MaxFaults = 1` matters for liveness:
with two validators and two faults an import can stay in `indexing` for ever.
The message of a slow validator is reclaimed, a second validator takes it, the
first one's late ack removes the second one's entry, and the second dies after
`MarkJob`. The reaper moves the dataset on, but nothing moves the import job.
The safety properties also hold with two faults on two imports.

Deadlock is not checked where all clients may be done; `recall_reads` and
`tier_safety` check it.

### The run that shows a disagreement

This checks one statement of a comment, and TLC finds a behaviour of the code
that breaks it. The quote is under `findings`.

* `delta_reinsert`: an id deleted in one delta and upserted again in a later one
  is hidden by the pooled tombstones until the next major compaction
  (`v1_query.py`, `_resolve_shard`).

### Seen while modelling, without a run

Consolidation and queries:

* A fold that triggers a compaction trims its own recall rows, which a query that
  resolved the generation before it still needs (`run.py`, step 5 of
  `_run_consolidate_locked`). `TimelyAnswers` of `DeltaTier` therefore promises
  nothing for a prior generation that grew after it was resolved.
* With the catalog cache on and notifications off (`RB_CATALOG_LISTEN` is off by
  default) two folds within `RB_CATALOG_FRESHNESS_S` leave a query with a list
  whose rows the second fold has trimmed: acknowledged writes are missing until
  the TTL ends. `GapNeedsTwoFolds` shows that nothing less does it; invariant I3
  of `docs/architecture/recall-consolidate.md` does not mention it.
* A failing `pg_notify` in `add_shard` is caught without a savepoint
  (`catalog.py:701-719`); the transaction is then aborted and its commit rolls
  the row back, while the builder goes on. `CatalogCache` and `IngestPipeline`
  include it. There the import is completed and not queryable until a later build
  folds its part, whereas `docs/api/imports.md:31` says that the shard of a
  completed import is built and queryable. `CompletedIsIndexed` has this as its
  one exception and says that the part is still where the next build looks.
* `delete_dataset` leaves the dataset's rows in the recall tier; after a
  re-creation under the same name they answer again. `docs/api/v1.md:348-349`
  says that a same-name re-create starts clean.
* A shard's hits are cut to top_k before the ids recall overwrote or deleted are
  taken out (`v1_query.py:1266`), so a filtered query can return fewer matches
  than exist, which the docstring of `_search_consolidated_shard` excludes. With
  two ids, a fold and an overwrite that no longer matches, top_k = 1 finds
  nothing. `MatchesAreLive` demands completeness only where recall hides no hit.
* With the delta tier the same cuts come before the dedup of copies (`:1084-1097`,
  `:1266-1277`): an older copy is answered when it matches the filter, or is among
  the shard's top_k, and the newer one in a delta is not. The docstring calls the
  cut per shard lossless (`:1029-1030`), and the comment above the dedup says that
  it keeps the newest. A tombstone that no sidecar of the resolved shards
  translates, a failed read counting as an empty one, suppresses nothing
  (`:1578-1613`), and the deleted copy is answered. `NeverStale` and `TimelyAnswers`
  have exactly these two as their exception (`Missed`).
* `read_shard_sidecar` turns every error, and the sidecar of a swept shard, into
  `{}` (`parquet_reader.py:67-77`).
  - A fold that meets this (`run.py:1945`) commits a shard whose older vectors have
    lost their ids and metadata for good: an extended sidecar drops them, a rebuilt
    one has them under the decimal of the hash (`:1965-1967`, `:1993-2021`). A get
    then answers 404, or 200 with another id, for acknowledged vectors nobody
    deleted, and listings leave them out or rename them. The comment there speaks
    of a stable id and of nothing dropped. `GetReadsTruth`, `WalkIsExact` and
    `MatchesAreLive` say that this is all, and the next write of an id heals it.
  - A query that meets it, or the one that put the shard into the cache, where the
    empty sidecar stays until its eviction (`v1_query.py:1162-1163`), names hits by
    their hashes, which suppression by id does not reach, so an overwritten or
    deleted vector may be answered under its hash. Under a filter it answers 200
    with no match of the shard; so does an ephemeral job, with `ok: true`
    (`ephemeral_runner/run.py:280`, `:318-334`), against the docstring at
    `v1_query.py:2120-2124`. `AnswersAreWhole` has this as its exception.
  - `run_once` and the compaction read sidecars in the same way (`run.py:1141`,
    `:1369-1388`, `:2293`). `IngestPipeline`, `RecallConsolidate` and `DeltaTier`
    follow vectors by their int64 ids, which these reads do not touch: `NoWriteLost`,
    `RefinesVectorStore` and `ShardMatchesManifest` are about vectors, not about the
    ids and metadata they are answered with.

Gateway, jobs and processes:

* `revoke_key` clears the cache before the middleware commits, so a lookup in
  between installs the key again, for one TTL (`docs/api/auth.md:59-61` promises
  less); and `conn_middleware` sends the response before its commit.
* A job's success may be overwritten by the error envelope of a redelivery, or by
  the consumers' order. RESULT_READY is not among the reclaimed topics, although
  `v1_query.py:2156-2158` says that its message stays reclaimable.
* A legacy database without ledger is taken to be current: all versions, 001-009,
  are marked applied, though the docstring says such databases have 001-005
  (`migrations.py:226-236`, `:272-281`); 006-009 are never run there, and a data
  plane serves without their tables and columns. A comment (`:288-290`) says that
  no version is ever marked applied that did not run. `SchemaOnce` has this as its
  one exception (`Unexecuted`) and says that nothing else is ever missing.
* A process that finds `.dp_id` created and not yet written keeps its own uuid; a
  death in that window leaves an empty file, and from then on every start has a
  new id (`dp_id.py:108-150`).
* A residency row whose deletion failed is forgotten if the cycle's snapshot is
  lost with the process, and a process that starts again never deletes the rows
  of its former life (`residency_writer.py:198-224`, `:235`).
* The builder's sweep calls `evict_shard` (`run.py:790`), which drops the entry of
  its own process; data planes in other processes keep theirs until they evict it.

Queue, ingest and tier:

* A shard larger than the tier's budget is unlinked by its own admission before
  `fetch` returns its path, whose docstring guarantees the file.
* An NDJSON import that is validated twice lands a second part, which the next
  build folds over newer uploads (`docs/deploy/self-host.md` calls re-validation
  harmless).
* A delete's request may write `indexing` after all work is done, and the dataset
  stays there until the reaper fails it; a build with nothing new does not set it
  back either.
* `nack` and `reclaim_stale_processing` take the message off a list and push it
  with a second command (`queue.py:311`, `:457`); a death in between loses it.
  `NoSilentLoss` shows that these are the only windows.
* `RECLAIMED_TOPICS` (`reaper.py:57`) lacks CONSOLIDATE, DELETE_VECTORS and
  PREWARM_SHARD, so the message of a worker that dies with one of those stays on
  the processing list. The idle sweep makes up for CONSOLIDATE; a delete is
  gone. (`TopicReclaimed = FALSE` in `ReliableQueue` shows it; `Reclaim` of
  `IngestPipeline` leaves DELETE_VECTORS out.)
* A reaper that finds a nacked message without stamp stamps it (`queue.py:452`);
  the stamp ages while the message waits, and the next delivery is reclaimed
  with its worker still at it. A late ack clears the attempts of the second
  delivery.
* A lock-skip is a nack and costs an attempt, so a message that meets a long
  build often enough is dead-lettered without ever having run.
* With the delta tier on, `get_vector_endpoint` and `list_vectors_endpoint` look
  at the newest delta alone (`main.py:733`), `row_count` becomes the size of the
  delta after a fold (`run.py:1014`), and a partition that goes idle before the
  first compaction never drains, because one generation gives no grace watermark
  (`generations.py:123`).
* `_sweep_superseded_shards` deletes objects first and rows afterwards, and an
  object whose delete failed is never tried again, as its row is gone.
* A waiter of `fetch` whose wait times out fails although the download may
  still succeed, and the path a fetch returns may be evicted before it is
  opened (`shard_tier.py:510`, `:552`).
* `completed` and `failed` import jobs are left again when VALIDATE_DATASET is
  redelivered, which also charges quota and row count a second time;
  `docs/api/imports.md` calls both terminal.
* Two uploads of an id that meet in one build are resolved by the order of part
  names, which are uuids, whereas `docs/api/ingest.md:38` says the last write
  wins.
* A build may fold a part before its validator has counted it; the count is then
  too high until the next build.

## 4. Fairness

Assumed, weakly, of what the code does in a loop: a worker's loop polls its
topic and a handler that was started returns (`main_loop`, `_dispatch`); the
builder's idle tick sweeps (`_maybe_sweep_idle_recall`); the reaper ticks
(`run_reaper_loop`), stamps grow old and its lock expires, as clocks do; a
request handler that has published runs to its end (`FlipStatus`); runners and
result consumers go on with the message they hold (`main_loop`,
`_result_consumer_loop`); the residency writer wakes every
RB_DP_RESIDENCY_SYNC_S (`_run`). Nothing is
assumed of clients, and no fault is owed. A process that dies is replaced by
one that starts idle.

## 5. Proofs

Each `...Proofs` module proves that an inductive invariant holds in every
reachable state and derives the properties of the runs from it, for every value
of the constants that satisfies the module's assumptions. A step of the proof is
an action; the lemmas before it say what the action's operators do.

| Module | Theorem | Property | Inductive invariant |
|---|---|---|---|
| `RecallConsolidate` | `WritesSurvive` | `NoWriteLost` | `TypeOK /\ FoldInv` (`Invariance`, `TypeCorrect`) |
| | `ReadsAreTimely` | `TimelyAnswers` | |
| | `SweepIsGraceful` | `SweptOnlyWhenTwiceSuperseded` | |
| | `WatermarkIsMonotone` | `WatermarkNeverRegresses` | |
| | `Refinement` | `RefinesVectorStore` | |
| `DeltaTier` | `CompactionKeepsTheData` | `GenerationsHoldTruth` | `DeltaInv` (`DeltaInvariant`) |
| | `PoolingOnlyHides` | `NeverStale` | |
| | `OvertakenQueriesAnswer` | `TimelyAnswers` | |
| | `RetainedObjectsStay` | `RetainedReadable` | |
| | `FrontierIsMonotone` | `FrontierNeverRegresses` | |
| `ReliableQueue` | `NeverTwoCopies` | `OneCopy` | `QueueInv` (`QueueInvariant`) |
| | `AtLeastOnce` | `NoSilentLoss` | |
| | `PoisonStops` | `PoisonIsBounded` | |
| `IngestPipeline` | `PartsAreNeverLost` | `NoUploadLost` | `IngestInv` (`IngestInvariant`, `PipelineTypes`) |
| | `CompletedIsQueryable` | `CompletedIsIndexed` | |
| | `ShardIsItsManifest` | `ShardMatchesManifest` | |
| | `QuotaCoversLanding` | `LandedIsCharged` | |
| `ShardTier` | `NobodyWaitsForNobody` | `WaitersAreOwed` | `TierInv` (`TierInvariant`) |
| | `DownloadsAreNeeded` | `NoRedundantDownload` | |
| | `BudgetIsKept` | `BudgetHolds` | |
| | `FilesStayAccounted` | `FilesAccounted` | |
| `CatalogCache` | `StaleRowsExpireAlways` | `StaleRowsExpire` | `CatalogInv` (`CatalogInvariant`) |
| | `AnnouncedIsGone` | `InvalidationSticks` | |
| | `OneFoldIsHarmless` | `GapNeedsTwoFolds` | |
| `QueryGateway` | `RevocationReachesEveryCache` | `CachesExpire` | `GatewayInv` |
| | `QuotaAcrossMidnight` | `DailyQuotaHolds` | |
| | `SentOnceChargedOnce` | `ForwardedAtMostOnce` | |
| `DataPlaneFleet` | `MigrationsRunOnce` | (half of `SchemaOnce`) | `FleetInv` |
| | `LedgerIsTheSchema` | `SchemaOnce` | `LedgerInv` |
| `QueryServing` | `WholeAnswers` | `AnswersAreWhole` | `ServingInv` (`ServingInvariant`) |
| | `SharedDownloads` | `DownloadsAreShared` | |
| `VectorReads` | `ReadsByIdAreTrue` | `GetReadsTruth` | `ReadsInv` (`ReadsInvariant`) |
| | `WalksAreExact` | `WalkIsExact` | |
| | `MatchesLive` | `MatchesAreLive` | |
| | `MergeIsLive` | (the merge of one query) | |

### Assumptions

They are named in the module that declares the constants, and TLC evaluates them
on the instances. The bounds (`MaxLsn`, `MaxShards`, `MaxFaults`, `MaxTime` and
the like) are arbitrary numbers; times to live, burst, attempts and the delta
cap are not 0. Sets that are counted or of which a largest member is taken are
finite: ids, uploads, shards of the tier, workers and reapers of the queue,
versions, the ids of `VectorReads`, which are numbers because a listing sorts
them. The value that stands for "nobody" or "nothing" (`NoBuilder`, `NoThread`,
`None`, `NoProc`) is none of the things it stands in for; `NoneAssumption` of
`IngestPipeline` says so of messages and shards too. A process is a worker or a
reaper, a validator or a builder, not both. No theorem has a hypothesis beyond
these.

### The arguments

**RecallConsolidate.** `NoWriteLost` is not inductive: it says nothing about a fold
in progress, whose snapshot will become the newest shard after more writes.
`FoldInv` adds what each stage knows. `Covers(g)` says that shard `g` holds the
last write of every id that no recall row above g's watermark carries;
`RetainedInv` says so of both retained shards. `SnappedInv` says that a
snapshotted row is still in recall or has been replaced by one above the
snapshot's LSN, so that the shard built from it covers (`BuildStep`);
`WrittenInv` carries that to the commit (`CommitStep`). `Reached` (some
resident row has reached the newest watermark) is what keeps the watermark from
falling, since the code takes it from the rows that happen to be resident. The
trim keeps `Covers` because it removes only rows at or below the older
watermark (`TrimStep`), the sweep because it spares both (`SweepStep`).
`QueryInv` ties a scan to the shard it was made for. The refinement maps the
store to the union at the newest shard, which by `FoldInv` is `truth`, so every
builder step is a stutter and a timely scan is a read of the abstract store.

**DeltaTier.** A retained generation is a chain: no two bands begin alike, and each
begins where those below it end (`Chain`). What recall does not hold above the
chain's frontier, the merge of its shards holds (`Holds`). A shard that waits for
its catalog row is one of three things made of the newest generation (`MadeOf`: a
first base, a compaction, a delta), and from that the commit gives a chain that
holds again (`CommitCases`); a generation grows at its upper end only. A query that
resolved the newest generation therefore holds a lower part of it (`ReadInv`).
That such a part still answers, although the generation has grown, rests on the
last conjunct of `GenInv`: an id a delta of the newest generation mentions has a
recall row at or above the delta's band, for the trim goes by the prior
generation. So recall hides what the query's part lacks. What a search shows is
compared with the merge (`SearchIs`): the highest mention decides the merge, so a
search that saw it agrees or is suppressed, and one that did not missed it.

**ReliableQueue.** `OneCopy` and `NoSilentLoss` count copies over three lists and
everybody's hands. The induction is on places instead: a message is in
exactly one of five (`PlaceInv`), and nowhere only if it is unpublished, acked or
lost (`KeptInv`). For `PoisonIsBounded`, `AttemptInv` adds to the starts of a
message the workers that have taken it and not yet counted the attempt, and says
that a waiting message has one to spare.

**IngestPipeline.** Messages may be repeated, reordered and answered by two
workers, so what a handler knows must not depend on there being one of it.
Everything is tied to what only grows: the parts ever landed, the manifest of
the newest shard together with the parts of rolled-back builds (`undone`), the
delete requests. `MessagesSound` says what the existence of a message implies
about those, `ValidatorOK` and `BuilderOK` what a handler's place implies. For
the quota, `PaidInv` compares the counter with the records of all uploads that
are landed, stored as a posted batch or about to be landed.

**ShardTier.** `SingleFlight`: `_INFLIGHT` names a thread for a shard exactly while
that thread is at work on it. With it a waiter's initiator is alive, and a
shard in flight is not resident. `BudgetInv` says that the byte count is the sum
over a table without duplicates; the eviction loop is followed from admission to
the point where the rest fits.

**CatalogCache.** An entry is stamped with the clock, and installed under the
generation, that its thread read before it asked Postgres (`TimeInv`, `GenInv`).
For `GapNeedsTwoFolds`: a record of the present life is in recall or in the shard
before the newest (`OneFoldBehind`), newer shards hold what older ones do
(`Chained`), and a list that is one change old names one of the two newest shards
(`ListHolds`).

**QueryGateway.** A worker about to install a credential read the row while the key
was live, and the clock before that (`AuthInv`); the quota row counts the grants of
its day and no later day has any (`QuotaInv`); charge and sends follow from
where a request is (`RequestInv`).

**DataPlaneFleet.** A transaction that applies migrations holds the advisory lock of
its database, and what it found applied is still what it would find
(`HolderIsCurrent`), because only the holder commits. A database is as it
was found until it has a ledger, and lacks from then on only what the bootstrap left
unexecuted (`FoundOrSettled`), which every data plane that serves has behind it
(`ServesSettled`).

**QueryServing.** A thread is in `_INFLIGHT_DOWNLOADS` exactly while it fetches or
has its entry to remove (`Downloading`), and a thread that waits names one that
fetches, has its entry to remove or its event to set (`Waiting`); two fetching
threads would both be the one in the table. Files are complete wherever they are
visible (`FileType`), as downloads go to a temporary name: from there completeness
is followed into the index a thread holds, the cached one, a runner's search, and
the envelopes on the list, in consumers' hands and in the result store
(`EnvelopeType`). An answer without the sidecar is followed likewise, to the job or
the process in `unread`. A runner's death keeps all of it, since what it leaves behind is
a temporary file.

**VectorReads.** The store part, `BaseInv`, is what `FoldInv` is in
`RecallConsolidate`: an id the memtable does not hold above a shard's watermark
has in that shard the version of its last write (`Reaches`), true of the newest
shard and of the one before it, and of the one a fold is going to add. Its
sidecar has such an id under its name unless the id is forgotten (`Remembers`),
for what a fold that cannot read the older sidecar is about to lose becomes
`forgotten` in that step. A read that was overtaken by at most one fold
therefore sees the truth in shard and memtable together (`GotGood`). For a walk,
`Walked` says that what it has got is the first `offset` ids of the listing as
it is now: a fold or a trim does not change the listing, a write ends `Steady`.
For a query, `Scanned` and `QueryGood` say that its two halves are the nearest
of the ids recall knows and of the shard's records. The merge then rests on
facts about sorted sequences: `InOrder` is the one with the ranks in order
(`Rank`), and a subset of the records that has the k first of all records begins
with them, so cutting each half to k before the merge loses nothing
(`MergeIsLive`). Hits are ordered by their versions, whatever they are named
(`NamedByDistance`); one under a hash is no client's id and matches no filter.
Ranks are counted, so these facts need no induction.

### What the proofs changed

The attempt to prove `TimelyAnswers` of `DeltaTier` showed that its formula said
less than its comment: a bullet one column off had drawn its second half under the
hypothesis of the first. It now states both, and is checked and proved so.

`VectorReads` sorted with an operator of the library that is defined by recursion,
of which nothing can be proved here; it now says what the sorted sequence is
(`InOrder`). `DownloadsAreShared` compared a cardinality with 1 and now speaks of
two threads, which is the same of finite sets and needs no finiteness.

Facts about sums, maxima and least members hold for sets of any size. They are
proved from the smallest counterexample (every non-empty set of numbers has a
least member) and not by induction, which the provers at hand cannot instantiate.

### Only model-checked

* Liveness: `DrainsWhenIdle`, `QueueDrains`, `ImportsEnd`, `StatusSettles`,
  `JobSettles`, `WarmIsListed`. The proof system does not treat fairness here.

Every safety invariant, every action property and the refinement of the passing
runs is proved.

## 6. Not modelled

* FAISS indexes and distances, record validation beyond its verdict, encodings and
  URI formats: data without control.
* Metrics, traces, logs, configuration and schemas: they decide nothing.
* Rendezvous hashing and the warm-first order of data planes: a pure choice, made
  freely in `QueryGateway`.
* The queue's and the state backend's in-process variants for tests. (The
  memtable is modelled, as it is also a backend of small deployments.)
* Signup, tenants' records, listings of datasets and import jobs: single
  statements that no other step depends on.
* The health checks of pooled connections, the sweep of orphaned temporary files.
* A build lock lost with its session while the builder goes on: with no fencing
  token there is no promise to check.

## 7. Plan

Done: the core (`RecallConsolidate` with its abstract specification and
theorems), `DeltaTier`, `ReliableQueue`, `ShardTier`, `IngestPipeline`; then
`QueryGateway`, `CatalogCache`, `QueryServing`, `VectorReads`, `DataPlaneFleet`.

Open in the model: `RecallImport`, ingest builds next to recall rows. A
consolidation folds rows again that an earlier one kept for the grace window,
over an import that replaced the same ids in between.

Theorems: no safety property of a run is left. An ingest build next to recall
rows, once modelled, needs an invariant that joins `IngestInv` and `FoldInv`.
