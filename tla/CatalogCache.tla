---------------------------- MODULE CatalogCache ----------------------------
(***************************************************************************)
(* How a data-plane process comes to the shard it searches: the per-       *)
(* process cache of list_shards with its time to live and its generation   *)
(* guard, and the LISTEN connection that invalidates it; composed with     *)
(* the builder that supersedes, sweeps and trims behind its back, and with *)
(* a dataset that is deleted and created again under its name.             *)
(*                                                                         *)
(* One dataset and one data-plane process.  Every write is a record of its *)
(* own, known by its LSN, so a shard is the set of LSNs it holds.  A fold  *)
(* is one step up to its upload (RecallConsolidate has the steps between). *)
(*   adapters/cache/catalog_cache.py, services/_common/catalog_listener.py *)
(*   adapters/state/catalog.py, services/query_api/v1_query.py             *)
(***************************************************************************)
EXTENDS Naturals, Sequences, FiniteSets, FiniteSetsExt

CONSTANTS
  Readers,     \* query threads of the process
  Ttl,         \* RB_CATALOG_FRESHNESS_S
  MaxLsn, MaxShards, MaxLives, MaxTime, MaxFaults   \* bounds of the model

ASSUME CatalogAssumption ==
  /\ Ttl \in Nat \ {0}
  /\ MaxLsn \in Nat /\ MaxShards \in Nat /\ MaxLives \in Nat
  /\ MaxTime \in Nat /\ MaxFaults \in Nat

VARIABLES
  now,         \* time.monotonic
  live, life,  \* dataset_catalog row: not deleted; how often it was created
  lsn, recall, \* last LSN, LSNs of the recall rows
  lifeOf,      \* the life each LSN was written in            (history)
  shards,      \* every shard uploaded: its watermark and its records
  objects,     \* the shards whose objects are stored
  catalog,     \* the shards with a shard_catalog row
  changes,     \* changes of the catalog so far               (history)
  fold,        \* the builder's consolidation
  listening,   \* the LISTEN connection stands
  wire,        \* notifications on their way: the change each announces
  entry,       \* _cache[(tenant, dataset)]
  gen,         \* _gen[(tenant, dataset)]
  query,       \* [Readers -> query]
  faults

storeVars   == <<live, life, lsn, recall, lifeOf>>
catalogVars == <<shards, objects, catalog, changes>>
wireVars    == <<listening, wire>>
cacheVars   == <<entry, gen>>
vars == <<now, storeVars, catalogVars, fold, wireVars, cacheVars, query, faults>>

Never == MaxTime + 1    \* a moment that has not come

\* A list of shard rows as some thread read it: how many changes the catalog had
\* seen by then, when the next one made it stale, and whether a later one has
\* been announced to the process since.
NoList == [rows |-> {}, change |-> 0, stale |-> Never, called |-> FALSE]

NoEntry == [at |-> Never, list |-> NoList]

Idle == [pc |-> "idle", at |-> 0, gen |-> 0, list |-> NoList,
         scanned |-> FALSE, found |-> {}, load |-> "none",
         want |-> {}, life |-> 0]

Init ==
  /\ now = 0
  /\ live = TRUE /\ life = 1
  /\ lsn = 0 /\ recall = {} /\ lifeOf = <<>>
  /\ shards = <<>> /\ objects = {} /\ catalog = {}
  /\ changes = 0
  /\ fold = [pc |-> "idle", shard |-> 0]
  /\ listening = FALSE /\ wire = <<>>
  /\ entry = NoEntry /\ gen = 0
  /\ query = [r \in Readers |-> Idle]
  /\ faults = 0

Fault == faults < MaxFaults /\ faults' = faults + 1

\* list_shards orders by created_at and id, newest first.
Newest == Max(catalog \cup {0})
Prior  == Max((catalog \ {Newest}) \cup {0})

Watermark(g) == IF g = 0 THEN 0 ELSE shards[g].lsn
Records(g)   == IF g = 0 THEN {} ELSE shards[g].rows

-----------------------------------------------------------------------------
(* Writes and the life of the dataset *)

get_dataset == live

\* POST /v1/datasets/{name}/vectors.
recall_upsert_vectors ==
  /\ get_dataset
  /\ lsn < MaxLsn
  /\ lsn' = lsn + 1
  /\ recall' = recall \cup {lsn + 1}
  /\ lifeOf' = Append(lifeOf, life)
  /\ UNCHANGED <<now, live, life, catalogVars, fold, wireVars, cacheVars, query, faults>>

\* A change of the catalog at this moment: lists already read are stale from now
\* on, unless they were before.
Aged(list) == [list EXCEPT !.stale = Min({@, now})]

\* The catalog changes to rows; a transaction that called pg_notify delivers at
\* its commit, to the connections that listen at that moment.
Change(rows) ==
  /\ catalog' = rows
  /\ changes' = changes + 1
  /\ entry' = IF entry = NoEntry THEN entry ELSE [entry EXCEPT !.list = Aged(@)]
  /\ query' = [r \in Readers |-> IF query[r].pc \in {"install", "search"}
                                 THEN [query[r] EXCEPT !.list = Aged(@)] ELSE query[r]]

pg_notify == wire' = IF listening THEN Append(wire, changes + 1) ELSE wire

\* One transaction: the shard rows go, the dataset row is marked deleted.  Recall
\* rows stay.
delete_dataset ==
  /\ live' = FALSE
  /\ Change({})
  /\ pg_notify

\* DELETE /v1/datasets/{name}: 404 without a live row.
delete_dataset_endpoint ==
  /\ get_dataset
  /\ life < MaxLives
  /\ delete_dataset
  /\ UNCHANGED <<now, life, lsn, recall, lifeOf, shards, objects, fold, listening,
                 gen, faults>>

\* The row of a deleted dataset is taken back into use.
create_dataset == live' = TRUE /\ life' = life + 1

\* POST /v1/datasets: refused while the name is in use.
create_dataset_endpoint ==
  /\ ~get_dataset
  /\ create_dataset
  /\ UNCHANGED <<now, lsn, recall, lifeOf, catalogVars, fold, wireVars, cacheVars,
                 query, faults>>

-----------------------------------------------------------------------------
(* The builder: it does not look at dataset_catalog *)

BuildShard ==
  /\ fold.pc = "idle"
  /\ recall # {}
  /\ Newest \in objects \cup {0}
  /\ Len(shards) < MaxShards
  /\ shards' = Append(shards, [lsn |-> Max(recall), rows |-> recall \cup Records(Newest)])
  /\ objects' = objects \cup {Len(shards) + 1}
  /\ fold' = [pc |-> "built", shard |-> Len(shards) + 1]
  /\ UNCHANGED <<now, storeVars, catalog, changes, wireVars, cacheVars,
                 query, faults>>

\* The row and its notification are one transaction.
add_shard ==
  /\ fold.pc = "built"
  /\ Change(catalog \cup {fold.shard})
  /\ pg_notify
  /\ fold' = [fold EXCEPT !.pc = "committed"]
  /\ UNCHANGED <<now, storeVars, shards, objects, listening, gen, faults>>

\* An error of pg_notify is caught without a savepoint: the transaction is
\* aborted, its commit rolls the row back, and the caller sees a success.
NotifyFails ==
  /\ fold.pc = "built"
  /\ Fault
  /\ fold' = [fold EXCEPT !.pc = "committed"]
  /\ UNCHANGED <<now, storeVars, catalogVars, wireVars, cacheVars, query>>

Superseded == {g \in catalog : g # Newest /\ g # Prior}

\* Mutant: the trim goes up to the newest watermark.
TrimmedAll == {n \in recall : n > Watermark(Newest)}

Trimmed == {n \in recall : n > Watermark(Prior)}

\* Sweep and trim; neither tells the data plane.
SweepAndTrim ==
  /\ fold.pc = "committed"
  /\ objects' = objects \ Superseded
  /\ recall' = Trimmed
  /\ IF Superseded = {} THEN UNCHANGED <<catalog, changes, entry, query>>
                        ELSE Change(catalog \ Superseded)
  /\ fold' = [pc |-> "idle", shard |-> 0]
  /\ UNCHANGED <<now, live, life, lsn, lifeOf, shards, wireVars, gen, faults>>

BuilderDies ==
  /\ fold.pc # "idle"
  /\ Fault
  /\ fold' = [pc |-> "idle", shard |-> 0]
  /\ UNCHANGED <<now, storeVars, catalogVars, wireVars, cacheVars, query>>

-----------------------------------------------------------------------------
(* The listener thread *)

\* LISTEN is established, at the start or after the back-off; what was announced
\* meanwhile is not asked for.
Listen ==
  /\ ~listening
  /\ listening' = TRUE
  /\ UNCHANGED <<now, storeVars, catalogVars, fold, wire, cacheVars, query, faults>>

\* select, poll or the socket fails: notifications not yet read are gone.
ConnectionDrops ==
  /\ listening
  /\ Fault
  /\ listening' = FALSE
  /\ wire' = <<>>
  /\ UNCHANGED <<now, storeVars, catalogVars, fold, cacheVars, query>>

\* _gen only ever grows in the code; its value matters to the threads that noted
\* one, so it starts at 0 again when there is none.
Noted(queries) == \E r \in Readers : queries[r].pc \in {"fetch", "install"}

invalidate == /\ gen' = IF Noted(query) THEN gen + 1 ELSE 0
              /\ entry' = NoEntry

Called(list, change) == [list EXCEPT !.called = @ \/ list.change < change]

\* _dispatch hands the payload to _on_catalog_notify.
Dispatch ==
  /\ listening
  /\ wire # <<>>
  /\ wire' = Tail(wire)
  /\ invalidate
  /\ query' = [r \in Readers |-> IF query[r].pc = "install"
                                 THEN [query[r] EXCEPT !.list = Called(@, Head(wire))]
                                 ELSE query[r]]
  /\ UNCHANGED <<now, storeVars, catalogVars, fold, listening, faults>>

-----------------------------------------------------------------------------
(* One query *)

Acknowledged == {n \in 1..lsn : lifeOf[n] = life}

Fresh(e) == e # NoEntry /\ now < e.at + Ttl

\* validate_query_body finds the dataset in Postgres.  The lookup reads the clock
\* and, under the lock, takes a fresh entry or notes the generation.
Lookup(r) ==
  /\ query[r].pc = "idle"
  /\ get_dataset
  /\ LET q == [Idle EXCEPT !.at = now, !.want = Acknowledged, !.life = life] IN
     query' = [query EXCEPT ![r] =
       IF Fresh(entry) THEN [q EXCEPT !.pc = "search", !.list = entry.list]
                       ELSE [q EXCEPT !.pc = "fetch", !.gen = gen]]
  /\ UNCHANGED <<now, storeVars, catalogVars, fold, wireVars, cacheVars, faults>>

\* The lock is not held while Postgres is asked.
list_shards(r) ==
  /\ query[r].pc = "fetch"
  /\ query' = [query EXCEPT ![r].pc = "install",
                   ![r].list = [rows |-> catalog, change |-> changes, stale |-> Never, called |-> FALSE]]
  /\ UNCHANGED <<now, storeVars, catalogVars, fold, wireVars, cacheVars, faults>>

\* Mutant: the entry is stamped with the time it is installed.
InstalledNow(q) == [at |-> now, list |-> q.list]

Installed(q) == [at |-> q.at, list |-> q.list]

\* Mutant: rows are installed whatever happened since they were asked for.
AnyGeneration(q) == TRUE

SameGeneration(q) == gen = q.gen

\* Rows read across an invalidation serve this query and are not kept.
Install(r) ==
  /\ query[r].pc = "install"
  /\ entry' = IF SameGeneration(query[r]) THEN Installed(query[r]) ELSE entry
  /\ query' = [query EXCEPT ![r].pc = "search", ![r].gen = 0]
  /\ gen' = IF Noted(query') THEN gen ELSE 0
  /\ UNCHANGED <<now, storeVars, catalogVars, fold, wireVars, faults>>

\* max_entries: other datasets push this one out.
Displaced ==
  /\ entry # NoEntry
  /\ entry' = NoEntry
  /\ UNCHANGED <<now, storeVars, catalogVars, fold, wireVars, gen, query, faults>>

\* _resolve_shard takes the newest row of the list.
Shard(q) == Max(q.list.rows \cup {0})

\* The recall worker scans above the watermark of the resolved shard.
recall_search(r) ==
  /\ query[r].pc = "search"
  /\ ~query[r].scanned
  /\ query' = [query EXCEPT ![r].scanned = TRUE,
                            ![r].found = {n \in recall : n > Watermark(Shard(query[r]))}]
  /\ UNCHANGED <<now, storeVars, catalogVars, fold, wireVars, cacheVars, faults>>

\* Shards are immutable and their ids are not used twice, so a warm index may
\* serve a shard that is no longer stored.
search_one_shard(r) ==
  /\ query[r].pc = "search"
  /\ query[r].load = "none"
  /\ \E how \in IF Shard(query[r]) \in objects \cup {0} THEN {"ok"}
                ELSE {"ok", "failed"} :
       query' = [query EXCEPT ![r].load = how]
  /\ UNCHANGED <<now, storeVars, catalogVars, fold, wireVars, cacheVars, faults>>

Respond(r) ==
  /\ query[r].scanned /\ query[r].load # "none"
  /\ query' = [query EXCEPT ![r] = Idle]
  /\ UNCHANGED <<now, storeVars, catalogVars, fold, wireVars, cacheVars, faults>>

Tick ==
  /\ now < MaxTime
  /\ now' = now + 1
  /\ UNCHANGED <<storeVars, catalogVars, fold, wireVars, cacheVars, query, faults>>

Next ==
  \/ recall_upsert_vectors \/ delete_dataset_endpoint \/ create_dataset_endpoint
  \/ BuildShard \/ add_shard \/ NotifyFails \/ SweepAndTrim \/ BuilderDies
  \/ Listen \/ ConnectionDrops \/ Dispatch \/ Displaced
  \/ \E r \in Readers : \/ Lookup(r) \/ list_shards(r) \/ Install(r)
                        \/ recall_search(r) \/ search_one_shard(r) \/ Respond(r)
  \/ Tick

Spec == Init /\ [][Next]_vars

-----------------------------------------------------------------------------
(* Properties *)

\* The bound on staleness that replaces a catalog read per query: however slowly
\* a thread reads Postgres and however late it installs what it read, no query
\* resolves from rows that stopped being true Ttl or longer before it asked.
StaleRowsExpire ==
  \A r \in Readers : query[r].pc = "search" => query[r].list.stale + Ttl > query[r].at

\* Once a change was announced to the process, no list read before that change
\* is found in the cache again, although a thread that had asked before the
\* announcement may install its rows after it.
InvalidationSticks == ~entry.list.called

Answer(q) == q.found \cup Records(Shard(q))

\* The query has its answer, and the dataset is still the one it found.
Answered(q) == q.scanned /\ q.load = "ok" /\ live /\ life = q.life

\* What remains of read-your-writes with a cached list: an answer lacks a record
\* acknowledged before the query arrived only if two folds have committed since
\* its list was read, also when a dataset was deleted under a running fold, when
\* the name was taken into use again, or when a commit was silently rolled back.
GapNeedsTwoFolds ==
  \A r \in Readers :
    LET q == query[r] IN
    Answered(q) /\ ~(q.want \subseteq Answer(q))
      => /\ Shard(q) \notin {Newest, Prior}
         /\ q.list.change + 2 <= changes

=============================================================================
