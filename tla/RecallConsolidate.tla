------------------------- MODULE RecallConsolidate -------------------------
(***************************************************************************)
(* The recall/consolidate seam of one (tenant, dataset) with RB_RECALL on  *)
(* and RB_DELTA_TIER off.                                                  *)
(*                                                                         *)
(* Client writes are synchronous UPSERTs into the recall tier (pgvector),  *)
(* each stamped with the next log sequence number.  index_builder replicas *)
(* compete for the per-dataset advisory lock; the winner folds a snapshot  *)
(* of the recall rows into a new immutable shard, commits its catalog row  *)
(* with the watermark consolidated_lsn, sweeps superseded shards and trims *)
(* the recall rows that every retained shard covers.  Queries resolve the  *)
(* newest shard, then scan recall above THAT shard's watermark while the   *)
(* shard is loaded, and merge the two.                                     *)
(*                                                                         *)
(* Data abstraction: the payload of a write is identified with the LSN the *)
(* write was given (its version), so two writes never have equal payloads. *)
(* A shard maps each id to the version it holds; 0 stands for "not there". *)
(***************************************************************************)
EXTENDS Integers, Sequences, FiniteSets, FiniteSetsExt

CONSTANTS
  Ids,            \* vector ids of the dataset
  Builders,       \* index_builder replicas
  NoBuilder,      \* the advisory lock is free
  Readers,        \* concurrent queries / CRUD reads
  RecallMaxRows,  \* RB_RECALL_MAX_ROWS: rows above which a write asks for a fold
  MaxBatch,       \* bound: most records one POST /vectors carries
  MaxLsn,         \* bound: LSNs handed out
  MaxQueue,       \* bound: CONSOLIDATE messages waiting
  MaxFaults       \* bound: crashes and failed calls

ASSUME LockAssumption == NoBuilder \notin Builders

ASSUME IdsAssumption == IsFiniteSet(Ids)

ASSUME BoundsAssumption ==
  /\ RecallMaxRows \in Nat /\ MaxBatch \in Nat /\ MaxLsn \in Nat
  /\ MaxQueue \in Nat /\ MaxFaults \in Nat

VARIABLES
  last_lsn,  \* recall_lsn_seq.last_lsn
  recall,    \* recall_vectors: one row per id, lsn 0 when there is no row
  shards,    \* every shard ever uploaded: its contents and its consolidated_lsn
  objects,   \* the uploads whose .bin/.meta.json are in the object store
  catalog,   \* the uploads that have a shard_catalog row
  status,    \* datasets.status
  row_count, \* datasets.row_count
  queue,     \* number of CONSOLIDATE messages waiting
  lock,      \* holder of the per-dataset advisory lock
  job,       \* the consolidation each builder is running
  resolved,  \* the shard each reader resolved
  scan,      \* what its recall scan returned
  load,      \* how far it is with loading the shard
  truth,     \* history: the version the last acknowledged write left at each id
  faults     \* history: crashes and failed calls so far

storeVars   == <<last_lsn, recall, truth>>
catalogVars == <<shards, objects, catalog, status, row_count>>
readVars    == <<resolved, scan, load>>
vars == <<storeVars, catalogVars, queue, lock, job, readVars, faults>>

-----------------------------------------------------------------------------
(* Rows, shards, generations *)

Row   == [lsn : Nat, deleted : BOOLEAN]
NoRow == [lsn |-> 0, deleted |-> FALSE]

\* The version a recall row makes visible: a tombstone shows nothing.
Version(row) == IF row.deleted THEN 0 ELSE row.lsn

Resident == {i \in Ids : recall[i].lsn > 0}

\* "No shard yet" is written as generation 0: it holds nothing and its
\* watermark is 0, so that every recall row qualifies.
Watermark(g) == IF g = 0 THEN 0 ELSE shards[g].lsn
Vectors(g)   == IF g = 0 THEN [i \in Ids |-> 0] ELSE shards[g].vecs

VectorCount(g) == Cardinality({i \in Ids : Vectors(g)[i] > 0})

\* list_shards is newest first; uploads are numbered in the order in which the
\* lock holders made them.  With the delta tier off every shard is a generation.
Newest == Max(catalog \cup {0})
Prior  == Max((catalog \ {Newest}) \cup {0})

\* Mutant: only the newest generation is kept.
SupersededKeepOne == catalog \ {Newest}

Superseded == {g \in catalog : g # Newest /\ g # Prior}

\* What a read that resolved g finds for id i if it scans recall now.
UnionRead(g, i) ==
  IF recall[i].lsn > Watermark(g) THEN Version(recall[i]) ELSE Vectors(g)[i]

\* What a builder has at hand between two steps of a consolidation.
At(pc)           == [pc |-> pc]
Snapped(N, rows) == [pc |-> "snapped", lsn |-> N, rows |-> rows]
WithShard(pc, g) == [pc |-> pc, shard |-> g]
Sweeping(stale)  == [pc |-> "sweeping", stale |-> stale]

NoScan == [done |-> FALSE, timely |-> FALSE,
           rows |-> [i \in Ids |-> NoRow], want |-> [i \in Ids |-> 0]]

Init ==
  /\ last_lsn = 0
  /\ recall = [i \in Ids |-> NoRow]
  /\ shards = <<>>
  /\ objects = {}
  /\ catalog = {}
  /\ status = "empty" /\ row_count = 0
  /\ queue = 0
  /\ lock = NoBuilder
  /\ job = [b \in Builders |-> At("idle")]
  /\ resolved = [r \in Readers |-> 0]
  /\ scan = [r \in Readers |-> NoScan]
  /\ load = [r \in Readers |-> "idle"]
  /\ truth = [i \in Ids |-> 0]
  /\ faults = 0

-----------------------------------------------------------------------------
(* Client writes *)

\* After the durable write the endpoint counts the partition and, over the cap,
\* publishes CONSOLIDATE.  The publish is best effort: its failure is swallowed.
CapTrigger ==
  /\ queue' \in IF Cardinality(Resident') > RecallMaxRows THEN {queue, queue + 1}
                                                          ELSE {queue}
  /\ queue' <= MaxQueue

\* The records of a batch, intra-batch duplicates already collapsed.
Batches == UNION {{w \in [1..n -> Ids] : \A j, k \in 1..n : w[j] = w[k] => j = k} :
                  n \in 1..MaxBatch}

\* The LSN block is allotted in input order.
StampOf(winners, i) == last_lsn + (CHOOSE k \in DOMAIN winners : winners[k] = i)

Written(winners) == {winners[k] : k \in DOMAIN winners}

recall_upsert_vectors(winners) ==
  /\ last_lsn + Len(winners) <= MaxLsn
  /\ last_lsn' = last_lsn + Len(winners)
  /\ recall' = [i \in Ids |-> IF i \in Written(winners)
                              THEN [lsn |-> StampOf(winners, i), deleted |-> FALSE]
                              ELSE recall[i]]
  /\ truth' = [i \in Ids |-> IF i \in Written(winners)
                             THEN StampOf(winners, i) ELSE truth[i]]
  /\ CapTrigger
  /\ UNCHANGED <<catalogVars, lock, job, readVars, faults>>

recall_delete_vector(i) ==
  /\ last_lsn < MaxLsn
  /\ last_lsn' = last_lsn + 1
  /\ recall' = [recall EXCEPT ![i] = [lsn |-> last_lsn + 1, deleted |-> TRUE]]
  /\ truth' = [truth EXCEPT ![i] = 0]
  /\ CapTrigger
  /\ UNCHANGED <<catalogVars, lock, job, readVars, faults>>

\* Mutant: the idle tick looks at the cap as well.
IdleSweepOverCap ==
  /\ Cardinality(Resident) > RecallMaxRows
  /\ queue < MaxQueue
  /\ queue' = queue + 1
  /\ UNCHANGED <<storeVars, catalogVars, lock, job, readVars, faults>>

\* The builder's idle tick publishes CONSOLIDATE for a partition that still has
\* rows and has not been written to for RB_RECALL_IDLE_S; time is abstracted to
\* "at any moment".
IdleSweep ==
  /\ Resident # {}
  /\ queue < MaxQueue
  /\ queue' = queue + 1
  /\ UNCHANGED <<storeVars, catalogVars, lock, job, readVars, faults>>

-----------------------------------------------------------------------------
(* Consolidation, one action per externally visible step *)

Fault == /\ faults < MaxFaults
         /\ faults' = faults + 1

Release(b) ==
  /\ lock' = NoBuilder
  /\ job' = [job EXCEPT ![b] = At("idle")]

\* Take a message and the lock.
Take(b) ==
  /\ job[b].pc = "idle"
  /\ queue > 0
  /\ lock = NoBuilder
  /\ queue' = queue - 1
  /\ lock' = b
  /\ job' = [job EXCEPT ![b] = At("locked")]
  /\ UNCHANGED <<storeVars, catalogVars, readVars, faults>>

\* A builder that finds the lock held nacks the message: back onto the queue,
\* which leaves this state as it is, or, once QUEUE_MAX_ATTEMPTS deliveries are
\* used up, onto the dead-letter list.
Skip(b) ==
  /\ job[b].pc = "idle"
  /\ queue > 0
  /\ lock # NoBuilder
  /\ queue' = queue - 1
  /\ UNCHANGED <<storeVars, catalogVars, lock, job, readVars, faults>>

\* Mutant: the watermark is taken from the live rows alone.
SnapshotLiveMax(b) ==
  /\ job[b].pc = "locked"
  /\ Resident # {}
  /\ job' = [job EXCEPT ![b] =
       Snapped(Max({0} \cup {Version(recall[i]) : i \in Resident}), recall)]
  /\ UNCHANGED <<storeVars, catalogVars, queue, lock, readVars, faults>>

\* One statement reads every row of the partition and its highest LSN.
Snapshot(b) ==
  /\ job[b].pc = "locked"
  /\ Resident # {}
  /\ job' = [job EXCEPT ![b] = Snapped(Max({recall[i].lsn : i \in Resident}), recall)]
  /\ UNCHANGED <<storeVars, catalogVars, queue, lock, readVars, faults>>

\* An empty partition is a clean no-op.
SnapshotEmpty(b) ==
  /\ job[b].pc = "locked"
  /\ Resident = {}
  /\ Release(b)
  /\ UNCHANGED <<storeVars, catalogVars, queue, readVars, faults>>

\* The live rows replace, and the tombstones remove, what the newest shard holds.
Folded(rows, g) ==
  [i \in Ids |-> IF rows[i].lsn > 0 THEN Version(rows[i]) ELSE Vectors(g)[i]]

\* With no shard to remove from and no live row there is nothing to write: the
\* consolidation ends without touching catalog or recall.
NothingToFold(b) ==
  /\ job[b].pc = "snapped"
  /\ Newest = 0
  /\ \A i \in Ids : Version(job[b].rows[i]) = 0
  /\ Release(b)
  /\ UNCHANGED <<storeVars, catalogVars, queue, readVars, faults>>

\* Read the newest shard, fold the snapshot into it and upload index and
\* sidecar.
BuildShard(b) ==
  /\ job[b].pc = "snapped"
  /\ IF Newest = 0 THEN \E i \in Ids : Version(job[b].rows[i]) > 0
                   ELSE Newest \in objects
  /\ shards' = Append(shards, [lsn |-> job[b].lsn,
                               vecs |-> Folded(job[b].rows, Newest)])
  /\ objects' = objects \cup {Len(shards) + 1}
  /\ job' = [job EXCEPT ![b] = WithShard("written", Len(shards) + 1)]
  /\ UNCHANGED <<storeVars, catalog, status, row_count, queue, lock, readVars, faults>>

\* add_shard: the catalog row and its watermark become visible in one statement.
CommitShard(b) ==
  /\ job[b].pc = "written"
  /\ catalog' = catalog \cup {job[b].shard}
  /\ job' = [job EXCEPT ![b] = WithShard("committed", job[b].shard)]
  /\ UNCHANGED <<storeVars, shards, objects, status, row_count, queue, lock, readVars, faults>>

\* The row count is reconciled best effort, then the status is settled.
Settle(b) ==
  /\ job[b].pc = "committed"
  /\ status' = "indexed"
  /\ \/ /\ row_count' = VectorCount(job[b].shard)
        /\ UNCHANGED faults
     \/ /\ UNCHANGED row_count
        /\ Fault
  /\ job' = [job EXCEPT ![b] = At("settled")]
  /\ UNCHANGED <<storeVars, shards, objects, catalog, queue, lock, readVars>>

\* _sweep_superseded_shards deletes the objects first; a failed delete is logged
\* and skipped.
SweepObjects(b) ==
  /\ job[b].pc = "settled"
  /\ \/ /\ objects' = objects \ Superseded
        /\ UNCHANGED faults
     \/ /\ \E kept \in (SUBSET Superseded) \ {{}} :
             objects' = objects \ (Superseded \ kept)
        /\ Fault
  /\ job' = [job EXCEPT ![b] = Sweeping(Superseded)]
  /\ UNCHANGED <<storeVars, shards, catalog, status, row_count, queue, lock, readVars>>

\* ... and the catalog rows afterwards, whether or not the objects went.
SweepRows(b) ==
  /\ job[b].pc = "sweeping"
  /\ \/ /\ catalog' = catalog \ job[b].stale
        /\ UNCHANGED faults
     \/ /\ UNCHANGED catalog
        /\ Fault
  /\ job' = [job EXCEPT ![b] = At("swept")]
  /\ UNCHANGED <<storeVars, shards, objects, status, row_count, queue, lock, readVars>>

\* Mutant: trim up to the generation just committed.
NewestWatermark == Watermark(Newest)

\* grace_watermark with keep = 2: 0 until two generations exist.
grace_watermark == Watermark(Prior)

\* Mutant: the boundary of the trim is off by one.
TrimTooFar(grace) ==
  recall' = [i \in Ids |-> IF recall[i].lsn <= grace + 1 THEN NoRow ELSE recall[i]]

recall_trim(grace) ==
  recall' = [i \in Ids |-> IF recall[i].lsn <= grace THEN NoRow ELSE recall[i]]

\* The trim is the last step; a failed trim is logged and left to the next fold.
Trim(b) ==
  /\ job[b].pc = "swept"
  /\ \/ /\ recall_trim(grace_watermark)
        /\ UNCHANGED faults
     \/ /\ UNCHANGED recall
        /\ Fault
  /\ Release(b)
  /\ UNCHANGED <<last_lsn, truth, catalogVars, queue, readVars>>

\* A snapshot, read, upload or commit that raises flips the dataset to error;
\* the message counts as handled.
ConsolidateFails(b) ==
  /\ job[b].pc \in {"locked", "snapped", "written"}
  /\ Fault
  /\ status' = "error"
  /\ Release(b)
  /\ UNCHANGED <<storeVars, shards, objects, catalog, row_count, queue, readVars>>

\* The process dies, or an exception no handler catches unwinds it.  Closing the
\* session frees the lock.  The message goes back to the queue (nack) or stays
\* behind on the processing list, from where CONSOLIDATE is not reclaimed.
Crash(b) ==
  /\ job[b].pc # "idle"
  /\ Fault
  /\ queue' \in {queue, queue + 1} /\ queue' <= MaxQueue
  /\ Release(b)
  /\ UNCHANGED <<storeVars, catalogVars, readVars>>

-----------------------------------------------------------------------------
(* Reads *)

\* The newest shard and its watermark are resolved once, together.  Resolving from
\* a catalog list cached a moment ago is resolving early and resuming late.
ResolveShard(r) ==
  /\ load[r] = "idle"
  /\ resolved' = [resolved EXCEPT ![r] = Newest]
  /\ load' = [load EXCEPT ![r] = "pending"]
  /\ UNCHANGED <<storeVars, catalogVars, queue, lock, job, scan, faults>>

\* Mutant: the watermark is read again instead of taken from the resolved shard.
SearchAboveNewest(r) ==
  /\ load[r] # "idle" /\ ~ scan[r].done
  /\ scan' = [scan EXCEPT ![r] =
       [done |-> TRUE, timely |-> resolved[r] \in {Newest, Prior},
        rows |-> [i \in Ids |-> IF recall[i].lsn > Watermark(Newest)
                                THEN recall[i] ELSE NoRow],
        want |-> truth]]
  /\ UNCHANGED <<storeVars, catalogVars, queue, lock, job, resolved, load, faults>>

\* One statement reads the recall rows above the resolved shard's watermark.
RecallSearch(r) ==
  /\ load[r] # "idle" /\ ~ scan[r].done
  /\ scan' = [scan EXCEPT ![r] =
       [done |-> TRUE, timely |-> resolved[r] \in {Newest, Prior},
        rows |-> [i \in Ids |-> IF recall[i].lsn > Watermark(resolved[r])
                                THEN recall[i] ELSE NoRow],
        want |-> truth]]
  /\ UNCHANGED <<storeVars, catalogVars, queue, lock, job, resolved, load, faults>>

\* Loading a shard whose objects were swept succeeds from a process's cache,
\* fails the query, or (CRUD reads) degrades to an empty sidecar.
LoadShard(r) ==
  /\ load[r] = "pending"
  /\ \E outcome \in IF resolved[r] \in objects \cup {0} THEN {"ok"}
                    ELSE {"ok", "failed", "empty"} :
       load' = [load EXCEPT ![r] = outcome]
  /\ UNCHANGED <<storeVars, catalogVars, queue, lock, job, resolved, scan, faults>>

Respond(r) ==
  /\ scan[r].done /\ load[r] # "pending"
  /\ resolved' = [resolved EXCEPT ![r] = 0]
  /\ scan' = [scan EXCEPT ![r] = NoScan]
  /\ load' = [load EXCEPT ![r] = "idle"]
  /\ UNCHANGED <<storeVars, catalogVars, queue, lock, job, faults>>

\* Mutant: a tombstone in recall does not hide the shard's copy.
AnswerLiveOnly(r) ==
  [i \in Ids |-> IF Version(scan[r].rows[i]) > 0 THEN Version(scan[r].rows[i])
                 ELSE IF load[r] = "empty" THEN 0
                 ELSE Vectors(resolved[r])[i]]

\* _merge_recall_and_consolidated: a recall row, live or tombstone, hides the
\* shard's copy of its id.
Answer(r) ==
  [i \in Ids |-> IF scan[r].rows[i].lsn > 0 THEN Version(scan[r].rows[i])
                 ELSE IF load[r] = "empty" THEN 0
                 ELSE Vectors(resolved[r])[i]]

-----------------------------------------------------------------------------

Write == \/ \E winners \in Batches : recall_upsert_vectors(winners)
         \/ \E i \in Ids : recall_delete_vector(i)

Fold(b) == \/ Snapshot(b) \/ SnapshotEmpty(b) \/ NothingToFold(b) \/ BuildShard(b)
           \/ CommitShard(b) \/ Settle(b)
           \/ SweepObjects(b) \/ SweepRows(b) \/ Trim(b)

Read(r) == ResolveShard(r) \/ RecallSearch(r) \/ LoadShard(r) \/ Respond(r)

Next ==
  \/ Write
  \/ IdleSweep
  \/ \E b \in Builders : Take(b) \/ Skip(b) \/ Fold(b) \/ ConsolidateFails(b) \/ Crash(b)
  \/ \E r \in Readers : Read(r)

Spec == Init /\ [][Next]_vars

\* The builder loop keeps polling and a running handler keeps running; its idle
\* tick keeps sweeping.  Clients owe nothing.
Fairness ==
  /\ WF_vars(IdleSweep)
  /\ WF_vars(\E b \in Builders : Take(b))
  /\ \A b \in Builders : WF_vars(Fold(b))

FairSpec == Spec /\ Fairness

-----------------------------------------------------------------------------
(* Properties *)

Jobs == [pc : {"idle", "locked", "settled", "swept"}]
        \cup [pc : {"snapped"}, lsn : Nat, rows : [Ids -> Row]]
        \cup [pc : {"written", "committed"}, shard : 1..Len(shards)]
        \cup [pc : {"sweeping"}, stale : SUBSET (1..Len(shards))]

Scans == [done : BOOLEAN, timely : BOOLEAN, rows : [Ids -> Row], want : [Ids -> Nat]]

\* Every variable stays in its domain; shard ordinals name uploads.
TypeOK ==
  /\ last_lsn \in Nat
  /\ recall \in [Ids -> Row]
  /\ shards \in Seq([lsn : Nat, vecs : [Ids -> Nat]])
  /\ objects \subseteq 1..Len(shards)
  /\ catalog \subseteq 1..Len(shards)
  /\ status \in {"empty", "indexed", "error"} /\ row_count \in Nat
  /\ queue \in Nat
  /\ lock \in Builders \cup {NoBuilder}
  /\ job \in [Builders -> Jobs]
  /\ resolved \in [Readers -> 0..Len(shards)]
  /\ scan \in [Readers -> Scans]
  /\ load \in [Readers -> {"idle", "pending", "ok", "failed", "empty"}]
  /\ truth \in [Ids -> Nat]
  /\ faults \in Nat

\* I1, I2 and I4 of docs/architecture/recall-consolidate.md in one statement: at
\* every moment - mid-fold, after a crash between commit and trim, after a failed
\* sweep - a read that resolved either retained generation and scans recall now
\* finds at every id exactly what the last acknowledged write left there.
NoWriteLost == \A g \in {Newest, Prior} : \A i \in Ids : UnionRead(g, i) = truth[i]

\* Read-your-writes (I3, I4): a query whose shard was superseded at most once
\* before its recall scan answers with the state at that scan, however the scan,
\* the shard load and a fold interleave.
TimelyAnswers ==
  \A r \in Readers :
    scan[r].done /\ scan[r].timely /\ load[r] = "ok" => Answer(r) = scan[r].want

\* A read only ever loses its shard to the sweep once two newer generations have
\* been committed since it resolved it.
SweptOnlyWhenTwiceSuperseded ==
  \A r \in Readers :
    load[r] \in {"failed", "empty"} => resolved[r] \notin {Newest, Prior}

\* consolidated_lsn of the newest shard never falls, although a fold takes it from
\* the rows that happen to be resident when it snapshots.
WatermarkNeverRegresses == [][Watermark(Newest)' >= Watermark(Newest)]_vars

\* Consolidate-on-idle drains the partition to zero rows once writes stop
\* (scale-to-zero), also one that never reached the cap and has no shard yet.  Only
\* tombstones are left behind, and only where there never was anything to build a
\* first shard from.
DrainsWhenIdle ==
  <>[](\/ Resident = {}
       \/ catalog = {} /\ \A i \in Resident : recall[i].deleted)

(* The inductive invariant behind NoWriteLost, TimelyAnswers,                  *)
(* SweptOnlyWhenTwiceSuperseded and WatermarkNeverRegresses.                  *)

\* Rows and shards are stamped no higher than the sequence, and a row shows the
\* last acknowledged write of its id.
StampsInv ==
  /\ \A i \in Ids : /\ recall[i].lsn <= last_lsn
                    /\ recall[i].lsn > 0 => truth[i] = Version(recall[i])
  /\ \A g \in 1..Len(shards) : shards[g].lsn <= last_lsn

\* Shard g holds every acknowledged write that no recall row above g's
\* watermark carries.
Covers(g) == \A i \in Ids : recall[i].lsn > Watermark(g) \/ Vectors(g)[i] = truth[i]

\* If a row is resident at all, some row has reached the watermark.
Reached(lsn) == Resident # {} => \E i \in Ids : recall[i].lsn >= lsn

RetainedInv ==
  /\ Covers(Newest) /\ Covers(Prior)
  /\ Watermark(Prior) <= Watermark(Newest)
  /\ Reached(Watermark(Newest))
  /\ {Newest, Prior} \subseteq objects \cup {0}

\* The snapshot is what recall still holds, or a later write has replaced it.
SnappedInv(b) ==
  LET N == job[b].lsn IN
  /\ N <= last_lsn
  /\ Watermark(Newest) <= N
  /\ \E i \in Ids : recall[i].lsn >= N
  /\ \A i \in Ids : /\ job[b].rows[i].lsn <= N
                    /\ recall[i] = job[b].rows[i] \/ recall[i].lsn > N

\* The upload that is about to be committed is newer than every catalog row.
WrittenInv(b) ==
  LET g == job[b].shard IN
  /\ g \in objects
  /\ \A h \in catalog : h < g
  /\ Covers(g)
  /\ Watermark(Newest) <= Watermark(g)
  /\ \E i \in Ids : recall[i].lsn >= Watermark(g)

JobInv(b) ==
  /\ job[b].pc # "idle" => lock = b
  /\ job[b].pc = "snapped" => SnappedInv(b)
  /\ job[b].pc = "written" => WrittenInv(b)
  /\ job[b].pc = "sweeping" => Newest \notin job[b].stale /\ Prior \notin job[b].stale

QueryInv(r) ==
  /\ resolved[r] <= Newest
  /\ scan[r].done => load[r] # "idle"
  /\ scan[r].done /\ scan[r].timely
       => \A i \in Ids : scan[r].want[i] =
            IF scan[r].rows[i].lsn > 0 THEN Version(scan[r].rows[i])
                                       ELSE Vectors(resolved[r])[i]
  /\ load[r] \in {"failed", "empty"} => resolved[r] # Newest /\ resolved[r] # Prior

\* Every part of the argument for the four properties above: the union of either
\* retained shard with recall is complete before, between and after the steps of
\* a fold, and a fold's snapshot and upload stay valid while writes go on.
FoldInv ==
  /\ StampsInv
  /\ RetainedInv
  /\ \A b \in Builders : JobInv(b)
  /\ \A r \in Readers : QueryInv(r)

\* What a fresh read would see, and what each timely read has in hand.
VisibleStore == [i \in Ids |-> UnionRead(Newest, i)]

VisibleAnswer ==
  [r \in Readers |->
     IF scan[r].done /\ scan[r].timely /\ load[r] \in {"pending", "ok"}
     THEN Answer(r) ELSE NoBuilder]

Promise == INSTANCE VectorStore WITH
  store <- VisibleStore, clock <- last_lsn, answer <- VisibleAnswer,
  NoAnswer <- NoBuilder

\* The store a fresh read sees, and the answers of timely reads, behave like the
\* abstract store: every builder step is invisible.
RefinesVectorStore == Promise!Spec
=============================================================================
