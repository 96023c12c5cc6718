----------------------------- MODULE DeltaTier -----------------------------
(***************************************************************************)
(* The recall/consolidate seam with RB_DELTA_TIER on, for a dataset whose  *)
(* base is a bare IVF index.                                               *)
(*                                                                         *)
(* A fold no longer rewrites the shard: it uploads a delta that holds only *)
(* the recall rows above the generation's frontier, with the deleted ids   *)
(* as tombstones on its catalog row.  RB_MAX_DELTAS deltas trigger a major *)
(* compaction, in the same run, that merges base and deltas into a new     *)
(* base: a new generation.  A query resolves the newest base with its      *)
(* deltas, scans recall above their contiguous frontier, searches every    *)
(* shard and suppresses the tombstoned ids.                                *)
(*                                                                         *)
(* One builder stands for all: the per-dataset lock, which                 *)
(* RecallConsolidate models, lets one at a time run.  As there, a payload  *)
(* is the LSN of its write and version 0 is "not there".                   *)
(***************************************************************************)
EXTENDS Integers, Sequences, FiniteSets, FiniteSetsExt

CONSTANTS
  Ids,         \* vector ids of the dataset
  Deletable,   \* the ids clients delete
  Readers,     \* concurrent queries
  MaxDeltas,   \* RB_MAX_DELTAS
  MaxLsn,      \* bound: LSNs handed out
  MaxShards,   \* bound: uploads
  MaxFaults    \* bound: crashes and failed calls

ASSUME DeltaAssumption ==
  /\ IsFiniteSet(Ids) /\ Deletable \subseteq Ids
  /\ MaxDeltas \in Nat \ {0} /\ MaxLsn \in Nat /\ MaxShards \in Nat /\ MaxFaults \in Nat

VARIABLES
  last_lsn,   \* recall_lsn_seq.last_lsn
  recall,     \* recall_vectors: one row per id, lsn 0 when there is no row
  shards,     \* every shard uploaded: parent (0 for a base), band, vectors, tombstones
  objects,    \* the uploads whose objects exist
  catalog,    \* the uploads that have a shard_catalog row
  row_count,  \* datasets.row_count
  pc,         \* where the builder's consolidation is
  snap,       \* the recall rows it snapshotted
  upload,     \* the shard it uploaded last
  major,      \* whether that shard came out of a major compaction
  stale,      \* the shards it is sweeping
  resolved,   \* the set of shards each query resolved
  scan,       \* what its recall scan returned
  truth,      \* history: the version the last acknowledged write left at each id
  faults      \* history: crashes and failed calls so far

storeVars   == <<last_lsn, recall, truth>>
catalogVars == <<shards, objects, catalog, row_count>>
jobVars     == <<pc, snap, upload, major, stale>>
readVars    == <<resolved, scan>>
vars == <<storeVars, catalogVars, jobVars, readVars, faults>>

-----------------------------------------------------------------------------
(* Shards and generations *)

Row   == [lsn : Nat, deleted : BOOLEAN]
NoRow == [lsn |-> 0, deleted |-> FALSE]

Version(row) == IF row.deleted THEN 0 ELSE row.lsn

Resident == {i \in Ids : recall[i].lsn > 0}

Bases == {g \in catalog : shards[g].parent = 0}

\* A generation is a base and the catalogued deltas that name it as their parent.
\* (All of a dataset's shards share quantizer version 1.)
Generation(base) == {base} \cup {d \in catalog : shards[d].parent = base}

NewestBase == Max(Bases \cup {0})
PriorBase  == Max((Bases \ {NewestBase}) \cup {0})

\* live_generation and the generation behind it; empty when there is none.
live_generation  == IF NewestBase = 0 THEN {} ELSE Generation(NewestBase)
grace_generation == IF PriorBase = 0 THEN {} ELSE Generation(PriorBase)

\* Mutant: liveness by position in the list instead of by generation.
SupersededByPosition == {g \in catalog : Cardinality({h \in catalog : h > g}) >= 2}

superseded_shards == catalog \ (live_generation \cup grace_generation)

\* The highest LSN a set of shards covers.
CoveredHi(S) == Max({shards[s].hi : s \in S} \cup {0})

\* Each shard of S up to s begins where the one before it ended.
Contiguous(S, s) ==
  \A t \in S : shards[t].lo <= shards[s].lo /\ shards[t].lo > 0 =>
    shards[t].lo = CoveredHi({u \in S : shards[u].lo < shards[t].lo}) + 1

\* _frontier_watermark: walk the bands upwards and stop at the first gap.
frontier_watermark(S) == CoveredHi({s \in S : Contiguous(S, s)})

\* The shard with the highest band among those of a non-empty set.
TopBand(S) == CHOOSE s \in S : \A t \in S : shards[t].lo <= shards[s].lo

Holders(S, i)  == {s \in S : shards[s].vecs[i] > 0}
Deleters(S, i) == {s \in S : i \in shards[s].tombs}

\* Of the shards in whose hits the id was found, the one with the highest band wins.
NewestCopy(found, i) == IF found = {} THEN 0 ELSE shards[TopBand(found)].vecs[i]

\* Mutant: a tombstone drops the id whatever a later delta holds.
MergedPooled(S) ==
  [i \in Ids |-> IF Deleters(S, i) # {} THEN 0 ELSE NewestCopy(Holders(S, i), i)]

\* Major compaction: the highest band that mentions an id, as a vector or as a
\* tombstone, decides.
Merged(S) ==
  [i \in Ids |-> LET mentions == Holders(S, i) \cup Deleters(S, i)
                 IN IF mentions = {} THEN 0 ELSE shards[TopBand(mentions)].vecs[i]]

\* Mutant: the resolved deltas' tombstones are not looked at.
SearchedUnsuppressed(S, i, found, mapped) == NewestCopy(found, i)

\* What a query shows of an id.  Every shard is searched on its own, and its hits are
\* filtered and cut to top_k before the newest copy of an id is chosen: `found` is
\* the set of holders in whose hits the id is left under its name, any set of them,
\* as filter, distances, probed cells and unreadable sidecars decide.  The pooled
\* tombstones of all resolved deltas suppress the ids that some sidecar of S, as
\* read for that purpose, could translate: `mapped`.
Searched(S, i, found, mapped) ==
  IF Deleters(S, i) # {} /\ mapped THEN 0 ELSE NewestCopy(found, i)

\* A mention of the id above all its copies found, that the query did not get to see.
Missed(S, i, found, mapped) ==
  \E s \in (Holders(S, i) \ found) \cup (IF mapped THEN {} ELSE Deleters(S, i)) :
    \A t \in found : shards[s].lo > shards[t].lo

\* A reading of the shards, overridden by the recall rows above their frontier.
Overridden(S, i, below) ==
  IF recall[i].lsn > frontier_watermark(S) THEN Version(recall[i]) ELSE below

Union(S, reading) == [i \in Ids |-> Overridden(S, i, reading[i])]

NoScan == [done |-> FALSE, timely |-> FALSE,
           rows |-> [i \in Ids |-> NoRow], want |-> [i \in Ids |-> 0]]

Init ==
  /\ last_lsn = 0
  /\ recall = [i \in Ids |-> NoRow]
  /\ shards = <<>> /\ objects = {} /\ catalog = {} /\ row_count = 0
  /\ pc = "idle" /\ snap = [i \in Ids |-> NoRow] /\ upload = 0 /\ major = FALSE
  /\ stale = {}
  /\ resolved = [r \in Readers |-> {}]
  /\ scan = [r \in Readers |-> NoScan]
  /\ truth = [i \in Ids |-> 0]
  /\ faults = 0

-----------------------------------------------------------------------------
(* Client writes: as in RecallConsolidate, one record at a time *)

Stamp(i, deleted) ==
  /\ last_lsn < MaxLsn
  /\ last_lsn' = last_lsn + 1
  /\ recall' = [recall EXCEPT ![i] = [lsn |-> last_lsn + 1, deleted |-> deleted]]
  /\ UNCHANGED <<catalogVars, jobVars, readVars, faults>>

recall_upsert_vectors(i) ==
  /\ Stamp(i, FALSE)
  /\ truth' = [truth EXCEPT ![i] = last_lsn + 1]

recall_delete_vector(i) ==
  /\ Stamp(i, TRUE)
  /\ truth' = [truth EXCEPT ![i] = 0]

-----------------------------------------------------------------------------
(* A consolidation *)

Fault == /\ faults < MaxFaults
         /\ faults' = faults + 1

\* A CONSOLIDATE message is there whenever the partition has rows (the idle sweep
\* sees to that); the lock is taken and the partition read in one statement.
Snapshot ==
  /\ pc = "idle"
  /\ Resident # {}
  /\ pc' = "snapped"
  /\ snap' = recall
  /\ UNCHANGED <<storeVars, catalogVars, upload, major, stale, readVars, faults>>

SnapLsn == Max({snap[i].lsn : i \in Ids} \cup {0})

\* Only the rows above the live generation's frontier are folded.
ToFold == {i \in Ids : snap[i].lsn > CoveredHi(live_generation)}

\* The run is over, and its locals with it.
EndRun ==
  /\ pc' = "idle" /\ snap' = [i \in Ids |-> NoRow] /\ upload' = 0
  /\ major' = FALSE /\ stale' = {}

\* A fold that has nothing to write, a first one with tombstones only included,
\* ends without sweep or trim.
NothingToFold ==
  /\ pc = "snapped"
  /\ \A i \in ToFold : live_generation = {} /\ snap[i].deleted
  /\ EndRun
  /\ UNCHANGED <<storeVars, catalogVars, readVars, faults>>

\* Upload a shard; its catalog row comes with the commit.
Put(shard, isMajor) ==
  /\ Len(shards) < MaxShards
  /\ shards' = Append(shards, shard)
  /\ objects' = objects \cup {Len(shards) + 1}
  /\ upload' = Len(shards) + 1
  /\ major' = isMajor
  /\ pc' = "written"
  /\ UNCHANGED <<storeVars, catalog, row_count, snap, stale, readVars, faults>>

\* covered_lsn_lo of a new delta: the first LSN the generation does not cover yet.
covered_lo == CoveredHi(live_generation) + 1

\* The first fold writes a base, every other one a delta on the newest base.
BuildDeltaFold ==
  /\ pc = "snapped"
  /\ \/ /\ live_generation = {}
        /\ \E i \in ToFold : ~ snap[i].deleted
        /\ Put([parent |-> 0, lo |-> 0, hi |-> SnapLsn, tombs |-> {},
                vecs |-> [i \in Ids |-> Version(snap[i])]], FALSE)
     \/ /\ live_generation # {}
        /\ ToFold # {}
        /\ Put([parent |-> NewestBase, lo |-> covered_lo, hi |-> SnapLsn,
                tombs |-> {i \in ToFold : snap[i].deleted},
                vecs |-> [i \in Ids |-> IF i \in ToFold THEN Version(snap[i]) ELSE 0]],
               FALSE)

CommitShard ==
  /\ pc = "written"
  /\ catalog' = catalog \cup {upload}
  /\ pc' = "committed"
  /\ UNCHANGED <<storeVars, shards, objects, row_count, snap, upload, major, stale,
                 readVars, faults>>

\* set_row_count with the vectors of the shard just written, best effort.
Settle ==
  /\ pc = "committed"
  /\ \/ /\ row_count' = Cardinality({i \in Ids : shards[upload].vecs[i] > 0})
        /\ UNCHANGED faults
     \/ /\ UNCHANGED row_count
        /\ Fault
  /\ pc' = "settled"
  /\ UNCHANGED <<storeVars, shards, objects, catalog, snap, upload, major, stale, readVars>>

SweepObjects ==
  /\ pc = "settled"
  /\ objects' = objects \ superseded_shards
  /\ stale' = superseded_shards
  /\ pc' = "sweeping"
  /\ UNCHANGED <<storeVars, shards, catalog, row_count, snap, upload, major, readVars, faults>>

\* After the sweep that follows a fold the delta cap is checked; after the one that
\* follows a compaction only the trim is left.
SweepRows ==
  /\ pc = "sweeping"
  /\ \/ /\ catalog' = catalog \ stale
        /\ UNCHANGED faults
     \/ /\ UNCHANGED catalog
        /\ Fault
  /\ pc' = IF major THEN "trim" ELSE "swept"
  /\ UNCHANGED <<storeVars, shards, objects, row_count, snap, upload, major, stale, readVars>>

Deltas == live_generation \ {NewestBase}

Survivors == {i \in Ids : Merged(live_generation)[i] > 0}

\* Below the cap, with nothing alive, or when the compaction raises, the run goes
\* on to the trim.
SkipCompaction ==
  /\ pc = "swept"
  /\ \/ (Cardinality(Deltas) < MaxDeltas \/ Survivors = {}) /\ UNCHANGED faults
     \/ Cardinality(Deltas) >= MaxDeltas /\ Fault
  /\ pc' = "trim"
  /\ UNCHANGED <<storeVars, catalogVars, snap, upload, major, stale, readVars>>

\* Mutant: the new base is stamped with the old base's band.
CompactUnderBase ==
  /\ pc = "swept"
  /\ Cardinality(Deltas) >= MaxDeltas
  /\ Survivors # {}
  /\ Put([parent |-> 0, lo |-> 0, hi |-> shards[NewestBase].hi, tombs |-> {},
          vecs |-> Merged(live_generation)], TRUE)

major_compaction ==
  /\ pc = "swept"
  /\ Cardinality(Deltas) >= MaxDeltas
  /\ Survivors # {}
  /\ Put([parent |-> 0, lo |-> 0, hi |-> CoveredHi(live_generation), tombs |-> {},
          vecs |-> Merged(live_generation)], TRUE)

\* Mutant: the trim takes the live generation's frontier.
LiveFrontier == CoveredHi(live_generation)

grace_watermark == CoveredHi(grace_generation)

Trim ==
  /\ pc = "trim"
  /\ \/ /\ recall' = [i \in Ids |-> IF recall[i].lsn <= grace_watermark THEN NoRow
                                                                      ELSE recall[i]]
        /\ UNCHANGED faults
     \/ /\ UNCHANGED recall
        /\ Fault
  /\ EndRun
  /\ UNCHANGED <<last_lsn, truth, catalogVars, readVars>>

\* A read, an upload or a commit raises, or the process dies: the lock is released
\* and what was uploaded but not committed is forgotten.
Abort ==
  /\ pc # "idle"
  /\ Fault
  /\ EndRun
  /\ UNCHANGED <<storeVars, catalogVars, readVars>>

-----------------------------------------------------------------------------
(* Queries *)

\* Membership, frontier and tombstones all come from one catalog list.
ResolveShard(r) ==
  /\ resolved[r] = {}
  /\ live_generation # {}
  /\ resolved' = [resolved EXCEPT ![r] = live_generation]
  /\ UNCHANGED <<storeVars, catalogVars, jobVars, scan, faults>>

\* Mutant: the frontier is that of the generation live at the scan.
SearchAboveLive(r) ==
  /\ resolved[r] # {} /\ ~ scan[r].done
  /\ scan' = [scan EXCEPT ![r] =
       [done |-> TRUE,
        timely |-> NewestBase \in resolved[r] \/ resolved[r] = grace_generation,
        rows |-> [i \in Ids |-> IF recall[i].lsn > frontier_watermark(live_generation)
                                THEN recall[i] ELSE NoRow],
        want |-> truth]]
  /\ UNCHANGED <<storeVars, catalogVars, jobVars, resolved, faults>>

\* The scan above the frontier of the resolved set.  The record also keeps whether
\* the resolved generation is whole: the newest one, or the prior one with every
\* delta it ever got.
RecallSearch(r) ==
  /\ resolved[r] # {} /\ ~ scan[r].done
  /\ scan' = [scan EXCEPT ![r] =
       [done |-> TRUE,
        timely |-> NewestBase \in resolved[r] \/ resolved[r] = grace_generation,
        rows |-> [i \in Ids |-> IF recall[i].lsn > frontier_watermark(resolved[r])
                                THEN recall[i] ELSE NoRow],
        want |-> truth]]
  /\ UNCHANGED <<storeVars, catalogVars, jobVars, resolved, faults>>

Respond(r) ==
  /\ scan[r].done
  /\ resolved' = [resolved EXCEPT ![r] = {}]
  /\ scan' = [scan EXCEPT ![r] = NoScan]
  /\ UNCHANGED <<storeVars, catalogVars, jobVars, faults>>

Answer(r, i, found, mapped) ==
  IF scan[r].rows[i].lsn > 0 THEN Version(scan[r].rows[i])
                             ELSE Searched(resolved[r], i, found, mapped)

-----------------------------------------------------------------------------

Write == \/ \E i \in Ids : recall_upsert_vectors(i)
         \/ \E i \in Deletable : recall_delete_vector(i)

Consolidate == \/ Snapshot \/ NothingToFold \/ BuildDeltaFold \/ CommitShard \/ Settle
               \/ SweepObjects \/ SweepRows \/ SkipCompaction \/ major_compaction \/ Trim

Read(r) == ResolveShard(r) \/ RecallSearch(r) \/ Respond(r)

Next == Write \/ Consolidate \/ Abort \/ \E r \in Readers : Read(r)

Spec == Init /\ [][Next]_vars

-----------------------------------------------------------------------------
(* Properties *)

\* Every variable stays in its domain; shard ordinals name uploads.
TypeOK ==
  /\ last_lsn \in Nat /\ row_count \in Nat /\ faults \in Nat
  /\ recall \in [Ids -> Row] /\ snap \in [Ids -> Row] /\ truth \in [Ids -> Nat]
  /\ shards \in Seq([parent : 0..Len(shards), lo : Nat, hi : Nat,
                     tombs : SUBSET Ids, vecs : [Ids -> Nat]])
  /\ objects \subseteq 1..Len(shards) /\ catalog \subseteq 1..Len(shards)
  /\ stale \subseteq 1..Len(shards) /\ upload \in 0..Len(shards)
  /\ pc \in {"idle", "snapped", "written", "committed", "settled", "sweeping",
             "swept", "trim"}
  /\ major \in BOOLEAN
  /\ resolved \in [Readers -> SUBSET (1..Len(shards))]
  /\ scan \in [Readers -> [done : BOOLEAN, timely : BOOLEAN,
                           rows : [Ids -> Row], want : [Ids -> Nat]]]

\* I1 for generations: each retained generation, merged the way a compaction would
\* merge it, together with the recall rows above its frontier is what the last
\* acknowledged writes left.  A compaction therefore neither drops nor
\* resurrects an id.
GenerationsHoldTruth ==
  \A S \in {live_generation, grace_generation} : Union(S, Merged(S)) = truth

\* A query of the current generation shows a deleted or an overwritten copy of an id
\* only if it missed a newer mention of it: a copy that its filter or its top_k cut
\* off, or a tombstone that no sidecar could translate.  A deleted id whose tombstone
\* was translated is never shown, whatever was missed: pooling can only hide.
NeverStale ==
  LET S == live_generation
  IN  \A i \in Ids : \A found \in SUBSET Holders(S, i) : \A mapped \in BOOLEAN :
        LET seen == Overridden(S, i, Searched(S, i, found, mapped))
        IN  /\ seen \in {0, truth[i]} \/ Missed(S, i, found, mapped)
            /\ mapped /\ truth[i] = 0 => seen = 0

\* The same of a query that resolved the newest generation, or the prior one after
\* its last delta, however folds, compactions, sweeps and trims overtake it.  It is
\* exact at every id none of its deltas deletes and none of its cuts took away.
TimelyAnswers ==
  \A r \in Readers : scan[r].done /\ scan[r].timely =>
    \A i \in Ids : \A found \in SUBSET Holders(resolved[r], i) : \A mapped \in BOOLEAN :
      LET answer == Answer(r, i, found, mapped)
          want   == scan[r].want[i]
      IN  /\ answer \in {0, want} \/ Missed(resolved[r], i, found, mapped)
          /\ mapped /\ want = 0 => answer = 0
          /\ Deleters(resolved[r], i) = {} /\ found = Holders(resolved[r], i) => answer = want

\* The sweep goes by generation: the objects of every shard of the two retained
\* generations are there, a live delta's base included.
RetainedReadable == live_generation \cup grace_generation \subseteq objects

\* The frontier of the live generation, which the catalogued shards determine, never
\* falls, across the cut-over of a major compaction included.
FrontierNeverRegresses ==
  [][\A new \in {live_generation'} :
       frontier_watermark(new)' >= frontier_watermark(live_generation)]_<<shards, catalog>>

\* _search_consolidated_shard: "It COMPOSES with tombstone suppression: a deleted id
\* is suppressed entirely; a re-upserted id keeps exactly its newest copy."
ReUpsertKeepsNewestCopy ==
  LET S == live_generation
  IN  \A i \in Ids : Overridden(S, i, Searched(S, i, Holders(S, i), TRUE)) = truth[i]

=============================================================================
