------------------------ MODULE IngestPipelineProofs ------------------------
(***************************************************************************)
(* Proofs about IngestPipeline, for any finite sets of uploads and ids,    *)
(* any number of validators and builders, any quota and number of faults.  *)
(*                                                                         *)
(* Everything rests on what only grows: the landing parts ever written,    *)
(* the manifest of the newest shard and the delete requests.  A message    *)
(* or a handler's place carries a claim about those, and repeating or      *)
(* reordering messages cannot falsify it.                                  *)
(***************************************************************************)
EXTENDS IngestPipeline, FiniteSetTheorems, WellFoundedInduction, TLAPS

HasPart(u) == \E p \in landed : p.up = u

\* An upload without records has no part.
Landed(u)  == Carries[u] # {} => HasPart(u)

\* A build of it has come to its commit, which may have been rolled back.
Indexed(u) == Carries[u] # {} => \E p \in Manifest \cup undone : p.up = u

CompletedIsBuilt == \A u \in Imports : job[u] = "completed" => Indexed(u)

\* A message waits, is held, or is in a handler's hands.
Present(m) == waiting[m] > 0 \/ held[m] > 0 \/ \E w \in Workers : msg[w] = m

\* The build of an upload is asked for when it has landed; a delete is carried out
\* only when a client has asked for it.
Sound(m) == /\ m[1] = "DATASET_READY" => Landed(m[2])
            /\ m[1] = "DELETE_VECTORS" => deletes[m[2]] # "none"

MessagesSound == \A m \in Messages : Present(m) => Sound(m)

DataType ==
  /\ job \in [Uploads -> {"none", "awaiting_upload", "validating", "indexing",
                          "completed", "failed"}]
  /\ staged \subseteq Uploads
  /\ waiting \in [Messages -> Nat] /\ held \in [Messages -> Nat]
  /\ parts \subseteq landed
  /\ landed \subseteq Parts /\ IsFiniteSet(landed)
  /\ newest \in Shards \cup {None}
  /\ Manifest \subseteq landed /\ undone \subseteq landed
  /\ deletes \in [Deletable -> {"none", "published", "answered"}]

WorkType ==
  /\ pc \in [Workers -> Labels]
  /\ msg \in [Workers -> Messages \cup {None}]
  /\ scan \in [Builders -> SUBSET landed]

RestType ==
  /\ row_count \in Nat /\ faults \in Nat
  /\ status \in {"empty", "validating", "indexing", "indexed", "error"}
  /\ lock \in Builders \cup {None}

Validating == {"counting", "marking", "flipping", "publishing"}

\* What a validator's place says about its upload.
ValidatorOK(v) ==
  /\ pc[v] = "idle" <=> msg[v] = None
  /\ pc[v] # "idle" => msg[v] \in {"VALIDATE_DATASET"} \X Uploads
  /\ pc[v] = "settling" => Upload(v) \in Imports
  /\ pc[v] = "landing" /\ Kind[Upload(v)] = "post" => Upload(v) \in staged
  /\ pc[v] \in Validating => Landed(Upload(v))

Building == {"scan", "build", "sweep", "finalize", "failed_build", "completing"}

\* What a builder's place says about the upload or the id it works for.
BuilderOK(b) ==
  /\ pc[b] = "idle" <=> msg[b] = None
  /\ pc[b] # "idle" => msg[b] \in ({"DATASET_READY"} \X Uploads)
                                    \cup ({"DELETE_VECTORS"} \X Deletable)
  /\ pc[b] \in Building => msg[b] \in {"DATASET_READY"} \X Uploads
  /\ pc[b] = "delete" => msg[b] \in {"DELETE_VECTORS"} \X Deletable
  /\ pc[b] = "build" => (Carries[Upload(b)] # {} =>
                           \E p \in Manifest \cup scan[b] : p.up = Upload(b))
  /\ pc[b] \in {"sweep", "finalize", "completing"} => Indexed(Upload(b))
  /\ pc[b] \in {"settle", "undone"} /\ msg[b][1] = "DATASET_READY" => Indexed(Upload(b))

WorkersOK == /\ \A v \in Validators : ValidatorOK(v)
             /\ \A b \in Builders : BuilderOK(b)

\* Only an import has a job to upload for.
AwaitedAreImports == \A u \in Uploads : job[u] = "awaiting_upload" => u \in Imports

\* The uploads that are paid for: those that have landed, the posted batches that are
\* stored, and what a validator is about to land.
Paid == {u \in Uploads : \/ HasPart(u)
                         \/ Kind[u] = "post" /\ u \in staged
                         \/ \E v \in Validators : pc[v] = "landing" /\ Upload(v) = u}

\* The records of a set of uploads.
Records(U) == {c \in U \X Ids : c[2] \in Carries[c[1]]}

PaidInv == /\ vectors_used \in Nat
           /\ vectors_used <= VectorQuota
           /\ Cardinality(Records(Paid)) <= vectors_used

IngestInv == /\ DataType /\ WorkType /\ RestType
             /\ MessagesSound /\ WorkersOK
             /\ PaidInv /\ AwaitedAreImports
             /\ CompletedIsBuilt /\ NoUploadLost /\ ShardMatchesManifest

-----------------------------------------------------------------------------
(* Counting *)

\* An upload has finitely many records.
LEMMA RowsAreCounted ==
  ASSUME NEW u \in Uploads
  PROVE  Rows(u) \in Nat /\ IsFiniteSet(Carries[u])
  BY PipelineAssumption, FS_Subset, FS_CardinalityType DEF Rows

\* Uploads have finitely many records between them.
LEMMA RecordsAreFinite ==
  ASSUME NEW U \in SUBSET Uploads
  PROVE  IsFiniteSet(Records(U)) /\ Cardinality(Records(U)) \in Nat
<1>1. IsFiniteSet(U) /\ IsFiniteSet(Ids)
  BY PipelineAssumption, FS_Subset
<1>2. IsFiniteSet(U \X Ids)
  BY <1>1, FS_Product
<1>3. Records(U) \in SUBSET (U \X Ids)
  BY DEF Records
<1> QED BY <1>2, <1>3, FS_Subset, FS_CardinalityType

\* One more upload brings at most its rows.
LEMMA OneMoreUpload ==
  ASSUME NEW U \in SUBSET Uploads, NEW u \in Uploads, NEW V \in SUBSET (U \cup {u})
  PROVE  Cardinality(Records(V)) <= Cardinality(Records(U)) + Rows(u)
<1> DEFINE R == {u} \X Carries[u]
<1>1. IsFiniteSet(R) /\ Cardinality(R) = Rows(u) /\ Rows(u) \in Nat
  <2>1. IsFiniteSet({u}) /\ Cardinality({u}) = 1
    BY FS_Singleton
  <2>2. IsFiniteSet(R) /\ Cardinality(R) = 1 * Cardinality(Carries[u])
    BY <2>1, RowsAreCounted, FS_Product
  <2>3. Cardinality(Carries[u]) \in Nat
    BY RowsAreCounted, FS_CardinalityType
  <2> QED BY <2>2, <2>3 DEF Rows
<1>2. Records(V) \in SUBSET (Records(U) \cup R)
  BY DEF Records
<1>3. IsFiniteSet(Records(U)) /\ Cardinality(Records(U)) \in Nat
  BY RecordsAreFinite
<1> HIDE DEF R
<1>4. /\ IsFiniteSet(Records(U) \cup R)
      /\ Cardinality(Records(U) \cup R)
           = Cardinality(Records(U)) + Cardinality(R) - Cardinality(Records(U) \cap R)
  BY <1>1, <1>3, FS_Union
<1>5. Cardinality(Records(U) \cap R) \in Nat
  <2>1. Records(U) \cap R \in SUBSET R
    OBVIOUS
  <2> QED BY <2>1, <1>1, FS_Subset, FS_CardinalityType
<1>6. Cardinality(Records(V)) <= Cardinality(Records(U) \cup R)
  BY <1>2, <1>4, FS_Subset
<1>7. Cardinality(Records(V)) \in Nat
  <2>1. V \in SUBSET Uploads
    OBVIOUS
  <2> QED BY <2>1, RecordsAreFinite
<1> QED BY <1>1, <1>3, <1>4, <1>5, <1>6, <1>7

\* Fewer uploads have no more records.
LEMMA FewerRecords ==
  ASSUME NEW U \in SUBSET Uploads, NEW V \in SUBSET U
  PROVE  Cardinality(Records(V)) <= Cardinality(Records(U))
<1>1. Records(V) \in SUBSET Records(U)
  BY DEF Records
<1> QED BY <1>1, RecordsAreFinite, FS_Subset

\* A non-empty set of naturals has a least member.
LEMMA LeastNat ==
  ASSUME NEW T, T \subseteq Nat, T # {}
  PROVE  \E m \in T : \A k \in T : m <= k
<1>1. PICK m \in T : \A k \in T : ~ (<<k, m>> \in OpToRel(<, Nat))
  BY ONLY T \subseteq Nat, T # {}, WFMin, NatLessThanWellFounded, Zenon
<1>2. \A k \in T : ~ (k < m)
  BY <1>1 DEF OpToRel
<1> QED BY <1>2

\* Of some parts in an order one is the last.
LEMMA OneIsLast ==
  ASSUME NEW C, C # {}, NEW N \in Nat, NEW order, \A p \in C : order[p] \in 1..N
  PROVE  \E p \in C : \A q \in C : order[q] <= order[p]
<1> DEFINE D == {N - order[p] : p \in C}
<1>1. D \subseteq Nat /\ D # {}
  OBVIOUS
<1> HIDE DEF D
<1>2. PICK d \in D : \A e \in D : d <= e
  BY <1>1, LeastNat
<1>3. PICK p \in C : d = N - order[p]
  BY <1>2 DEF D
<1>4. \A q \in C : order[q] <= order[p]
  <2> SUFFICES ASSUME NEW q \in C PROVE order[q] <= order[p] OBVIOUS
  <2>1. N - order[p] <= N - order[q]
    BY <1>2, <1>3 DEF D
  <2> QED BY <2>1
<1> QED BY <1>4

\* What the fold puts under an id: the vector of one of its new carriers, or what was
\* there before.
LEMMA FoldedIs ==
  ASSUME DataType, NEW new \in SUBSET landed, NEW order \in Orders(new), NEW x \in Ids
  PROVE  IF Carriers(new, x) = {} THEN Folded(new, order)[x] = Vectors[x]
         ELSE \E p \in Carriers(new, x) : Folded(new, order)[x] = p.up
<1>1. CASE Carriers(new, x) = {}
  BY <1>1 DEF Folded
<1>2. CASE Carriers(new, x) # {}
  <2>1. IsFiniteSet(new) /\ Cardinality(new) \in Nat
    BY FS_Subset, FS_CardinalityType DEF DataType
  <2>2. \A p \in Carriers(new, x) : order[p] \in 1..Cardinality(new)
    BY DEF Carriers, Orders
  <2>3. \E p \in Carriers(new, x) : \A q \in Carriers(new, x) : order[q] <= order[p]
    BY <2>1, <2>2, <1>2, OneIsLast
  <2> DEFINE Last == CHOOSE p \in Carriers(new, x) :
                       \A q \in Carriers(new, x) : order[q] <= order[p]
  <2>4. Last \in Carriers(new, x)
    BY <2>3
  <2>5. Folded(new, order)[x] = Last.up
    BY <1>2 DEF Folded
  <2> QED BY <2>4, <2>5, <1>2
<1> QED BY <1>1, <1>2

\* The newest shard holds uploads and names parts.
LEMMA VectorsType ==
  ASSUME DataType
  PROVE  Vectors \in [Ids -> Uploads \cup {None}] /\ Manifest \in SUBSET Parts
  BY DEF DataType, Vectors, Manifest, Shards

\* The row count is set to a number of ids.
LEMMA WrittenIsCounted ==
  ASSUME NEW b
  PROVE  Cardinality(Written(b)) \in Nat
<1>1. Written(b) \in SUBSET Ids
  BY DEF Written
<1> QED BY <1>1, PipelineAssumption, FS_Subset, FS_CardinalityType

-----------------------------------------------------------------------------
(* What only grows *)

Grows == /\ landed \subseteq landed' /\ Manifest \subseteq Manifest'
         /\ undone \subseteq undone'
         /\ \A x \in Deletable : deletes[x] # "none" => deletes'[x] # "none"
         /\ \A u \in Uploads : Kind[u] = "post" /\ u \in staged => u \in staged'

\* The steps that write neither a part nor a shard.
LEMMA DataStays ==
  ASSUME DataType, landed' = landed, newest' = newest, undone' = undone,
         parts' \subseteq parts,
         job' \in [Uploads -> {"none", "awaiting_upload", "validating", "indexing",
                              "completed", "failed"}],
         staged' \subseteq Uploads,
         waiting' \in [Messages -> Nat], held' \in [Messages -> Nat],
         deletes' \in [Deletable -> {"none", "published", "answered"}],
         \A x \in Deletable : deletes[x] # "none" => deletes'[x] # "none",
         \A u \in Uploads : Kind[u] = "post" /\ u \in staged => u \in staged'
  PROVE  DataType' /\ Grows
  BY DEF DataType, Grows, Manifest

\* A validator writes a part.
LEMMA DataLand ==
  ASSUME DataType, WorkType, WorkersOK, NEW v \in Validators, Land(v)
  PROVE  DataType' /\ Grows
<1>1. Upload(v) \in Uploads
  BY DEF WorkersOK, ValidatorOK, Land, At, Upload
<1>2. NewPart(Upload(v)) \in Parts
  <2>1. {p \in landed : p.up = Upload(v)} \in SUBSET landed
    OBVIOUS
  <2>2. Cardinality({p \in landed : p.up = Upload(v)}) \in Nat
    BY <2>1, FS_Subset, FS_CardinalityType DEF DataType
  <2> QED BY <1>1, <2>2 DEF NewPart, Parts
<1>3. IsFiniteSet(landed')
  BY FS_AddElement DEF Land, DataType
<1>4. landed \subseteq landed' /\ parts' \subseteq landed' /\ landed' \subseteq Parts
  BY <1>2 DEF Land, DataType
<1>5. UNCHANGED <<job, staged, waiting, held, newest, undone, deletes>>
  BY DEF Land, queueVars, shardVars
<1> QED BY <1>3, <1>4, <1>5 DEF DataType, Grows, Manifest

\* The shard a builder has written is committed.
Committed(b) ==
  /\ undone' = undone
  /\ \E order \in Orders(scan[b]) :
       newest' = [vecs |-> Folded(scan[b], order), manifest |-> Manifest \cup scan[b]]

\* A commit is one or was rolled back.
LEMMA CommitCases ==
  ASSUME NEW b \in Builders, CommitBuild(b)
  PROVE  /\ pc[b] = "build"
         /\ \/ Committed(b) /\ pc' = [pc EXCEPT ![b] = "settle"]
            \/ /\ newest' = newest /\ undone' = undone \cup scan[b]
               /\ pc' = [pc EXCEPT ![b] = "undone"]
         /\ UNCHANGED <<job, staged, waiting, held, parts, landed, msg, deletes>>
  BY DEF CommitBuild, RolledBack, Committed, At, queueVars

\* A committed shard joins the newest one and the parts of the build.
LEMMA CommittedShard ==
  ASSUME DataType, WorkType, NEW b \in Builders, Committed(b)
  PROVE  newest' \in Shards /\ Manifest' = Manifest \cup scan[b]
<1>1. PICK order \in Orders(scan[b]) :
        newest' = [vecs |-> Folded(scan[b], order), manifest |-> Manifest \cup scan[b]]
  BY DEF Committed
<1>2. scan[b] \in SUBSET landed
  BY DEF WorkType
<1>3. \A x \in Ids : Folded(scan[b], order)[x] \in Uploads \cup {None}
  <2> SUFFICES ASSUME NEW x \in Ids PROVE Folded(scan[b], order)[x] \in Uploads \cup {None}
    OBVIOUS
  <2>1. IF Carriers(scan[b], x) = {} THEN Folded(scan[b], order)[x] = Vectors[x]
        ELSE \E p \in Carriers(scan[b], x) : Folded(scan[b], order)[x] = p.up
    BY <1>2, FoldedIs
  <2>2. \A p \in Carriers(scan[b], x) : p.up \in Uploads
    BY <1>2 DEF Carriers, DataType, Parts
  <2> QED BY <2>1, <2>2, VectorsType
<1>4. Folded(scan[b], order) \in [Ids -> Uploads \cup {None}]
  BY <1>3 DEF Folded
<1>5. Manifest \cup scan[b] \in SUBSET Parts
  BY <1>2 DEF DataType
<1>6. newest' \in Shards
  BY <1>1, <1>4, <1>5 DEF Shards
<1>7. Manifest' = Manifest \cup scan[b]
  BY <1>6, <1>1, NoneAssumption DEF Manifest
<1> QED BY <1>6, <1>7

\* A builder writes a shard, whose row stays or not.
LEMMA DataCommit ==
  ASSUME DataType, WorkType, NEW b \in Builders, CommitBuild(b)
  PROVE  DataType' /\ Grows /\ scan[b] \subseteq (Manifest \cup undone)'
<1>1. scan[b] \in SUBSET landed
  BY DEF WorkType
<1>2. CASE Committed(b)
  <2>1. newest' \in Shards /\ Manifest' = Manifest \cup scan[b] /\ undone' = undone
    BY <1>2, CommittedShard DEF Committed
  <2> QED BY <1>1, <2>1, CommitCases DEF DataType, Grows
<1>3. CASE newest' = newest /\ undone' = undone \cup scan[b]
  <2>1. Manifest' = Manifest
    BY <1>3 DEF Manifest
  <2> QED BY <1>1, <1>3, <2>1, CommitCases DEF DataType, Grows
<1> QED BY <1>2, <1>3, CommitCases

\* A delete takes one id out of the newest shard, or leaves it.
LEMMA DataDelete ==
  ASSUME DataType, NEW b \in Builders, run_delete_once(b)
  PROVE  DataType' /\ Grows /\ Manifest' = Manifest
<1>1. /\ UNCHANGED <<job, staged, waiting, held, parts, landed, deletes>>
      /\ undone \subseteq undone' /\ undone' \subseteq undone
      /\ \/ newest' = newest
         \/ newest # None /\ newest' = [newest EXCEPT !.vecs[msg[b][2]] = None]
  BY DEF run_delete_once, RolledBack, queueVars
<1>2. CASE newest' = newest
  BY <1>1, <1>2 DEF DataType, Grows, Manifest
<1>3. CASE newest # None /\ newest' = [newest EXCEPT !.vecs[msg[b][2]] = None]
  <2>1. newest \in Shards
    BY <1>3 DEF DataType
  <2>2. newest' \in Shards /\ newest'.manifest = newest.manifest
    BY <1>3, <2>1 DEF Shards
  <2>3. Manifest' = Manifest
    BY <2>2, <1>3, NoneAssumption DEF Manifest
  <2> QED BY <1>1, <2>2, <2>3 DEF DataType, Grows
<1> QED BY <1>1, <1>2, <1>3

\* A published message is one more waiting.
LEMMA PublishType ==
  ASSUME DataType, NEW m, publish(m)
  PROVE  waiting' \in [Messages -> Nat]
<1>1. \A k \in Messages : waiting[k] \in Nat /\ waiting'[k] \in {waiting[k], waiting[k] + 1}
  BY DEF DataType, publish
<1>2. waiting' = [k \in Messages |-> waiting'[k]]
  BY DEF DataType, publish
<1> QED BY <1>1, <1>2

\* No step loses a part, a manifest entry or a delete request.
LEMMA DataStep ==
  ASSUME DataType, WorkType, WorkersOK, [Next]_vars
  PROVE  DataType' /\ Grows
<1>1. ASSUME NEW u \in Uploads, create_import(u) PROVE DataType' /\ Grows
  BY <1>1, DataStays DEF DataType, create_import, queueVars, shardVars
<1>2. ASSUME NEW u \in Uploads, PutUpload(u) PROVE DataType' /\ Grows
  BY <1>2, DataStays DEF DataType, PutUpload, queueVars, shardVars
<1>3. ASSUME NEW u \in Uploads, complete_import(u) PROVE DataType' /\ Grows
  <2>1. waiting' \in [Messages -> Nat]
    BY <1>3, PublishType DEF complete_import
  <2> QED BY <1>3, <2>1, DataStays DEF shardVars, DataType, complete_import
<1>4. ASSUME NEW u \in Uploads, post_vectors(u) PROVE DataType' /\ Grows
  BY <1>4, DataStays DEF DataType, post_vectors, queueVars, shardVars, publish, Imports
<1>5. ASSUME NEW x \in Deletable, delete_vector_endpoint(x) PROVE DataType' /\ Grows
  <2>1. waiting' \in [Messages -> Nat]
    BY <1>5, PublishType DEF delete_vector_endpoint
  <2> QED BY <1>5, <2>1, DataStays DEF shardVars, DataType, delete_vector_endpoint
<1>6. ASSUME NEW x \in Deletable, FlipStatus(x) PROVE DataType' /\ Grows
  BY <1>6, DataStays DEF DataType, FlipStatus, queueVars, shardVars
<1>7. ASSUME NEW v \in Validators, TakeUpload(v) PROVE DataType' /\ Grows
  BY <1>7, DataStays DEF DataType, TakeUpload, queueVars, shardVars, Take, Messages
<1>8. ASSUME NEW v \in Validators, Begin(v) PROVE DataType' /\ Grows
  BY <1>8, DataStays DEF DataType, Begin, queueVars, shardVars
<1>9. ASSUME NEW v \in Validators, Validate(v) PROVE DataType' /\ Grows
  BY <1>9, DataStays DEF DataType, Validate, queueVars, shardVars
<1>10. ASSUME NEW v \in Validators, ValidateRejects(v) PROVE DataType' /\ Grows
  BY <1>10, DataStays DEF DataType, ValidateRejects, queueVars, shardVars, Reject, Imports
<1>11. ASSUME NEW v \in Validators, SettleQuota(v) PROVE DataType' /\ Grows
  BY <1>11, DataStays DEF DataType, SettleQuota, queueVars, shardVars
<1>12. ASSUME NEW v \in Validators, OverQuota(v) PROVE DataType' /\ Grows
  BY <1>12, DataStays DEF DataType, OverQuota, queueVars, shardVars, Reject, Imports
<1>13. ASSUME NEW v \in Validators, Land(v) PROVE DataType' /\ Grows
  BY <1>13, DataLand
<1>14. ASSUME NEW v \in Validators, increment_row_count(v) PROVE DataType' /\ Grows
  BY <1>14, DataStays DEF DataType, increment_row_count, queueVars, shardVars
<1>15. ASSUME NEW v \in Validators, MarkJob(v) PROVE DataType' /\ Grows
  BY <1>15, DataStays DEF DataType, MarkJob, queueVars, shardVars, At
<1>16. ASSUME NEW v \in Validators, MarkDataset(v) PROVE DataType' /\ Grows
  BY <1>16, DataStays DEF DataType, MarkDataset, queueVars, shardVars
<1>17. ASSUME NEW v \in Validators, Announce(v) PROVE DataType' /\ Grows
  BY <1>17, DataStays DEF DataType, Announce, queueVars, shardVars, publish, At
<1>18. ASSUME NEW v \in Validators, StorageFails(v) PROVE DataType' /\ Grows
  BY <1>18, DataStays DEF DataType, StorageFails, queueVars, shardVars, Reject, Imports
<1>19. ASSUME NEW v \in Validators, ValidatorRaises(v) PROVE DataType' /\ Grows
  BY <1>19, DataStays DEF DataType, ValidatorRaises, queueVars, shardVars
<1>20. ASSUME NEW b \in Builders, TakeBuild(b) PROVE DataType' /\ Grows
  BY <1>20, DataStays DEF DataType, TakeBuild, queueVars, shardVars, Take, Messages
<1>21. ASSUME NEW b \in Builders, Scan(b) PROVE DataType' /\ Grows
  BY <1>21, DataStays DEF DataType, Scan, queueVars, shardVars
<1>22. ASSUME NEW b \in Builders, CommitBuild(b) PROVE DataType' /\ Grows
  BY <1>22, DataCommit
<1>23. ASSUME NEW b \in Builders, run_delete_once(b) PROVE DataType' /\ Grows
  BY <1>23, DataDelete
<1>24. ASSUME NEW b \in Builders, SettleBuild(b) PROVE DataType' /\ Grows
  BY <1>24, DataStays DEF DataType, SettleBuild, queueVars, shardVars
<1>25. ASSUME NEW b \in Builders, sweep_indexed_landing(b) PROVE DataType' /\ Grows
  BY <1>25, DataStays DEF DataType, sweep_indexed_landing, queueVars, shardVars, Imports
<1>26. ASSUME NEW b \in Builders, Finalize(b) PROVE DataType' /\ Grows
  BY <1>26, DataStays DEF DataType, Finalize, queueVars, shardVars
<1>27. ASSUME NEW b \in Builders, CompleteJob(b) PROVE DataType' /\ Grows
  BY <1>27, DataStays DEF DataType, CompleteJob, queueVars, shardVars, At
<1>28. ASSUME NEW b \in Builders, BuildFails(b) PROVE DataType' /\ Grows
  BY <1>28, DataStays DEF DataType, BuildFails, queueVars, shardVars
<1>29. ASSUME NEW b \in Builders, BuildRaises(b) PROVE DataType' /\ Grows
  BY <1>29, DataStays DEF DataType, BuildRaises, queueVars, shardVars
<1>30. ASSUME NEW w \in Workers, FailJob(w) PROVE DataType' /\ Grows
  BY <1>30, DataStays DEF DataType, FailJob, queueVars, shardVars, At
<1>31. ASSUME NEW w \in Workers, ack(w) PROVE DataType' /\ Grows
  <2>1. waiting' \in [Messages -> Nat] /\ held' \in [Messages -> Nat]
    <3>1. \A m \in Messages : /\ waiting[m] \in Nat /\ held[m] \in Nat
                              /\ waiting'[m] \in {waiting[m], waiting[m] + 1}
                              /\ held'[m] \in {held[m], IF held[m] > 0 THEN held[m] - 1 ELSE 0}
      BY <1>31 DEF DataType, ack
    <3>2. waiting' = [m \in Messages |-> waiting'[m]] /\ held' = [m \in Messages |-> held'[m]]
      BY <1>31 DEF DataType, ack
    <3> QED BY <3>1, <3>2
  <2> QED BY <1>31, <2>1, DataStays DEF DataType, ack, queueVars, shardVars, At
<1>32. ASSUME NEW w \in Workers, nack(w) PROVE DataType' /\ Grows
  <2>1. waiting' \in [Messages -> Nat] /\ held' \in [Messages -> Nat]
    <3>1. \A m \in Messages : /\ waiting[m] \in Nat /\ held[m] \in Nat
                              /\ waiting'[m] \in {waiting[m], waiting[m] + 1}
                              /\ held'[m] \in {held[m], IF held[m] > 0 THEN held[m] - 1 ELSE 0}
      BY <1>32 DEF DataType, nack
    <3>2. waiting' = [m \in Messages |-> waiting'[m]] /\ held' = [m \in Messages |-> held'[m]]
      BY <1>32 DEF DataType, nack
    <3> QED BY <3>1, <3>2
  <2> QED BY <1>32, <2>1, DataStays DEF DataType, nack, queueVars, shardVars, At
<1>33. ASSUME NEW w \in Workers, Crash(w) PROVE DataType' /\ Grows
  BY <1>33, DataStays DEF DataType, Crash, queueVars, shardVars
<1>34. ASSUME NEW m \in Messages, Reclaim(m) PROVE DataType' /\ Grows
  BY <1>34, DataStays DEF DataType, Reclaim, queueVars, shardVars, publish
<1>35. ASSUME fail_dataset_if_stale PROVE DataType' /\ Grows
  BY <1>35, DataStays DEF DataType, fail_dataset_if_stale, queueVars, shardVars
<1>36. ASSUME UNCHANGED vars PROVE DataType' /\ Grows
  BY <1>36, DataStays DEF DataType, vars, queueVars, shardVars
<1>37. ASSUME NEW b \in Builders, FinalizeRaises(b) PROVE DataType' /\ Grows
  BY <1>37, DataStays DEF DataType, FinalizeRaises, queueVars, shardVars
<1> QED
  BY <1>1, <1>2, <1>3, <1>4, <1>5, <1>6, <1>7, <1>8, <1>9, <1>10, <1>11, <1>12,
     <1>13, <1>14, <1>15, <1>16, <1>17, <1>18, <1>19, <1>20, <1>21, <1>22, <1>23, <1>24,
     <1>25, <1>26, <1>27, <1>28, <1>29, <1>30, <1>31, <1>32, <1>33, <1>34, <1>35, <1>36, <1>37
     DEF Next, Client, ValidatorStep, BuilderStep, Workers

\* Every step keeps the types of the handlers' state.
LEMMA WorkStep ==
  ASSUME DataType, WorkType, RestType, WorkersOK, Grows, [Next]_vars
  PROVE  WorkType' /\ RestType'
<1>0. /\ landed \subseteq landed' /\ faults \in Nat /\ MaxFaults \in Nat
      /\ \A b \in Builders : scan[b] \in SUBSET landed'
  BY PipelineAssumption DEF Grows, WorkType, RestType
<1>1. ASSUME NEW u \in Uploads, create_import(u) PROVE WorkType' /\ RestType'
  BY <1>0, <1>1 DEF WorkType, RestType, Labels, Workers, create_import, datasetVars
<1>2. ASSUME NEW u \in Uploads, PutUpload(u) PROVE WorkType' /\ RestType'
  BY <1>0, <1>2 DEF WorkType, RestType, Labels, Workers, PutUpload, datasetVars
<1>3. ASSUME NEW u \in Uploads, complete_import(u) PROVE WorkType' /\ RestType'
  BY <1>0, <1>3 DEF WorkType, RestType, Labels, Workers, complete_import, Fault, datasetVars
<1>4. ASSUME NEW u \in Uploads, post_vectors(u) PROVE WorkType' /\ RestType'
  BY <1>0, <1>4 DEF WorkType, RestType, Labels, Workers, post_vectors, Fault, datasetVars
<1>5. ASSUME NEW x \in Deletable, delete_vector_endpoint(x) PROVE WorkType' /\ RestType'
  BY <1>0, <1>5 DEF WorkType, RestType, Labels, Workers, delete_vector_endpoint, datasetVars
<1>6. ASSUME NEW x \in Deletable, FlipStatus(x) PROVE WorkType' /\ RestType'
  BY <1>0, <1>6 DEF WorkType, RestType, Labels, Workers, FlipStatus, datasetVars
<1>7. ASSUME NEW v \in Validators, TakeUpload(v) PROVE WorkType' /\ RestType'
  BY <1>0, <1>7 DEF WorkType, RestType, Labels, Workers, TakeUpload, Take, Messages, datasetVars
<1>8. ASSUME NEW v \in Validators, Begin(v) PROVE WorkType' /\ RestType'
  BY <1>0, <1>8 DEF WorkType, RestType, Labels, Workers, Begin, At, datasetVars
<1>9. ASSUME NEW v \in Validators, Validate(v) PROVE WorkType' /\ RestType'
  BY <1>0, <1>9 DEF WorkType, RestType, Labels, Workers, Validate, At, datasetVars
<1>10. ASSUME NEW v \in Validators, ValidateRejects(v) PROVE WorkType' /\ RestType'
  BY <1>0, <1>10 DEF WorkType, RestType, Labels, Workers, ValidateRejects, Reject, datasetVars
<1>11. ASSUME NEW v \in Validators, SettleQuota(v) PROVE WorkType' /\ RestType'
  BY <1>0, <1>11 DEF WorkType, RestType, Labels, Workers, SettleQuota, At, datasetVars
<1>12. ASSUME NEW v \in Validators, OverQuota(v) PROVE WorkType' /\ RestType'
  BY <1>0, <1>12 DEF WorkType, RestType, Labels, Workers, OverQuota, Reject, datasetVars
<1>13. ASSUME NEW v \in Validators, Land(v) PROVE WorkType' /\ RestType'
  BY <1>0, <1>13 DEF WorkType, RestType, Labels, Workers, Land, At, datasetVars
<1>14. ASSUME NEW v \in Validators, increment_row_count(v) PROVE WorkType' /\ RestType'
  <2>1. Upload(v) \in Uploads
    BY <1>14 DEF WorkersOK, ValidatorOK, increment_row_count, At, Upload
  <2>2. row_count' \in Nat
    BY <1>14, <2>1, RowsAreCounted DEF increment_row_count, RestType
  <2> QED BY <1>0, <1>14, <2>2 DEF WorkType, RestType, Labels, Workers, increment_row_count, At
<1>15. ASSUME NEW v \in Validators, MarkJob(v) PROVE WorkType' /\ RestType'
  BY <1>0, <1>15 DEF WorkType, RestType, Labels, Workers, MarkJob, At, datasetVars
<1>16. ASSUME NEW v \in Validators, MarkDataset(v) PROVE WorkType' /\ RestType'
  BY <1>0, <1>16 DEF WorkType, RestType, Labels, Workers, MarkDataset, At, datasetVars
<1>17. ASSUME NEW v \in Validators, Announce(v) PROVE WorkType' /\ RestType'
  BY <1>0, <1>17 DEF WorkType, RestType, Labels, Workers, Announce, At, datasetVars
<1>18. ASSUME NEW v \in Validators, StorageFails(v) PROVE WorkType' /\ RestType'
  BY <1>0, <1>18 DEF WorkType, RestType, Labels, Workers, StorageFails, Reject, Fault, datasetVars
<1>19. ASSUME NEW v \in Validators, ValidatorRaises(v) PROVE WorkType' /\ RestType'
  BY <1>0, <1>19 DEF WorkType, RestType, Labels, Workers, ValidatorRaises, Fault, datasetVars
<1>20. ASSUME NEW b \in Builders, TakeBuild(b) PROVE WorkType' /\ RestType'
  BY <1>0, <1>20 DEF WorkType, RestType, Labels, Workers, TakeBuild, Take, Messages, datasetVars
<1>21. ASSUME NEW b \in Builders, Scan(b) PROVE WorkType' /\ RestType'
  BY <1>0, <1>21 DEF WorkType, RestType, Labels, Workers, Scan, At, datasetVars, DataType
<1>22. ASSUME NEW b \in Builders, CommitBuild(b) PROVE WorkType' /\ RestType'
  BY <1>0, <1>22 DEF WorkType, RestType, Labels, Workers, CommitBuild, RolledBack, Fault, At, datasetVars
<1>23. ASSUME NEW b \in Builders, run_delete_once(b) PROVE WorkType' /\ RestType'
  BY <1>0, <1>23 DEF WorkType, RestType, Labels, Workers, run_delete_once, RolledBack, Fault, At, datasetVars
<1>24. ASSUME NEW b \in Builders, SettleBuild(b) PROVE WorkType' /\ RestType'
  BY <1>0, <1>24, WrittenIsCounted DEF WorkType, RestType, Labels, Workers, SettleBuild, At, datasetVars
<1>25. ASSUME NEW b \in Builders, sweep_indexed_landing(b) PROVE WorkType' /\ RestType'
  BY <1>0, <1>25 DEF WorkType, RestType, Labels, Workers, sweep_indexed_landing, At, Fault, datasetVars
<1>26. ASSUME NEW b \in Builders, Finalize(b) PROVE WorkType' /\ RestType'
  BY <1>0, <1>26 DEF WorkType, RestType, Labels, Workers, Finalize, datasetVars
<1>27. ASSUME NEW b \in Builders, CompleteJob(b) PROVE WorkType' /\ RestType'
  BY <1>0, <1>27 DEF WorkType, RestType, Labels, Workers, CompleteJob, At, datasetVars
<1>28. ASSUME NEW b \in Builders, BuildFails(b) PROVE WorkType' /\ RestType'
  BY <1>0, <1>28 DEF WorkType, RestType, Labels, Workers, BuildFails, Fault, datasetVars
<1>29. ASSUME NEW b \in Builders, BuildRaises(b) PROVE WorkType' /\ RestType'
  BY <1>0, <1>29 DEF WorkType, RestType, Labels, Workers, BuildRaises, Fault, datasetVars
<1>30. ASSUME NEW w \in Workers, FailJob(w) PROVE WorkType' /\ RestType'
  BY <1>0, <1>30 DEF WorkType, RestType, Labels, Workers, FailJob, At, datasetVars
<1>31. ASSUME NEW w \in Workers, ack(w) PROVE WorkType' /\ RestType'
  BY <1>0, <1>31 DEF WorkType, RestType, Labels, Workers, ack, At, datasetVars
<1>32. ASSUME NEW w \in Workers, nack(w) PROVE WorkType' /\ RestType'
  BY <1>0, <1>32 DEF WorkType, RestType, Labels, Workers, nack, At, datasetVars
<1>33. ASSUME NEW w \in Workers, Crash(w) PROVE WorkType' /\ RestType'
  BY <1>0, <1>33 DEF WorkType, RestType, Labels, Workers, Crash, Fault, datasetVars
<1>34. ASSUME NEW m \in Messages, Reclaim(m) PROVE WorkType' /\ RestType'
  BY <1>0, <1>34 DEF WorkType, RestType, Labels, Workers, Reclaim, Fault, datasetVars
<1>35. ASSUME fail_dataset_if_stale PROVE WorkType' /\ RestType'
  BY <1>0, <1>35 DEF WorkType, RestType, Labels, Workers, fail_dataset_if_stale, Fault, datasetVars
<1>36. ASSUME UNCHANGED vars PROVE WorkType' /\ RestType'
  BY <1>0, <1>36 DEF WorkType, RestType, Labels, Workers, vars, datasetVars
<1>37. ASSUME NEW b \in Builders, FinalizeRaises(b) PROVE WorkType' /\ RestType'
  BY <1>0, <1>37 DEF WorkType, RestType, Labels, Workers, FinalizeRaises, Fault, datasetVars
<1> QED
  BY <1>1, <1>2, <1>3, <1>4, <1>5, <1>6, <1>7, <1>8, <1>9, <1>10, <1>11, <1>12,
     <1>13, <1>14, <1>15, <1>16, <1>17, <1>18, <1>19, <1>20, <1>21, <1>22, <1>23, <1>24,
     <1>25, <1>26, <1>27, <1>28, <1>29, <1>30, <1>31, <1>32, <1>33, <1>34, <1>35, <1>36, <1>37
     DEF Next, Client, ValidatorStep, BuilderStep, Workers

-----------------------------------------------------------------------------
(* Messages and handlers *)

\* A message's claim stays true, since what it claims about only grows.
LEMMA SoundStays ==
  ASSUME NEW m \in Messages, Sound(m), Grows
  PROVE  Sound(m)'
<1>1. CASE m[1] = "DATASET_READY"
  <2>1. Landed(m[2])'
    BY <1>1 DEF Sound, Landed, HasPart, Grows
  <2> QED BY <2>1, <1>1 DEF Sound
<1>2. CASE m[1] = "DELETE_VECTORS"
  <2>1. m[2] \in Deletable
    BY <1>2 DEF Messages
  <2> QED BY <2>1, <1>2 DEF Sound, Grows
<1>3. CASE m[1] \notin {"DATASET_READY", "DELETE_VECTORS"}
  BY <1>3 DEF Sound
<1> QED BY <1>1, <1>2, <1>3

\* A message that appears says something true.
Fresh == \A k \in Messages : Present(k)' => Present(k) \/ Sound(k)'

\* A message that is taken was waiting.
LEMMA TookWhatWas ==
  ASSUME DataType, WorkType, NEW w \in Workers, NEW m \in Messages, Take(w, m)
  PROVE  Fresh
<1>1. ASSUME NEW k \in Messages, k # m PROVE Present(k)' => Present(k)
  BY <1>1 DEF Present, Take, DataType, WorkType, Workers
<1>2. Present(m)
  BY DEF Present, Take
<1> QED BY <1>1, <1>2 DEF Fresh

\* A message is published only with its claim true.
LEMMA FreshStep ==
  ASSUME DataType, WorkType, WorkersOK, [Next]_vars
  PROVE  Fresh
<1>1. ASSUME NEW u \in Uploads, create_import(u) PROVE Fresh
  BY <1>1 DEF Fresh, Present, create_import, queueVars, shardVars
<1>2. ASSUME NEW u \in Uploads, PutUpload(u) PROVE Fresh
  BY <1>2 DEF Fresh, Present, PutUpload, queueVars, shardVars
<1>3. ASSUME NEW u \in Uploads, complete_import(u) PROVE Fresh
  BY <1>3 DEF Fresh, Present, Sound, DataType, Messages, complete_import, publish, queueVars, shardVars
<1>4. ASSUME NEW u \in Uploads, post_vectors(u) PROVE Fresh
  BY <1>4 DEF Fresh, Present, Sound, DataType, Messages, post_vectors, publish, queueVars, shardVars
<1>5. ASSUME NEW x \in Deletable, delete_vector_endpoint(x) PROVE Fresh
  BY <1>5 DEF Fresh, Present, Sound, DataType, Messages, delete_vector_endpoint, publish, queueVars, shardVars
<1>6. ASSUME NEW x \in Deletable, FlipStatus(x) PROVE Fresh
  BY <1>6 DEF Fresh, Present, FlipStatus, queueVars, shardVars
<1>7. ASSUME NEW v \in Validators, TakeUpload(v) PROVE Fresh
  <2>1. PICK u \in Uploads : Take(v, <<"VALIDATE_DATASET", u>>)
    BY <1>7 DEF TakeUpload
  <2>2. <<"VALIDATE_DATASET", u>> \in Messages
    BY DEF Messages
  <2> QED
    BY <2>1, <2>2, TookWhatWas DEF Workers
<1>8. ASSUME NEW v \in Validators, Begin(v) PROVE Fresh
  BY <1>8 DEF Fresh, Present, Begin, queueVars, shardVars
<1>9. ASSUME NEW v \in Validators, Validate(v) PROVE Fresh
  BY <1>9 DEF Fresh, Present, Validate, queueVars, shardVars
<1>10. ASSUME NEW v \in Validators, ValidateRejects(v) PROVE Fresh
  BY <1>10 DEF Fresh, Present, ValidateRejects, queueVars, shardVars, Reject
<1>11. ASSUME NEW v \in Validators, SettleQuota(v) PROVE Fresh
  BY <1>11 DEF Fresh, Present, SettleQuota, queueVars, shardVars
<1>12. ASSUME NEW v \in Validators, OverQuota(v) PROVE Fresh
  BY <1>12 DEF Fresh, Present, OverQuota, queueVars, shardVars, Reject
<1>13. ASSUME NEW v \in Validators, Land(v) PROVE Fresh
  BY <1>13 DEF Fresh, Present, Land, queueVars, shardVars
<1>14. ASSUME NEW v \in Validators, increment_row_count(v) PROVE Fresh
  BY <1>14 DEF Fresh, Present, increment_row_count, queueVars, shardVars
<1>15. ASSUME NEW v \in Validators, MarkJob(v) PROVE Fresh
  BY <1>15 DEF Fresh, Present, MarkJob, queueVars, shardVars
<1>16. ASSUME NEW v \in Validators, MarkDataset(v) PROVE Fresh
  BY <1>16 DEF Fresh, Present, MarkDataset, queueVars, shardVars
<1>17. ASSUME NEW v \in Validators, Announce(v) PROVE Fresh
  <2>1. Upload(v) \in Uploads /\ Landed(Upload(v)) /\ UNCHANGED <<landed, held, msg>>
    BY <1>17 DEF WorkersOK, ValidatorOK, Validating, Announce, At, Upload
  <2>2. Sound(<<"DATASET_READY", Upload(v)>>)'
    <3> DEFINE u == Upload(v)
    <3>1. PICK c \in Uploads : c = u
      BY <2>1
    <3>2. Upload(v)' = c
      BY <2>1, <3>1 DEF Upload
    <3>3. Landed(c)'
      BY <2>1, <3>1 DEF Landed, HasPart
    <3> QED BY <3>2, <3>3 DEF Sound
  <2>3. \A k \in Messages : waiting'[k] = waiting[k] \/ k = <<"DATASET_READY", Upload(v)>>
    BY <1>17 DEF Announce, publish, DataType
  <2>4. <<"DATASET_READY", Upload(v)>>' = <<"DATASET_READY", Upload(v)>>
    BY <2>1 DEF Upload
  <2> QED BY <2>1, <2>2, <2>3, <2>4 DEF Fresh, Present
<1>18. ASSUME NEW v \in Validators, StorageFails(v) PROVE Fresh
  BY <1>18 DEF Fresh, Present, StorageFails, queueVars, shardVars, Reject
<1>19. ASSUME NEW v \in Validators, ValidatorRaises(v) PROVE Fresh
  BY <1>19 DEF Fresh, Present, ValidatorRaises, queueVars, shardVars
<1>20. ASSUME NEW b \in Builders, TakeBuild(b) PROVE Fresh
  <2>1. PICK m \in Messages : Take(b, m)
    BY <1>20 DEF TakeBuild, Messages
  <2> QED
    BY <2>1, TookWhatWas DEF Workers
<1>21. ASSUME NEW b \in Builders, Scan(b) PROVE Fresh
  BY <1>21 DEF Fresh, Present, Scan, queueVars, shardVars
<1>22. ASSUME NEW b \in Builders, CommitBuild(b) PROVE Fresh
  BY <1>22 DEF Fresh, Present, CommitBuild, queueVars, shardVars
<1>23. ASSUME NEW b \in Builders, run_delete_once(b) PROVE Fresh
  BY <1>23 DEF Fresh, Present, run_delete_once, queueVars, shardVars
<1>24. ASSUME NEW b \in Builders, SettleBuild(b) PROVE Fresh
  BY <1>24 DEF Fresh, Present, SettleBuild, queueVars, shardVars
<1>25. ASSUME NEW b \in Builders, sweep_indexed_landing(b) PROVE Fresh
  BY <1>25 DEF Fresh, Present, sweep_indexed_landing, queueVars, shardVars
<1>26. ASSUME NEW b \in Builders, Finalize(b) PROVE Fresh
  BY <1>26 DEF Fresh, Present, Finalize, queueVars, shardVars
<1>27. ASSUME NEW b \in Builders, CompleteJob(b) PROVE Fresh
  BY <1>27 DEF Fresh, Present, CompleteJob, queueVars, shardVars
<1>28. ASSUME NEW b \in Builders, BuildFails(b) PROVE Fresh
  BY <1>28 DEF Fresh, Present, BuildFails, queueVars, shardVars
<1>29. ASSUME NEW b \in Builders, BuildRaises(b) PROVE Fresh
  BY <1>29 DEF Fresh, Present, BuildRaises, queueVars, shardVars
<1>30. ASSUME NEW w \in Workers, FailJob(w) PROVE Fresh
  BY <1>30 DEF Fresh, Present, FailJob, queueVars, shardVars
<1>31. ASSUME NEW w \in Workers, ack(w) PROVE Fresh
  BY <1>31, NoneAssumption DEF Fresh, Present, DataType, WorkType, ack
<1>32. ASSUME NEW w \in Workers, nack(w) PROVE Fresh
  BY <1>32, NoneAssumption DEF Fresh, Present, DataType, WorkType, nack
<1>33. ASSUME NEW w \in Workers, Crash(w) PROVE Fresh
  BY <1>33, NoneAssumption DEF Fresh, Present, DataType, WorkType, Crash, queueVars, shardVars
<1>34. ASSUME NEW m \in Messages, Reclaim(m) PROVE Fresh
  BY <1>34 DEF Fresh, Present, DataType, Reclaim, publish
<1>35. ASSUME fail_dataset_if_stale PROVE Fresh
  BY <1>35 DEF Fresh, Present, fail_dataset_if_stale, queueVars, shardVars
<1>36. ASSUME UNCHANGED vars PROVE Fresh
  BY <1>36 DEF Fresh, Present, vars, queueVars, shardVars
<1>37. ASSUME NEW b \in Builders, FinalizeRaises(b) PROVE Fresh
  BY <1>37 DEF Fresh, Present, FinalizeRaises, queueVars, shardVars
<1> QED
  BY <1>1, <1>2, <1>3, <1>4, <1>5, <1>6, <1>7, <1>8, <1>9, <1>10, <1>11, <1>12,
     <1>13, <1>14, <1>15, <1>16, <1>17, <1>18, <1>19, <1>20, <1>21, <1>22, <1>23, <1>24,
     <1>25, <1>26, <1>27, <1>28, <1>29, <1>30, <1>31, <1>32, <1>33, <1>34, <1>35, <1>36, <1>37
     DEF Next, Client, ValidatorStep, BuilderStep, Workers

\* Every step keeps the claims of the messages.
LEMMA MessagesStep ==
  ASSUME DataType, WorkType, WorkersOK, MessagesSound, Grows, [Next]_vars
  PROVE  MessagesSound'
<1>1. Fresh
  BY FreshStep
<1>2. Messages' = Messages
  BY DEF Messages
<1> QED BY <1>1, <1>2, SoundStays DEF MessagesSound, Fresh

\* What the steps below may use: the invariant before, the data after.
Steady == /\ DataType /\ WorkType /\ WorkersOK /\ MessagesSound /\ NoUploadLost
          /\ DataType' /\ WorkType' /\ Grows

\* A worker that does not move keeps what its place claims.
LEMMA OthersStay ==
  ASSUME Steady, NEW w \in Workers, pc'[w] = pc[w], msg'[w] = msg[w],
         w \in Builders => scan'[w] = scan[w]
  PROVE  /\ w \in Validators => ValidatorOK(w)'
         /\ w \in Builders => BuilderOK(w)'
<1>1. ASSUME w \in Validators PROVE ValidatorOK(w)'
  <2>1. ValidatorOK(w) /\ Upload(w)' = Upload(w)
    BY <1>1 DEF Steady, WorkersOK, Upload
  <2>2. pc[w] # "idle" => Upload(w) \in Uploads
    BY <2>1 DEF ValidatorOK, Upload
  <2>3. Landed(Upload(w)) => Landed(Upload(w))'
    BY <2>1 DEF Steady, Grows, Landed, HasPart
  <2> QED BY <2>1, <2>2, <2>3 DEF Steady, Grows, ValidatorOK, Validating
<1>2. ASSUME w \in Builders PROVE BuilderOK(w)'
  <2>1. BuilderOK(w) /\ Upload(w)' = Upload(w) /\ scan'[w] = scan[w]
    BY <1>2 DEF Steady, WorkersOK, Upload
  <2>2. Manifest \subseteq Manifest' /\ undone \subseteq undone'
    BY DEF Steady, Grows
  <2>3. Indexed(Upload(w)) => Indexed(Upload(w))'
    BY <2>1, <2>2 DEF Indexed
  <2> QED BY <2>1, <2>2, <2>3 DEF BuilderOK, Building
<1> QED BY <1>1, <1>2

\* It is enough to look at the worker that moves.
LEMMA OneMoves ==
  ASSUME Steady, NEW a \in Workers,
         \A c \in Workers : c # a => pc'[c] = pc[c] /\ msg'[c] = msg[c],
         \A c \in Builders : c # a => scan'[c] = scan[c],
         a \in Validators => ValidatorOK(a)',
         a \in Builders => BuilderOK(a)'
  PROVE  WorkersOK'
<1>1. ASSUME NEW c \in Workers, c # a
      PROVE  (c \in Validators => ValidatorOK(c)') /\ (c \in Builders => BuilderOK(c)')
  BY <1>1, OthersStay
<1>2. Validators \subseteq Workers /\ Builders \subseteq Workers
  BY DEF Workers
<1>3. ASSUME NEW c \in Validators PROVE ValidatorOK(c)'
  BY <1>1, <1>2
<1>4. ASSUME NEW c \in Builders PROVE BuilderOK(c)'
  BY <1>1, <1>2
<1> QED BY <1>3, <1>4 DEF WorkersOK

\* Nobody moves.
LEMMA NobodyMoves ==
  ASSUME Steady, UNCHANGED <<pc, msg, scan>>
  PROVE  WorkersOK'
<1>1. Validators \subseteq Workers /\ Builders \subseteq Workers
  BY DEF Workers
<1>2. ASSUME NEW c \in Workers
      PROVE  (c \in Validators => ValidatorOK(c)') /\ (c \in Builders => BuilderOK(c)')
  BY OthersStay
<1> QED BY <1>1, <1>2 DEF WorkersOK

\* What its place claims of a validator that takes a message.
LEMMA After_TakeUpload ==
  ASSUME Steady, NEW v \in Validators, TakeUpload(v)
  PROVE  ValidatorOK(v)'
  BY NoneAssumption DEF Steady, Grows, DataType, WorkType, Workers, WorkersOK, ValidatorOK, Validating,
         Landed, HasPart, Upload, TakeUpload, Take

\* What its place claims of a validator that has read the job.
LEMMA After_Begin ==
  ASSUME Steady, NEW v \in Validators, Begin(v)
  PROVE  ValidatorOK(v)'
  BY DEF Steady, Grows, DataType, WorkType, Workers, WorkersOK, ValidatorOK, Validating,
         Landed, HasPart, Upload, Begin, At

\* What its place claims of a validator that has validated the upload.
LEMMA After_Validate ==
  ASSUME Steady, NEW v \in Validators, Validate(v)
  PROVE  ValidatorOK(v)'
  BY PipelineAssumption DEF Steady, Grows, DataType, WorkType, Workers, WorkersOK, ValidatorOK, Validating,
         Landed, HasPart, Upload, Validate, At, Accepted, Imports

\* What its place claims of a validator that has rejected the upload.
LEMMA After_ValidateRejects ==
  ASSUME Steady, NEW v \in Validators, ValidateRejects(v)
  PROVE  ValidatorOK(v)'
  BY DEF Steady, Grows, DataType, WorkType, Workers, WorkersOK, ValidatorOK, Validating,
         Landed, HasPart, Upload, ValidateRejects, Reject

\* What its place claims of a validator that has charged the quota.
LEMMA After_SettleQuota ==
  ASSUME Steady, NEW v \in Validators, SettleQuota(v)
  PROVE  ValidatorOK(v)'
  BY DEF Steady, Grows, DataType, WorkType, Workers, WorkersOK, ValidatorOK, Validating,
         Landed, HasPart, Upload, SettleQuota, At, Imports

\* What its place claims of a validator that found the quota exhausted.
LEMMA After_OverQuota ==
  ASSUME Steady, NEW v \in Validators, OverQuota(v)
  PROVE  ValidatorOK(v)'
  BY DEF Steady, Grows, DataType, WorkType, Workers, WorkersOK, ValidatorOK, Validating,
         Landed, HasPart, Upload, OverQuota, Reject

\* What its place claims of a validator that has written its part.
LEMMA After_Land ==
  ASSUME Steady, NEW v \in Validators, Land(v)
  PROVE  ValidatorOK(v)'
<1>1. /\ pc'[v] = "counting" /\ msg'[v] = msg[v]
      /\ landed' = landed \cup {NewPart(Upload(v))}
  BY DEF Steady, DataType, WorkType, Workers, Land, At
<1>2. msg[v] # None /\ msg[v] \in {"VALIDATE_DATASET"} \X Uploads
  BY DEF Steady, WorkersOK, ValidatorOK, Land, At
<1>3. Landed(Upload(v))'
  <2>1. NewPart(Upload(v)).up = Upload(v) /\ Upload(v)' = Upload(v)
    BY <1>1 DEF NewPart, Upload
  <2> QED BY <1>1, <2>1 DEF Landed, HasPart
<1>4. Upload(v)' = Upload(v)
  BY <1>1 DEF Upload
<1> QED BY ONLY <1>1, <1>2, <1>3, <1>4 DEF ValidatorOK, Validating

\* What its place claims of a validator that has counted the rows.
LEMMA After_increment_row_count ==
  ASSUME Steady, NEW v \in Validators, increment_row_count(v)
  PROVE  ValidatorOK(v)'
  BY DEF Steady, Grows, DataType, WorkType, Workers, WorkersOK, ValidatorOK, Validating,
         Landed, HasPart, Upload, increment_row_count, At

\* What its place claims of a validator that has moved the job on.
LEMMA After_MarkJob ==
  ASSUME Steady, NEW v \in Validators, MarkJob(v)
  PROVE  ValidatorOK(v)'
  BY DEF Steady, Grows, DataType, WorkType, Workers, WorkersOK, ValidatorOK, Validating,
         Landed, HasPart, Upload, MarkJob, At

\* What its place claims of a validator that has moved the dataset on.
LEMMA After_MarkDataset ==
  ASSUME Steady, NEW v \in Validators, MarkDataset(v)
  PROVE  ValidatorOK(v)'
  BY DEF Steady, Grows, DataType, WorkType, Workers, WorkersOK, ValidatorOK, Validating,
         Landed, HasPart, Upload, MarkDataset, At

\* What its place claims of a validator that has published DATASET_READY.
LEMMA After_Announce ==
  ASSUME Steady, NEW v \in Validators, Announce(v)
  PROVE  ValidatorOK(v)'
  BY DEF Steady, Grows, DataType, WorkType, Workers, WorkersOK, ValidatorOK, Validating,
         Landed, HasPart, Upload, Announce, At

\* What its place claims of a validator that could not write its part.
LEMMA After_StorageFails ==
  ASSUME Steady, NEW v \in Validators, StorageFails(v)
  PROVE  ValidatorOK(v)'
  BY DEF Steady, Grows, DataType, WorkType, Workers, WorkersOK, ValidatorOK, Validating,
         Landed, HasPart, Upload, StorageFails, Reject

\* What its place claims of a validator that raised.
LEMMA After_ValidatorRaises ==
  ASSUME Steady, NEW v \in Validators, ValidatorRaises(v)
  PROVE  ValidatorOK(v)'
  BY DEF Steady, Grows, DataType, WorkType, Workers, WorkersOK, ValidatorOK, Validating,
         Landed, HasPart, Upload, ValidatorRaises, Open

\* What its place claims of a builder that takes a message and the lock.
LEMMA After_TakeBuild ==
  ASSUME Steady, NEW b \in Builders, TakeBuild(b)
  PROVE  BuilderOK(b)'
<1>1. PICK m \in {"DATASET_READY"} \X Uploads \cup {"DELETE_VECTORS"} \X Deletable :
        /\ msg' = [msg EXCEPT ![b] = m]
        /\ pc' = [pc EXCEPT ![b] = IF m[1] = "DATASET_READY" THEN "scan" ELSE "delete"]
  BY DEF TakeBuild, Take
<1>2. /\ msg'[b] = m /\ m # None
      /\ pc'[b] = IF m[1] = "DATASET_READY" THEN "scan" ELSE "delete"
  BY <1>1, NoneAssumption DEF Steady, WorkType, Workers, Messages
<1>3. m[1] = "DATASET_READY" => m \in {"DATASET_READY"} \X Uploads
  OBVIOUS
<1>4. m[1] # "DATASET_READY" => m \in {"DELETE_VECTORS"} \X Deletable
  OBVIOUS
<1> QED BY <1>2, <1>3, <1>4 DEF BuilderOK, Building

\* What its place claims of a builder that has listed the landing zone.
LEMMA After_Scan ==
  ASSUME Steady, NEW b \in Builders, Scan(b)
  PROVE  BuilderOK(b)'
<1>1. /\ pc[b] = "scan" /\ msg' = msg /\ newest' = newest
      /\ pc'[b] = IF parts \ Manifest = {} THEN "finalize" ELSE "build"
      /\ scan'[b] = parts \ Manifest
  BY DEF Steady, WorkType, Workers, Scan, At, shardVars
<1>2. BuilderOK(b) /\ msg[b] \in Messages
  BY <1>1 DEF Steady, WorkersOK, WorkType, Workers, BuilderOK
<1>3. msg[b] \in {"DATASET_READY"} \X Uploads
  BY <1>1, <1>2 DEF BuilderOK, Building
<1>4. Landed(Upload(b))
  <2>1. Present(msg[b])
    BY DEF Present, Workers
  <2> QED BY <2>1, <1>2, <1>3 DEF Steady, MessagesSound, Sound, Upload
<1>5. Carries[Upload(b)] # {} => \E p \in Manifest \cup (parts \ Manifest) : p.up = Upload(b)
  BY <1>4 DEF Landed, HasPart, Steady, NoUploadLost
<1>6. Manifest' = Manifest /\ Upload(b)' = Upload(b) /\ msg'[b] = msg[b]
  BY <1>1 DEF Manifest, Upload
<1>7. msg[b] # None
  BY <1>1, <1>2 DEF BuilderOK
<1> QED BY <1>1, <1>3, <1>5, <1>6, <1>7 DEF BuilderOK, Building, Indexed

\* What its place claims of a builder that has committed its shard.
LEMMA After_CommitBuild ==
  ASSUME Steady, NEW b \in Builders, CommitBuild(b)
  PROVE  BuilderOK(b)'
<1>1. pc[b] = "build" /\ msg' = msg /\ pc'[b] \in {"settle", "undone"}
  BY CommitCases DEF Steady, WorkType, Workers
<1>2. BuilderOK(b) /\ msg'[b] = msg[b] /\ Upload(b)' = Upload(b)
  BY <1>1 DEF Steady, WorkersOK, Upload
<1>3. Manifest \cup scan[b] \subseteq (Manifest \cup undone)'
  BY DataCommit DEF Steady, Grows
<1>4. Indexed(Upload(b))'
  BY <1>1, <1>2, <1>3 DEF BuilderOK, Indexed
<1> QED BY <1>1, <1>2, <1>4 DEF BuilderOK, Building

\* What its place claims of a builder that has served a delete.
LEMMA After_run_delete_once ==
  ASSUME Steady, NEW b \in Builders, run_delete_once(b)
  PROVE  BuilderOK(b)'
  BY DEF Steady, Grows, WorkType, Workers, WorkersOK, BuilderOK, Building, Indexed,
         Upload, run_delete_once, RolledBack, At

\* What its place claims of a builder that has settled status and count.
LEMMA After_SettleBuild ==
  ASSUME Steady, NEW b \in Builders, SettleBuild(b)
  PROVE  BuilderOK(b)'
  BY DEF Steady, Grows, WorkType, Workers, WorkersOK, BuilderOK, Building, Indexed,
         Upload, SettleBuild, At

\* What its place claims of a builder whose finalize raised.
LEMMA After_FinalizeRaises ==
  ASSUME Steady, NEW b \in Builders, FinalizeRaises(b)
  PROVE  BuilderOK(b)'
  BY DEF Steady, Grows, WorkType, Workers, WorkersOK, BuilderOK, Building, Indexed,
         Upload, FinalizeRaises

\* What its place claims of a builder that has swept the landing zone.
LEMMA After_sweep_indexed_landing ==
  ASSUME Steady, NEW b \in Builders, sweep_indexed_landing(b)
  PROVE  BuilderOK(b)'
  BY DEF Steady, Grows, WorkType, Workers, WorkersOK, BuilderOK, Building, Indexed,
         Upload, sweep_indexed_landing, At

\* What its place claims of a builder that has read the job.
LEMMA After_Finalize ==
  ASSUME Steady, NEW b \in Builders, Finalize(b)
  PROVE  BuilderOK(b)'
  BY DEF Steady, Grows, WorkType, Workers, WorkersOK, BuilderOK, Building, Indexed,
         Upload, Finalize

\* What its place claims of a builder that has completed the job.
LEMMA After_CompleteJob ==
  ASSUME Steady, NEW b \in Builders, CompleteJob(b)
  PROVE  BuilderOK(b)'
  BY DEF Steady, Grows, WorkType, Workers, WorkersOK, BuilderOK, Building, Indexed,
         Upload, CompleteJob, At

\* What its place claims of a builder that failed a build.
LEMMA After_BuildFails ==
  ASSUME Steady, NEW b \in Builders, BuildFails(b)
  PROVE  BuilderOK(b)'
  BY DEF Steady, Grows, WorkType, Workers, WorkersOK, BuilderOK, Building, Indexed,
         Upload, BuildFails

\* What its place claims of a builder that raised.
LEMMA After_BuildRaises ==
  ASSUME Steady, NEW b \in Builders, BuildRaises(b)
  PROVE  BuilderOK(b)'
  BY DEF Steady, Grows, WorkType, Workers, WorkersOK, BuilderOK, Building, Indexed,
         Upload, BuildRaises

\* The ends of a handler, the same for both kinds of worker.
LEMMA EitherLeaves ==
  ASSUME Steady, NEW w \in Workers, FailJob(w) \/ ack(w) \/ nack(w) \/ Crash(w)
  PROVE  /\ w \in Validators => ValidatorOK(w)'
         /\ w \in Builders => BuilderOK(w)'
<1>1. CASE FailJob(w)
  BY <1>1 DEF Steady, WorkType, WorkersOK, ValidatorOK, BuilderOK, Validating, Building, FailJob, At
<1>2. CASE ack(w) \/ nack(w) \/ Crash(w)
  BY <1>2 DEF Steady, WorkType, WorkersOK, ValidatorOK, BuilderOK, Validating, Building,
              ack, nack, Crash, At
<1> QED BY <1>1, <1>2

\* Every step keeps what the workers' places claim.
LEMMA WorkersStep ==
  ASSUME DataType, WorkType, WorkersOK, MessagesSound, NoUploadLost,
         DataType', WorkType', Grows, [Next]_vars
  PROVE  WorkersOK'
<1>0. Steady /\ Validators \subseteq Workers /\ Builders \subseteq Workers
  BY DEF Steady, Workers
<1>00. Validators \cap Builders = {}
  BY PipelineAssumption
<1>1. ASSUME NEW u \in Uploads, create_import(u) PROVE WorkersOK'
  BY <1>0, <1>1, NobodyMoves DEF create_import
<1>2. ASSUME NEW u \in Uploads, PutUpload(u) PROVE WorkersOK'
  BY <1>0, <1>2, NobodyMoves DEF PutUpload
<1>3. ASSUME NEW u \in Uploads, complete_import(u) PROVE WorkersOK'
  BY <1>0, <1>3, NobodyMoves DEF complete_import
<1>4. ASSUME NEW u \in Uploads, post_vectors(u) PROVE WorkersOK'
  BY <1>0, <1>4, NobodyMoves DEF post_vectors
<1>5. ASSUME NEW x \in Deletable, delete_vector_endpoint(x) PROVE WorkersOK'
  BY <1>0, <1>5, NobodyMoves DEF delete_vector_endpoint
<1>6. ASSUME NEW x \in Deletable, FlipStatus(x) PROVE WorkersOK'
  BY <1>0, <1>6, NobodyMoves DEF FlipStatus
<1>7. ASSUME NEW v \in Validators, TakeUpload(v) PROVE WorkersOK'
  <2>1. /\ \A c \in Workers : c # v => pc'[c] = pc[c] /\ msg'[c] = msg[c]
        /\ scan' = scan
    BY <1>7 DEF WorkType, TakeUpload, At, Take, Reject
  <2>2. ValidatorOK(v)'
    BY <1>0, <1>7, After_TakeUpload
  <2> QED BY <1>0, <1>00, <2>1, <2>2, OneMoves
<1>8. ASSUME NEW v \in Validators, Begin(v) PROVE WorkersOK'
  <2>1. /\ \A c \in Workers : c # v => pc'[c] = pc[c] /\ msg'[c] = msg[c]
        /\ scan' = scan
    BY <1>8 DEF WorkType, Begin, At, Take, Reject
  <2>2. ValidatorOK(v)'
    BY <1>0, <1>8, After_Begin
  <2> QED BY <1>0, <1>00, <2>1, <2>2, OneMoves
<1>9. ASSUME NEW v \in Validators, Validate(v) PROVE WorkersOK'
  <2>1. /\ \A c \in Workers : c # v => pc'[c] = pc[c] /\ msg'[c] = msg[c]
        /\ scan' = scan
    BY <1>9 DEF WorkType, Validate, At, Take, Reject
  <2>2. ValidatorOK(v)'
    BY <1>0, <1>9, After_Validate
  <2> QED BY <1>0, <1>00, <2>1, <2>2, OneMoves
<1>10. ASSUME NEW v \in Validators, ValidateRejects(v) PROVE WorkersOK'
  <2>1. /\ \A c \in Workers : c # v => pc'[c] = pc[c] /\ msg'[c] = msg[c]
        /\ scan' = scan
    BY <1>10 DEF WorkType, ValidateRejects, At, Take, Reject
  <2>2. ValidatorOK(v)'
    BY <1>0, <1>10, After_ValidateRejects
  <2> QED BY <1>0, <1>00, <2>1, <2>2, OneMoves
<1>11. ASSUME NEW v \in Validators, SettleQuota(v) PROVE WorkersOK'
  <2>1. /\ \A c \in Workers : c # v => pc'[c] = pc[c] /\ msg'[c] = msg[c]
        /\ scan' = scan
    BY <1>11 DEF WorkType, SettleQuota, At, Take, Reject
  <2>2. ValidatorOK(v)'
    BY <1>0, <1>11, After_SettleQuota
  <2> QED BY <1>0, <1>00, <2>1, <2>2, OneMoves
<1>12. ASSUME NEW v \in Validators, OverQuota(v) PROVE WorkersOK'
  <2>1. /\ \A c \in Workers : c # v => pc'[c] = pc[c] /\ msg'[c] = msg[c]
        /\ scan' = scan
    BY <1>12 DEF WorkType, OverQuota, At, Take, Reject
  <2>2. ValidatorOK(v)'
    BY <1>0, <1>12, After_OverQuota
  <2> QED BY <1>0, <1>00, <2>1, <2>2, OneMoves
<1>13. ASSUME NEW v \in Validators, Land(v) PROVE WorkersOK'
  <2>1. /\ \A c \in Workers : c # v => pc'[c] = pc[c] /\ msg'[c] = msg[c]
        /\ scan' = scan
    BY <1>13 DEF WorkType, Land, At, Take, Reject
  <2>2. ValidatorOK(v)'
    BY <1>0, <1>13, After_Land
  <2> QED BY <1>0, <1>00, <2>1, <2>2, OneMoves
<1>14. ASSUME NEW v \in Validators, increment_row_count(v) PROVE WorkersOK'
  <2>1. /\ \A c \in Workers : c # v => pc'[c] = pc[c] /\ msg'[c] = msg[c]
        /\ scan' = scan
    BY <1>14 DEF WorkType, increment_row_count, At, Take, Reject
  <2>2. ValidatorOK(v)'
    BY <1>0, <1>14, After_increment_row_count
  <2> QED BY <1>0, <1>00, <2>1, <2>2, OneMoves
<1>15. ASSUME NEW v \in Validators, MarkJob(v) PROVE WorkersOK'
  <2>1. /\ \A c \in Workers : c # v => pc'[c] = pc[c] /\ msg'[c] = msg[c]
        /\ scan' = scan
    BY <1>15 DEF WorkType, MarkJob, At, Take, Reject
  <2>2. ValidatorOK(v)'
    BY <1>0, <1>15, After_MarkJob
  <2> QED BY <1>0, <1>00, <2>1, <2>2, OneMoves
<1>16. ASSUME NEW v \in Validators, MarkDataset(v) PROVE WorkersOK'
  <2>1. /\ \A c \in Workers : c # v => pc'[c] = pc[c] /\ msg'[c] = msg[c]
        /\ scan' = scan
    BY <1>16 DEF WorkType, MarkDataset, At, Take, Reject
  <2>2. ValidatorOK(v)'
    BY <1>0, <1>16, After_MarkDataset
  <2> QED BY <1>0, <1>00, <2>1, <2>2, OneMoves
<1>17. ASSUME NEW v \in Validators, Announce(v) PROVE WorkersOK'
  <2>1. /\ \A c \in Workers : c # v => pc'[c] = pc[c] /\ msg'[c] = msg[c]
        /\ scan' = scan
    BY <1>17 DEF WorkType, Announce, At, Take, Reject
  <2>2. ValidatorOK(v)'
    BY <1>0, <1>17, After_Announce
  <2> QED BY <1>0, <1>00, <2>1, <2>2, OneMoves
<1>18. ASSUME NEW v \in Validators, StorageFails(v) PROVE WorkersOK'
  <2>1. /\ \A c \in Workers : c # v => pc'[c] = pc[c] /\ msg'[c] = msg[c]
        /\ scan' = scan
    BY <1>18 DEF WorkType, StorageFails, At, Take, Reject
  <2>2. ValidatorOK(v)'
    BY <1>0, <1>18, After_StorageFails
  <2> QED BY <1>0, <1>00, <2>1, <2>2, OneMoves
<1>19. ASSUME NEW v \in Validators, ValidatorRaises(v) PROVE WorkersOK'
  <2>1. /\ \A c \in Workers : c # v => pc'[c] = pc[c] /\ msg'[c] = msg[c]
        /\ scan' = scan
    BY <1>19 DEF WorkType, ValidatorRaises, At, Take, Reject
  <2>2. ValidatorOK(v)'
    BY <1>0, <1>19, After_ValidatorRaises
  <2> QED BY <1>0, <1>00, <2>1, <2>2, OneMoves
<1>20. ASSUME NEW b \in Builders, TakeBuild(b) PROVE WorkersOK'
  <2>1. /\ \A c \in Workers : c # b => pc'[c] = pc[c] /\ msg'[c] = msg[c]
        /\ \A c \in Builders : c # b => scan'[c] = scan[c]
    BY <1>20 DEF WorkType, Workers, TakeBuild, At, Take
  <2>2. BuilderOK(b)'
    BY <1>0, <1>20, After_TakeBuild
  <2> QED BY <1>0, <1>00, <2>1, <2>2, OneMoves
<1>21. ASSUME NEW b \in Builders, Scan(b) PROVE WorkersOK'
  <2>1. /\ \A c \in Workers : c # b => pc'[c] = pc[c] /\ msg'[c] = msg[c]
        /\ \A c \in Builders : c # b => scan'[c] = scan[c]
    BY <1>21 DEF WorkType, Workers, Scan, At, Take
  <2>2. BuilderOK(b)'
    BY <1>0, <1>21, After_Scan
  <2> QED BY <1>0, <1>00, <2>1, <2>2, OneMoves
<1>22. ASSUME NEW b \in Builders, CommitBuild(b) PROVE WorkersOK'
  <2>1. /\ \A c \in Workers : c # b => pc'[c] = pc[c] /\ msg'[c] = msg[c]
        /\ \A c \in Builders : c # b => scan'[c] = scan[c]
    BY <1>22 DEF WorkType, Workers, CommitBuild, At, Take, RolledBack
  <2>2. BuilderOK(b)'
    BY <1>0, <1>22, After_CommitBuild
  <2> QED BY <1>0, <1>00, <2>1, <2>2, OneMoves
<1>23. ASSUME NEW b \in Builders, run_delete_once(b) PROVE WorkersOK'
  <2>1. /\ \A c \in Workers : c # b => pc'[c] = pc[c] /\ msg'[c] = msg[c]
        /\ \A c \in Builders : c # b => scan'[c] = scan[c]
    BY <1>23 DEF WorkType, Workers, run_delete_once, At, Take, RolledBack
  <2>2. BuilderOK(b)'
    BY <1>0, <1>23, After_run_delete_once
  <2> QED BY <1>0, <1>00, <2>1, <2>2, OneMoves
<1>24. ASSUME NEW b \in Builders, SettleBuild(b) PROVE WorkersOK'
  <2>1. /\ \A c \in Workers : c # b => pc'[c] = pc[c] /\ msg'[c] = msg[c]
        /\ \A c \in Builders : c # b => scan'[c] = scan[c]
    BY <1>24 DEF WorkType, Workers, SettleBuild, At, Take
  <2>2. BuilderOK(b)'
    BY <1>0, <1>24, After_SettleBuild
  <2> QED BY <1>0, <1>00, <2>1, <2>2, OneMoves
<1>25. ASSUME NEW b \in Builders, sweep_indexed_landing(b) PROVE WorkersOK'
  <2>1. /\ \A c \in Workers : c # b => pc'[c] = pc[c] /\ msg'[c] = msg[c]
        /\ \A c \in Builders : c # b => scan'[c] = scan[c]
    BY <1>25 DEF WorkType, Workers, sweep_indexed_landing, At, Take
  <2>2. BuilderOK(b)'
    BY <1>0, <1>25, After_sweep_indexed_landing
  <2> QED BY <1>0, <1>00, <2>1, <2>2, OneMoves
<1>26. ASSUME NEW b \in Builders, Finalize(b) PROVE WorkersOK'
  <2>1. /\ \A c \in Workers : c # b => pc'[c] = pc[c] /\ msg'[c] = msg[c]
        /\ \A c \in Builders : c # b => scan'[c] = scan[c]
    BY <1>26 DEF WorkType, Workers, Finalize, At, Take
  <2>2. BuilderOK(b)'
    BY <1>0, <1>26, After_Finalize
  <2> QED BY <1>0, <1>00, <2>1, <2>2, OneMoves
<1>27. ASSUME NEW b \in Builders, CompleteJob(b) PROVE WorkersOK'
  <2>1. /\ \A c \in Workers : c # b => pc'[c] = pc[c] /\ msg'[c] = msg[c]
        /\ \A c \in Builders : c # b => scan'[c] = scan[c]
    BY <1>27 DEF WorkType, Workers, CompleteJob, At, Take
  <2>2. BuilderOK(b)'
    BY <1>0, <1>27, After_CompleteJob
  <2> QED BY <1>0, <1>00, <2>1, <2>2, OneMoves
<1>28. ASSUME NEW b \in Builders, BuildFails(b) PROVE WorkersOK'
  <2>1. /\ \A c \in Workers : c # b => pc'[c] = pc[c] /\ msg'[c] = msg[c]
        /\ \A c \in Builders : c # b => scan'[c] = scan[c]
    BY <1>28 DEF WorkType, Workers, BuildFails, At, Take
  <2>2. BuilderOK(b)'
    BY <1>0, <1>28, After_BuildFails
  <2> QED BY <1>0, <1>00, <2>1, <2>2, OneMoves
<1>29. ASSUME NEW b \in Builders, BuildRaises(b) PROVE WorkersOK'
  <2>1. /\ \A c \in Workers : c # b => pc'[c] = pc[c] /\ msg'[c] = msg[c]
        /\ \A c \in Builders : c # b => scan'[c] = scan[c]
    BY <1>29 DEF WorkType, Workers, BuildRaises, At, Take
  <2>2. BuilderOK(b)'
    BY <1>0, <1>29, After_BuildRaises
  <2> QED BY <1>0, <1>00, <2>1, <2>2, OneMoves
<1>30. ASSUME NEW w \in Workers, FailJob(w) PROVE WorkersOK'
  <2>1. /\ \A c \in Workers : c # w => pc'[c] = pc[c] /\ msg'[c] = msg[c]
        /\ \A c \in Builders : c # w => scan'[c] = scan[c]
    BY <1>30 DEF WorkType, Workers, FailJob, At
  <2>2. w \in Validators => ValidatorOK(w)'
    BY <1>0, <1>30, EitherLeaves
  <2>3. w \in Builders => BuilderOK(w)'
    BY <1>0, <1>30, EitherLeaves
  <2> QED BY <1>0, <2>1, <2>2, <2>3, OneMoves
<1>31. ASSUME NEW w \in Workers, ack(w) PROVE WorkersOK'
  <2>1. /\ \A c \in Workers : c # w => pc'[c] = pc[c] /\ msg'[c] = msg[c]
        /\ \A c \in Builders : c # w => scan'[c] = scan[c]
    BY <1>31 DEF WorkType, Workers, ack, At
  <2>2. w \in Validators => ValidatorOK(w)'
    BY <1>0, <1>31, EitherLeaves
  <2>3. w \in Builders => BuilderOK(w)'
    BY <1>0, <1>31, EitherLeaves
  <2> QED BY <1>0, <2>1, <2>2, <2>3, OneMoves
<1>32. ASSUME NEW w \in Workers, nack(w) PROVE WorkersOK'
  <2>1. /\ \A c \in Workers : c # w => pc'[c] = pc[c] /\ msg'[c] = msg[c]
        /\ \A c \in Builders : c # w => scan'[c] = scan[c]
    BY <1>32 DEF WorkType, Workers, nack, At
  <2>2. w \in Validators => ValidatorOK(w)'
    BY <1>0, <1>32, EitherLeaves
  <2>3. w \in Builders => BuilderOK(w)'
    BY <1>0, <1>32, EitherLeaves
  <2> QED BY <1>0, <2>1, <2>2, <2>3, OneMoves
<1>33. ASSUME NEW w \in Workers, Crash(w) PROVE WorkersOK'
  <2>1. /\ \A c \in Workers : c # w => pc'[c] = pc[c] /\ msg'[c] = msg[c]
        /\ \A c \in Builders : c # w => scan'[c] = scan[c]
    BY <1>33 DEF WorkType, Workers, Crash, At
  <2>2. w \in Validators => ValidatorOK(w)'
    BY <1>0, <1>33, EitherLeaves
  <2>3. w \in Builders => BuilderOK(w)'
    BY <1>0, <1>33, EitherLeaves
  <2> QED BY <1>0, <2>1, <2>2, <2>3, OneMoves
<1>34. ASSUME NEW m \in Messages, Reclaim(m) PROVE WorkersOK'
  BY <1>0, <1>34, NobodyMoves DEF Reclaim
<1>35. ASSUME fail_dataset_if_stale PROVE WorkersOK'
  BY <1>0, <1>35, NobodyMoves DEF fail_dataset_if_stale
<1>36. ASSUME UNCHANGED vars PROVE WorkersOK'
  BY <1>0, <1>36, NobodyMoves DEF vars
<1>37. ASSUME NEW b \in Builders, FinalizeRaises(b) PROVE WorkersOK'
  <2>1. /\ \A c \in Workers : c # b => pc'[c] = pc[c] /\ msg'[c] = msg[c]
        /\ \A c \in Builders : c # b => scan'[c] = scan[c]
    BY <1>37 DEF WorkType, Workers, FinalizeRaises, At, Take
  <2>2. BuilderOK(b)'
    BY <1>0, <1>37, After_FinalizeRaises
  <2> QED BY <1>0, <1>00, <2>1, <2>2, OneMoves
<1> QED
  BY <1>1, <1>2, <1>3, <1>4, <1>5, <1>6, <1>7, <1>8, <1>9, <1>10, <1>11, <1>12,
     <1>13, <1>14, <1>15, <1>16, <1>17, <1>18, <1>19, <1>20, <1>21, <1>22, <1>23, <1>24,
     <1>25, <1>26, <1>27, <1>28, <1>29, <1>30, <1>31, <1>32, <1>33, <1>34, <1>35, <1>36, <1>37
     DEF Next, Client, ValidatorStep, BuilderStep, Workers

-----------------------------------------------------------------------------
(* Parts, jobs and shards *)

\* Parts that are left alone are not lost.
LEMMA PartsStay ==
  ASSUME Steady, landed' = landed, parts' = parts
  PROVE  NoUploadLost'
  BY DEF Steady, Grows, NoUploadLost

\* A part leaves the landing zone only when the newest shard's manifest names it.
LEMMA PartsStep ==
  ASSUME Steady, [Next]_vars
  PROVE  NoUploadLost'
<1>1. ASSUME NEW u \in Uploads, create_import(u) PROVE NoUploadLost'
  BY <1>1, PartsStay DEF create_import
<1>2. ASSUME NEW u \in Uploads, PutUpload(u) PROVE NoUploadLost'
  BY <1>2, PartsStay DEF PutUpload
<1>3. ASSUME NEW u \in Uploads, complete_import(u) PROVE NoUploadLost'
  BY <1>3, PartsStay DEF complete_import
<1>4. ASSUME NEW u \in Uploads, post_vectors(u) PROVE NoUploadLost'
  BY <1>4, PartsStay DEF post_vectors
<1>5. ASSUME NEW x \in Deletable, delete_vector_endpoint(x) PROVE NoUploadLost'
  BY <1>5, PartsStay DEF delete_vector_endpoint
<1>6. ASSUME NEW x \in Deletable, FlipStatus(x) PROVE NoUploadLost'
  BY <1>6, PartsStay DEF FlipStatus
<1>7. ASSUME NEW v \in Validators, TakeUpload(v) PROVE NoUploadLost'
  BY <1>7, PartsStay DEF TakeUpload
<1>8. ASSUME NEW v \in Validators, Begin(v) PROVE NoUploadLost'
  BY <1>8, PartsStay DEF Begin
<1>9. ASSUME NEW v \in Validators, Validate(v) PROVE NoUploadLost'
  BY <1>9, PartsStay DEF Validate
<1>10. ASSUME NEW v \in Validators, ValidateRejects(v) PROVE NoUploadLost'
  BY <1>10, PartsStay DEF ValidateRejects, Reject
<1>11. ASSUME NEW v \in Validators, SettleQuota(v) PROVE NoUploadLost'
  BY <1>11, PartsStay DEF SettleQuota
<1>12. ASSUME NEW v \in Validators, OverQuota(v) PROVE NoUploadLost'
  BY <1>12, PartsStay DEF OverQuota, Reject
<1>13. ASSUME NEW v \in Validators, Land(v) PROVE NoUploadLost'
  BY <1>13 DEF Steady, Grows, NoUploadLost, Land
<1>14. ASSUME NEW v \in Validators, increment_row_count(v) PROVE NoUploadLost'
  BY <1>14, PartsStay DEF increment_row_count
<1>15. ASSUME NEW v \in Validators, MarkJob(v) PROVE NoUploadLost'
  BY <1>15, PartsStay DEF MarkJob
<1>16. ASSUME NEW v \in Validators, MarkDataset(v) PROVE NoUploadLost'
  BY <1>16, PartsStay DEF MarkDataset
<1>17. ASSUME NEW v \in Validators, Announce(v) PROVE NoUploadLost'
  BY <1>17, PartsStay DEF Announce
<1>18. ASSUME NEW v \in Validators, StorageFails(v) PROVE NoUploadLost'
  BY <1>18, PartsStay DEF StorageFails, Reject
<1>19. ASSUME NEW v \in Validators, ValidatorRaises(v) PROVE NoUploadLost'
  BY <1>19, PartsStay DEF ValidatorRaises
<1>20. ASSUME NEW b \in Builders, TakeBuild(b) PROVE NoUploadLost'
  BY <1>20, PartsStay DEF TakeBuild
<1>21. ASSUME NEW b \in Builders, Scan(b) PROVE NoUploadLost'
  BY <1>21, PartsStay DEF Scan
<1>22. ASSUME NEW b \in Builders, CommitBuild(b) PROVE NoUploadLost'
  BY <1>22, PartsStay DEF CommitBuild
<1>23. ASSUME NEW b \in Builders, run_delete_once(b) PROVE NoUploadLost'
  BY <1>23, PartsStay DEF run_delete_once
<1>24. ASSUME NEW b \in Builders, SettleBuild(b) PROVE NoUploadLost'
  BY <1>24, PartsStay DEF SettleBuild
<1>25. ASSUME NEW b \in Builders, sweep_indexed_landing(b) PROVE NoUploadLost'
  BY <1>25 DEF Steady, Grows, NoUploadLost, Manifest, sweep_indexed_landing
<1>26. ASSUME NEW b \in Builders, Finalize(b) PROVE NoUploadLost'
  BY <1>26, PartsStay DEF Finalize
<1>27. ASSUME NEW b \in Builders, CompleteJob(b) PROVE NoUploadLost'
  BY <1>27, PartsStay DEF CompleteJob
<1>28. ASSUME NEW b \in Builders, BuildFails(b) PROVE NoUploadLost'
  BY <1>28, PartsStay DEF BuildFails
<1>29. ASSUME NEW b \in Builders, BuildRaises(b) PROVE NoUploadLost'
  BY <1>29, PartsStay DEF BuildRaises
<1>30. ASSUME NEW w \in Workers, FailJob(w) PROVE NoUploadLost'
  BY <1>30, PartsStay DEF FailJob
<1>31. ASSUME NEW w \in Workers, ack(w) PROVE NoUploadLost'
  BY <1>31, PartsStay DEF ack
<1>32. ASSUME NEW w \in Workers, nack(w) PROVE NoUploadLost'
  BY <1>32, PartsStay DEF nack
<1>33. ASSUME NEW w \in Workers, Crash(w) PROVE NoUploadLost'
  BY <1>33, PartsStay DEF Crash
<1>34. ASSUME NEW m \in Messages, Reclaim(m) PROVE NoUploadLost'
  BY <1>34, PartsStay DEF Reclaim
<1>35. ASSUME fail_dataset_if_stale PROVE NoUploadLost'
  BY <1>35, PartsStay DEF fail_dataset_if_stale
<1>36. ASSUME UNCHANGED vars PROVE NoUploadLost'
  BY <1>36, PartsStay DEF vars
<1>37. ASSUME NEW b \in Builders, FinalizeRaises(b) PROVE NoUploadLost'
  BY <1>37, PartsStay DEF FinalizeRaises
<1> QED
  BY <1>1, <1>2, <1>3, <1>4, <1>5, <1>6, <1>7, <1>8, <1>9, <1>10, <1>11, <1>12,
     <1>13, <1>14, <1>15, <1>16, <1>17, <1>18, <1>19, <1>20, <1>21, <1>22, <1>23, <1>24,
     <1>25, <1>26, <1>27, <1>28, <1>29, <1>30, <1>31, <1>32, <1>33, <1>34, <1>35, <1>36, <1>37
     DEF Next, Client, ValidatorStep, BuilderStep, Workers

\* A job that is completed now was so before, or its upload is indexed.
NewlyDone ==
  \A u \in Imports : job'[u] = "completed" => job[u] = "completed" \/ Indexed(u)'

\* A job is completed only when its parts are in the manifest.
LEMMA JobsStep ==
  ASSUME Steady, [Next]_vars
  PROVE  NewlyDone
<1>1. ASSUME NEW u \in Uploads, create_import(u) PROVE NewlyDone
  BY <1>1 DEF NewlyDone, Steady, DataType, Imports, create_import
<1>2. ASSUME NEW u \in Uploads, PutUpload(u) PROVE NewlyDone
  BY <1>2 DEF NewlyDone, Steady, DataType, Imports, PutUpload
<1>3. ASSUME NEW u \in Uploads, complete_import(u) PROVE NewlyDone
  BY <1>3 DEF NewlyDone, Steady, DataType, Imports, complete_import
<1>4. ASSUME NEW u \in Uploads, post_vectors(u) PROVE NewlyDone
  BY <1>4 DEF NewlyDone, Steady, DataType, Imports, post_vectors
<1>5. ASSUME NEW x \in Deletable, delete_vector_endpoint(x) PROVE NewlyDone
  BY <1>5 DEF NewlyDone, Steady, DataType, Imports, delete_vector_endpoint
<1>6. ASSUME NEW x \in Deletable, FlipStatus(x) PROVE NewlyDone
  BY <1>6 DEF NewlyDone, Steady, DataType, Imports, FlipStatus
<1>7. ASSUME NEW v \in Validators, TakeUpload(v) PROVE NewlyDone
  BY <1>7 DEF NewlyDone, Steady, DataType, Imports, TakeUpload
<1>8. ASSUME NEW v \in Validators, Begin(v) PROVE NewlyDone
  BY <1>8 DEF NewlyDone, Steady, DataType, Imports, Begin
<1>9. ASSUME NEW v \in Validators, Validate(v) PROVE NewlyDone
  BY <1>9 DEF NewlyDone, Steady, DataType, Imports, Validate
<1>10. ASSUME NEW v \in Validators, ValidateRejects(v) PROVE NewlyDone
  BY <1>10 DEF NewlyDone, Steady, DataType, Imports, ValidateRejects, Reject
<1>11. ASSUME NEW v \in Validators, SettleQuota(v) PROVE NewlyDone
  BY <1>11 DEF NewlyDone, Steady, DataType, Imports, SettleQuota
<1>12. ASSUME NEW v \in Validators, OverQuota(v) PROVE NewlyDone
  BY <1>12 DEF NewlyDone, Steady, DataType, Imports, OverQuota, Reject
<1>13. ASSUME NEW v \in Validators, Land(v) PROVE NewlyDone
  BY <1>13 DEF NewlyDone, Steady, DataType, Imports, Land
<1>14. ASSUME NEW v \in Validators, increment_row_count(v) PROVE NewlyDone
  BY <1>14 DEF NewlyDone, Steady, DataType, Imports, increment_row_count
<1>15. ASSUME NEW v \in Validators, MarkJob(v) PROVE NewlyDone
  BY <1>15 DEF NewlyDone, Steady, DataType, Imports, MarkJob
<1>16. ASSUME NEW v \in Validators, MarkDataset(v) PROVE NewlyDone
  BY <1>16 DEF NewlyDone, Steady, DataType, Imports, MarkDataset
<1>17. ASSUME NEW v \in Validators, Announce(v) PROVE NewlyDone
  BY <1>17 DEF NewlyDone, Steady, DataType, Imports, Announce
<1>18. ASSUME NEW v \in Validators, StorageFails(v) PROVE NewlyDone
  BY <1>18 DEF NewlyDone, Steady, DataType, Imports, StorageFails, Reject
<1>19. ASSUME NEW v \in Validators, ValidatorRaises(v) PROVE NewlyDone
  BY <1>19 DEF NewlyDone, Steady, DataType, Imports, ValidatorRaises
<1>20. ASSUME NEW b \in Builders, TakeBuild(b) PROVE NewlyDone
  BY <1>20 DEF NewlyDone, Steady, DataType, Imports, TakeBuild
<1>21. ASSUME NEW b \in Builders, Scan(b) PROVE NewlyDone
  BY <1>21 DEF NewlyDone, Steady, DataType, Imports, Scan
<1>22. ASSUME NEW b \in Builders, CommitBuild(b) PROVE NewlyDone
  BY <1>22 DEF NewlyDone, Steady, DataType, Imports, CommitBuild
<1>23. ASSUME NEW b \in Builders, run_delete_once(b) PROVE NewlyDone
  BY <1>23 DEF NewlyDone, Steady, DataType, Imports, run_delete_once
<1>24. ASSUME NEW b \in Builders, SettleBuild(b) PROVE NewlyDone
  BY <1>24 DEF NewlyDone, Steady, DataType, Imports, SettleBuild
<1>25. ASSUME NEW b \in Builders, sweep_indexed_landing(b) PROVE NewlyDone
  BY <1>25 DEF NewlyDone, Steady, DataType, Imports, sweep_indexed_landing
<1>26. ASSUME NEW b \in Builders, Finalize(b) PROVE NewlyDone
  BY <1>26 DEF NewlyDone, Steady, DataType, Imports, Finalize
<1>27. ASSUME NEW b \in Builders, CompleteJob(b) PROVE NewlyDone
  <2>1. Indexed(Upload(b)) /\ newest' = newest /\ undone' = undone
    BY <1>27 DEF Steady, WorkersOK, BuilderOK, CompleteJob, At, shardVars
  <2>2. \A u \in Imports : job'[u] = job[u] \/ u = Upload(b)
    BY <1>27 DEF Steady, DataType, Imports, CompleteJob
  <2>3. \A u \in Imports : Indexed(u) => Indexed(u)'
    BY <2>1 DEF Indexed, Manifest
  <2> QED BY <2>1, <2>2, <2>3 DEF NewlyDone
<1>28. ASSUME NEW b \in Builders, BuildFails(b) PROVE NewlyDone
  BY <1>28 DEF NewlyDone, Steady, DataType, Imports, BuildFails
<1>29. ASSUME NEW b \in Builders, BuildRaises(b) PROVE NewlyDone
  BY <1>29 DEF NewlyDone, Steady, DataType, Imports, BuildRaises
<1>30. ASSUME NEW w \in Workers, FailJob(w) PROVE NewlyDone
  BY <1>30 DEF NewlyDone, Steady, DataType, Imports, FailJob
<1>31. ASSUME NEW w \in Workers, ack(w) PROVE NewlyDone
  BY <1>31 DEF NewlyDone, Steady, DataType, Imports, ack
<1>32. ASSUME NEW w \in Workers, nack(w) PROVE NewlyDone
  BY <1>32 DEF NewlyDone, Steady, DataType, Imports, nack
<1>33. ASSUME NEW w \in Workers, Crash(w) PROVE NewlyDone
  BY <1>33 DEF NewlyDone, Steady, DataType, Imports, Crash
<1>34. ASSUME NEW m \in Messages, Reclaim(m) PROVE NewlyDone
  BY <1>34 DEF NewlyDone, Steady, DataType, Imports, Reclaim
<1>35. ASSUME fail_dataset_if_stale PROVE NewlyDone
  BY <1>35 DEF NewlyDone, Steady, DataType, Imports, fail_dataset_if_stale
<1>36. ASSUME UNCHANGED vars PROVE NewlyDone
  BY <1>36 DEF NewlyDone, vars
<1>37. ASSUME NEW b \in Builders, FinalizeRaises(b) PROVE NewlyDone
  BY <1>37 DEF NewlyDone, Steady, DataType, Imports, FinalizeRaises
<1> QED
  BY <1>1, <1>2, <1>3, <1>4, <1>5, <1>6, <1>7, <1>8, <1>9, <1>10, <1>11, <1>12,
     <1>13, <1>14, <1>15, <1>16, <1>17, <1>18, <1>19, <1>20, <1>21, <1>22, <1>23, <1>24,
     <1>25, <1>26, <1>27, <1>28, <1>29, <1>30, <1>31, <1>32, <1>33, <1>34, <1>35, <1>36, <1>37
     DEF Next, Client, ValidatorStep, BuilderStep, Workers

\* The build of a completed import stays one.
LEMMA CompletedStep ==
  ASSUME Steady, CompletedIsBuilt, [Next]_vars
  PROVE  CompletedIsBuilt'
<1>1. NewlyDone
  BY JobsStep
<1>2. Manifest \cup undone \subseteq (Manifest \cup undone)'
  BY DEF Steady, Grows
<1> QED BY <1>1, <1>2 DEF NewlyDone, CompletedIsBuilt, Indexed

\* A shard that is left alone matches its manifest.
LEMMA ShardStays ==
  ASSUME Steady, ShardMatchesManifest, newest' = newest
  PROVE  ShardMatchesManifest'
<1>1. Manifest' = Manifest /\ Vectors' = Vectors
  BY DEF Manifest, Vectors
<1>2. \A x \in Ids : (x \in Deletable => deletes'[x] = "none") => (x \in Deletable => deletes[x] = "none")
  BY DEF Steady, Grows
<1>3. \A p \in Manifest : Carries[p.up] \subseteq Ids
  BY PipelineAssumption, VectorsType DEF Steady, Parts
<1> QED BY <1>1, <1>2, <1>3 DEF ShardMatchesManifest

\* A committed build holds the newest part of each id that its manifest names.
LEMMA ShardCommit ==
  ASSUME Steady, ShardMatchesManifest, NEW b \in Builders, Committed(b), deletes' = deletes
  PROVE  ShardMatchesManifest'
<1>1. PICK order \in Orders(scan[b]) :
        newest' = [vecs |-> Folded(scan[b], order), manifest |-> Manifest \cup scan[b]]
  BY DEF Committed
<1>2. newest' \in Shards /\ Manifest' = Manifest \cup scan[b]
  BY CommittedShard DEF Steady
<1>3. Vectors' = Folded(scan[b], order)
  BY <1>1, <1>2, NoneAssumption DEF Vectors
<1>4. scan[b] \in SUBSET landed /\ Manifest' \subseteq Parts
  BY <1>2 DEF Steady, WorkType, DataType
<1>5. ASSUME NEW x \in Ids
      PROVE  IF Carriers(scan[b], x) = {} THEN Vectors'[x] = Vectors[x]
             ELSE \E p \in Carriers(scan[b], x) : Vectors'[x] = p.up
  BY <1>3, <1>4, FoldedIs DEF Steady
<1>6. \A p \in Parts : p.up \in Uploads /\ p.up # None /\ Carries[p.up] \subseteq Ids
  BY PipelineAssumption DEF Parts
<1>7. ASSUME NEW p \in Manifest', NEW x \in Carries[p.up],
             x \in Deletable => deletes'[x] = "none"
      PROVE  Vectors'[x] # None
  <2>1. p \in Parts /\ x \in Ids
    BY <1>4, <1>6
  <2>2. CASE Carriers(scan[b], x) = {}
    <3>1. p \in Manifest
      BY <2>2, <1>2 DEF Carriers
    <3> QED BY <3>1, <2>1, <2>2, <1>2, <1>5, <1>7 DEF ShardMatchesManifest
  <2>3. CASE Carriers(scan[b], x) # {}
    <3>1. PICK q \in Carriers(scan[b], x) : Vectors'[x] = q.up
      BY <2>1, <2>3, <1>5
    <3>2. q \in Parts
      BY <1>2, <1>4 DEF Carriers
    <3> QED BY <3>1, <3>2, <1>6
  <2> QED BY <2>2, <2>3
<1>8. ASSUME NEW x \in Ids, Vectors'[x] # None
      PROVE  \E p \in Manifest' : p.up = Vectors'[x] /\ x \in Carries[p.up]
  <2>1. CASE Carriers(scan[b], x) = {}
    BY <2>1, <1>2, <1>5, <1>8 DEF ShardMatchesManifest
  <2>2. CASE Carriers(scan[b], x) # {}
    BY <2>2, <1>2, <1>5 DEF Carriers
  <2> QED BY <2>1, <2>2
<1> QED BY <1>7, <1>8 DEF ShardMatchesManifest

\* A delete takes an id out of the shard, and a request for it is on record.
LEMMA ShardDelete ==
  ASSUME Steady, ShardMatchesManifest, NEW b \in Builders, run_delete_once(b),
         newest # None, newest' = [newest EXCEPT !.vecs[msg[b][2]] = None]
  PROVE  ShardMatchesManifest'
<1>1. pc[b] = "delete" /\ BuilderOK(b) /\ deletes' = deletes
  BY DEF Steady, WorkersOK, run_delete_once, At
<1>2. msg[b] \in {"DELETE_VECTORS"} \X Deletable /\ msg[b] \in Messages
  BY <1>1 DEF BuilderOK, Messages
<1>3. Present(msg[b])
  BY DEF Present, Workers
<1>4. PICK y \in Deletable : msg[b][2] = y /\ deletes[y] # "none"
  BY <1>2, <1>3 DEF Steady, MessagesSound, Sound
<1>5. Manifest' = Manifest /\ Vectors \in [Ids -> Uploads \cup {None}]
  BY DataDelete, VectorsType DEF Steady
<1>6. \A x \in Ids : Vectors'[x] = IF x = y THEN None ELSE Vectors[x]
  <2>1. newest \in Shards /\ newest' = [newest EXCEPT !.vecs[y] = None]
    BY <1>4 DEF Steady, DataType
  <2>2. newest' # None
    BY <2>1, NoneAssumption DEF Shards
  <2> QED BY <2>1, <2>2 DEF Vectors, Shards
<1>7. \A p \in Manifest : Carries[p.up] \subseteq Ids
  BY PipelineAssumption, VectorsType DEF Steady, Parts
<1>8. ASSUME NEW p \in Manifest', NEW x \in Carries[p.up],
             x \in Deletable => deletes'[x] = "none"
      PROVE  Vectors'[x] # None
  <2>1. x # y /\ x \in Ids
    BY <1>1, <1>4, <1>5, <1>7, <1>8
  <2> QED BY <2>1, <1>1, <1>5, <1>6, <1>8 DEF ShardMatchesManifest
<1>9. ASSUME NEW x \in Ids, Vectors'[x] # None
      PROVE  \E p \in Manifest' : p.up = Vectors'[x] /\ x \in Carries[p.up]
  BY <1>5, <1>6, <1>9 DEF ShardMatchesManifest
<1> QED BY <1>8, <1>9 DEF ShardMatchesManifest

\* Every step keeps shard and manifest in agreement.
LEMMA ShardStep ==
  ASSUME Steady, ShardMatchesManifest, [Next]_vars
  PROVE  ShardMatchesManifest'
<1>1. ASSUME NEW u \in Uploads, create_import(u) PROVE ShardMatchesManifest'
  BY <1>1, ShardStays DEF shardVars, create_import
<1>2. ASSUME NEW u \in Uploads, PutUpload(u) PROVE ShardMatchesManifest'
  BY <1>2, ShardStays DEF shardVars, PutUpload
<1>3. ASSUME NEW u \in Uploads, complete_import(u) PROVE ShardMatchesManifest'
  BY <1>3, ShardStays DEF shardVars, complete_import
<1>4. ASSUME NEW u \in Uploads, post_vectors(u) PROVE ShardMatchesManifest'
  BY <1>4, ShardStays DEF shardVars, post_vectors
<1>5. ASSUME NEW x \in Deletable, delete_vector_endpoint(x) PROVE ShardMatchesManifest'
  BY <1>5, ShardStays DEF shardVars, delete_vector_endpoint
<1>6. ASSUME NEW x \in Deletable, FlipStatus(x) PROVE ShardMatchesManifest'
  BY <1>6, ShardStays DEF shardVars, FlipStatus
<1>7. ASSUME NEW v \in Validators, TakeUpload(v) PROVE ShardMatchesManifest'
  BY <1>7, ShardStays DEF shardVars, TakeUpload
<1>8. ASSUME NEW v \in Validators, Begin(v) PROVE ShardMatchesManifest'
  BY <1>8, ShardStays DEF shardVars, Begin
<1>9. ASSUME NEW v \in Validators, Validate(v) PROVE ShardMatchesManifest'
  BY <1>9, ShardStays DEF shardVars, Validate
<1>10. ASSUME NEW v \in Validators, ValidateRejects(v) PROVE ShardMatchesManifest'
  BY <1>10, ShardStays DEF shardVars, ValidateRejects, Reject
<1>11. ASSUME NEW v \in Validators, SettleQuota(v) PROVE ShardMatchesManifest'
  BY <1>11, ShardStays DEF shardVars, SettleQuota
<1>12. ASSUME NEW v \in Validators, OverQuota(v) PROVE ShardMatchesManifest'
  BY <1>12, ShardStays DEF shardVars, OverQuota, Reject
<1>13. ASSUME NEW v \in Validators, Land(v) PROVE ShardMatchesManifest'
  BY <1>13, ShardStays DEF shardVars, Land
<1>14. ASSUME NEW v \in Validators, increment_row_count(v) PROVE ShardMatchesManifest'
  BY <1>14, ShardStays DEF shardVars, increment_row_count
<1>15. ASSUME NEW v \in Validators, MarkJob(v) PROVE ShardMatchesManifest'
  BY <1>15, ShardStays DEF shardVars, MarkJob
<1>16. ASSUME NEW v \in Validators, MarkDataset(v) PROVE ShardMatchesManifest'
  BY <1>16, ShardStays DEF shardVars, MarkDataset
<1>17. ASSUME NEW v \in Validators, Announce(v) PROVE ShardMatchesManifest'
  BY <1>17, ShardStays DEF shardVars, Announce
<1>18. ASSUME NEW v \in Validators, StorageFails(v) PROVE ShardMatchesManifest'
  BY <1>18, ShardStays DEF shardVars, StorageFails, Reject
<1>19. ASSUME NEW v \in Validators, ValidatorRaises(v) PROVE ShardMatchesManifest'
  BY <1>19, ShardStays DEF shardVars, ValidatorRaises
<1>20. ASSUME NEW b \in Builders, TakeBuild(b) PROVE ShardMatchesManifest'
  BY <1>20, ShardStays DEF shardVars, TakeBuild
<1>21. ASSUME NEW b \in Builders, Scan(b) PROVE ShardMatchesManifest'
  BY <1>21, ShardStays DEF shardVars, Scan
<1>22. ASSUME NEW b \in Builders, CommitBuild(b) PROVE ShardMatchesManifest'
  <2>1. deletes' = deletes /\ (Committed(b) \/ newest' = newest)
    BY <1>22, CommitCases
  <2>2. CASE Committed(b)
    BY <2>1, <2>2, ShardCommit
  <2>3. CASE newest' = newest
    BY <2>3, ShardStays
  <2> QED BY <2>1, <2>2, <2>3
<1>23. ASSUME NEW b \in Builders, run_delete_once(b) PROVE ShardMatchesManifest'
  <2>1. \/ newest' = newest
        \/ newest # None /\ newest' = [newest EXCEPT !.vecs[msg[b][2]] = None]
    BY <1>23 DEF run_delete_once, RolledBack
  <2>2. CASE newest' = newest
    BY <2>2, ShardStays
  <2>3. CASE newest # None /\ newest' = [newest EXCEPT !.vecs[msg[b][2]] = None]
    BY <1>23, <2>3, ShardDelete
  <2> QED BY <2>1, <2>2, <2>3
<1>24. ASSUME NEW b \in Builders, SettleBuild(b) PROVE ShardMatchesManifest'
  BY <1>24, ShardStays DEF shardVars, SettleBuild
<1>25. ASSUME NEW b \in Builders, sweep_indexed_landing(b) PROVE ShardMatchesManifest'
  BY <1>25, ShardStays DEF shardVars, sweep_indexed_landing
<1>26. ASSUME NEW b \in Builders, Finalize(b) PROVE ShardMatchesManifest'
  BY <1>26, ShardStays DEF shardVars, Finalize
<1>27. ASSUME NEW b \in Builders, CompleteJob(b) PROVE ShardMatchesManifest'
  BY <1>27, ShardStays DEF shardVars, CompleteJob
<1>28. ASSUME NEW b \in Builders, BuildFails(b) PROVE ShardMatchesManifest'
  BY <1>28, ShardStays DEF shardVars, BuildFails
<1>29. ASSUME NEW b \in Builders, BuildRaises(b) PROVE ShardMatchesManifest'
  BY <1>29, ShardStays DEF shardVars, BuildRaises
<1>30. ASSUME NEW w \in Workers, FailJob(w) PROVE ShardMatchesManifest'
  BY <1>30, ShardStays DEF shardVars, FailJob
<1>31. ASSUME NEW w \in Workers, ack(w) PROVE ShardMatchesManifest'
  BY <1>31, ShardStays DEF shardVars, ack
<1>32. ASSUME NEW w \in Workers, nack(w) PROVE ShardMatchesManifest'
  BY <1>32, ShardStays DEF shardVars, nack
<1>33. ASSUME NEW w \in Workers, Crash(w) PROVE ShardMatchesManifest'
  BY <1>33, ShardStays DEF shardVars, Crash
<1>34. ASSUME NEW m \in Messages, Reclaim(m) PROVE ShardMatchesManifest'
  BY <1>34, ShardStays DEF shardVars, Reclaim
<1>35. ASSUME fail_dataset_if_stale PROVE ShardMatchesManifest'
  BY <1>35, ShardStays DEF shardVars, fail_dataset_if_stale
<1>36. ASSUME UNCHANGED vars PROVE ShardMatchesManifest'
  BY <1>36, ShardStays DEF shardVars, vars
<1>37. ASSUME NEW b \in Builders, FinalizeRaises(b) PROVE ShardMatchesManifest'
  BY <1>37, ShardStays DEF shardVars, FinalizeRaises
<1> QED
  BY <1>1, <1>2, <1>3, <1>4, <1>5, <1>6, <1>7, <1>8, <1>9, <1>10, <1>11, <1>12,
     <1>13, <1>14, <1>15, <1>16, <1>17, <1>18, <1>19, <1>20, <1>21, <1>22, <1>23, <1>24,
     <1>25, <1>26, <1>27, <1>28, <1>29, <1>30, <1>31, <1>32, <1>33, <1>34, <1>35, <1>36, <1>37
     DEF Next, Client, ValidatorStep, BuilderStep, Workers

-----------------------------------------------------------------------------
(* The quota *)

\* Only imports wait for an upload.
LEMMA AwaitedStep ==
  ASSUME DataType, AwaitedAreImports, [Next]_vars
  PROVE  AwaitedAreImports'
<1>1. ASSUME NEW u \in Uploads, create_import(u) PROVE AwaitedAreImports'
  BY <1>1 DEF AwaitedAreImports, DataType, Imports, create_import
<1>2. ASSUME NEW u \in Uploads, PutUpload(u) PROVE AwaitedAreImports'
  BY <1>2 DEF AwaitedAreImports, DataType, Imports, PutUpload
<1>3. ASSUME NEW u \in Uploads, complete_import(u) PROVE AwaitedAreImports'
  BY <1>3 DEF AwaitedAreImports, DataType, Imports, complete_import
<1>4. ASSUME NEW u \in Uploads, post_vectors(u) PROVE AwaitedAreImports'
  BY <1>4 DEF AwaitedAreImports, DataType, Imports, post_vectors
<1>5. ASSUME NEW x \in Deletable, delete_vector_endpoint(x) PROVE AwaitedAreImports'
  BY <1>5 DEF AwaitedAreImports, DataType, Imports, delete_vector_endpoint
<1>6. ASSUME NEW x \in Deletable, FlipStatus(x) PROVE AwaitedAreImports'
  BY <1>6 DEF AwaitedAreImports, DataType, Imports, FlipStatus
<1>7. ASSUME NEW v \in Validators, TakeUpload(v) PROVE AwaitedAreImports'
  BY <1>7 DEF AwaitedAreImports, DataType, Imports, TakeUpload
<1>8. ASSUME NEW v \in Validators, Begin(v) PROVE AwaitedAreImports'
  BY <1>8 DEF AwaitedAreImports, DataType, Imports, Begin
<1>9. ASSUME NEW v \in Validators, Validate(v) PROVE AwaitedAreImports'
  BY <1>9 DEF AwaitedAreImports, DataType, Imports, Validate
<1>10. ASSUME NEW v \in Validators, ValidateRejects(v) PROVE AwaitedAreImports'
  BY <1>10 DEF AwaitedAreImports, DataType, Imports, ValidateRejects, Reject
<1>11. ASSUME NEW v \in Validators, SettleQuota(v) PROVE AwaitedAreImports'
  BY <1>11 DEF AwaitedAreImports, DataType, Imports, SettleQuota
<1>12. ASSUME NEW v \in Validators, OverQuota(v) PROVE AwaitedAreImports'
  BY <1>12 DEF AwaitedAreImports, DataType, Imports, OverQuota, Reject
<1>13. ASSUME NEW v \in Validators, Land(v) PROVE AwaitedAreImports'
  BY <1>13 DEF AwaitedAreImports, DataType, Imports, Land
<1>14. ASSUME NEW v \in Validators, increment_row_count(v) PROVE AwaitedAreImports'
  BY <1>14 DEF AwaitedAreImports, DataType, Imports, increment_row_count
<1>15. ASSUME NEW v \in Validators, MarkJob(v) PROVE AwaitedAreImports'
  BY <1>15 DEF AwaitedAreImports, DataType, Imports, MarkJob
<1>16. ASSUME NEW v \in Validators, MarkDataset(v) PROVE AwaitedAreImports'
  BY <1>16 DEF AwaitedAreImports, DataType, Imports, MarkDataset
<1>17. ASSUME NEW v \in Validators, Announce(v) PROVE AwaitedAreImports'
  BY <1>17 DEF AwaitedAreImports, DataType, Imports, Announce
<1>18. ASSUME NEW v \in Validators, StorageFails(v) PROVE AwaitedAreImports'
  BY <1>18 DEF AwaitedAreImports, DataType, Imports, StorageFails, Reject
<1>19. ASSUME NEW v \in Validators, ValidatorRaises(v) PROVE AwaitedAreImports'
  BY <1>19 DEF AwaitedAreImports, DataType, Imports, ValidatorRaises
<1>20. ASSUME NEW b \in Builders, TakeBuild(b) PROVE AwaitedAreImports'
  BY <1>20 DEF AwaitedAreImports, DataType, Imports, TakeBuild
<1>21. ASSUME NEW b \in Builders, Scan(b) PROVE AwaitedAreImports'
  BY <1>21 DEF AwaitedAreImports, DataType, Imports, Scan
<1>22. ASSUME NEW b \in Builders, CommitBuild(b) PROVE AwaitedAreImports'
  BY <1>22 DEF AwaitedAreImports, DataType, Imports, CommitBuild
<1>23. ASSUME NEW b \in Builders, run_delete_once(b) PROVE AwaitedAreImports'
  BY <1>23 DEF AwaitedAreImports, DataType, Imports, run_delete_once
<1>24. ASSUME NEW b \in Builders, SettleBuild(b) PROVE AwaitedAreImports'
  BY <1>24 DEF AwaitedAreImports, DataType, Imports, SettleBuild
<1>25. ASSUME NEW b \in Builders, sweep_indexed_landing(b) PROVE AwaitedAreImports'
  BY <1>25 DEF AwaitedAreImports, DataType, Imports, sweep_indexed_landing
<1>26. ASSUME NEW b \in Builders, Finalize(b) PROVE AwaitedAreImports'
  BY <1>26 DEF AwaitedAreImports, DataType, Imports, Finalize
<1>27. ASSUME NEW b \in Builders, CompleteJob(b) PROVE AwaitedAreImports'
  BY <1>27 DEF AwaitedAreImports, DataType, Imports, CompleteJob
<1>28. ASSUME NEW b \in Builders, BuildFails(b) PROVE AwaitedAreImports'
  BY <1>28 DEF AwaitedAreImports, DataType, Imports, BuildFails
<1>29. ASSUME NEW b \in Builders, BuildRaises(b) PROVE AwaitedAreImports'
  BY <1>29 DEF AwaitedAreImports, DataType, Imports, BuildRaises
<1>30. ASSUME NEW w \in Workers, FailJob(w) PROVE AwaitedAreImports'
  BY <1>30 DEF AwaitedAreImports, DataType, Imports, FailJob
<1>31. ASSUME NEW w \in Workers, ack(w) PROVE AwaitedAreImports'
  BY <1>31 DEF AwaitedAreImports, DataType, Imports, ack
<1>32. ASSUME NEW w \in Workers, nack(w) PROVE AwaitedAreImports'
  BY <1>32 DEF AwaitedAreImports, DataType, Imports, nack
<1>33. ASSUME NEW w \in Workers, Crash(w) PROVE AwaitedAreImports'
  BY <1>33 DEF AwaitedAreImports, DataType, Imports, Crash
<1>34. ASSUME NEW m \in Messages, Reclaim(m) PROVE AwaitedAreImports'
  BY <1>34 DEF AwaitedAreImports, DataType, Imports, Reclaim
<1>35. ASSUME fail_dataset_if_stale PROVE AwaitedAreImports'
  BY <1>35 DEF AwaitedAreImports, DataType, Imports, fail_dataset_if_stale
<1>36. ASSUME UNCHANGED vars PROVE AwaitedAreImports'
  BY <1>36 DEF AwaitedAreImports, DataType, Imports, vars
<1>37. ASSUME NEW b \in Builders, FinalizeRaises(b) PROVE AwaitedAreImports'
  BY <1>37 DEF AwaitedAreImports, DataType, Imports, FinalizeRaises
<1> QED
  BY <1>1, <1>2, <1>3, <1>4, <1>5, <1>6, <1>7, <1>8, <1>9, <1>10, <1>11, <1>12,
     <1>13, <1>14, <1>15, <1>16, <1>17, <1>18, <1>19, <1>20, <1>21, <1>22, <1>23, <1>24,
     <1>25, <1>26, <1>27, <1>28, <1>29, <1>30, <1>31, <1>32, <1>33, <1>34, <1>35, <1>36, <1>37
     DEF Next, Client, ValidatorStep, BuilderStep, Workers

\* Nothing is taken on that was not paid for, and nothing is given back.
LEMMA PaidStays ==
  ASSUME PaidInv, Paid' \subseteq Paid, vectors_used' = vectors_used
  PROVE  PaidInv'
<1> DEFINE U == Paid'
<1>1. Paid \in SUBSET Uploads /\ U \in SUBSET Paid
  BY DEF Paid
<1>2. Cardinality(Records(U)) <= Cardinality(Records(Paid))
  BY <1>1, FewerRecords
<1>3. Cardinality(Records(U)) \in Nat /\ Cardinality(Records(Paid)) \in Nat
  BY <1>1, RecordsAreFinite
<1>4. Cardinality(Records(Paid))' = Cardinality(Records(U))
  BY DEF Records
<1> HIDE DEF U
<1> QED BY <1>2, <1>3, <1>4 DEF PaidInv

\* One more upload is paid for.
LEMMA PaidMore ==
  ASSUME PaidInv, NEW u \in Uploads, Paid' \subseteq Paid \cup {u},
         vectors_used' = vectors_used + Rows(u), vectors_used' <= VectorQuota
  PROVE  PaidInv'
<1> DEFINE U == Paid'
<1>1. Paid \in SUBSET Uploads /\ U \in SUBSET (Paid \cup {u}) /\ U \in SUBSET Uploads
  BY DEF Paid
<1>2. Cardinality(Records(U)) <= Cardinality(Records(Paid)) + Rows(u)
  BY <1>1, OneMoreUpload
<1>3. /\ Cardinality(Records(U)) \in Nat /\ Cardinality(Records(Paid)) \in Nat
      /\ Rows(u) \in Nat
  BY <1>1, RecordsAreFinite, RowsAreCounted
<1>4. Cardinality(Records(Paid))' = Cardinality(Records(U))
  BY DEF Records
<1> HIDE DEF U
<1> QED BY <1>2, <1>3, <1>4 DEF PaidInv

\* The steps that land nothing, store no posted batch and send no validator to land.
LEMMA NothingBought ==
  ASSUME PaidInv, vectors_used' = vectors_used, landed' = landed,
         \A u \in Uploads : Kind[u] = "post" /\ u \in staged' => u \in staged,
         \A v \in Validators : pc'[v] = "landing" => pc[v] = "landing" /\ msg'[v] = msg[v]
  PROVE  PaidInv'
<1>1. Paid' \subseteq Paid
  BY DEF Paid, HasPart, Upload
<1> QED BY <1>1, PaidStays

\* A posted batch is charged before it is stored.
LEMMA Paid_post_vectors ==
  ASSUME Steady, PaidInv, NEW u \in Uploads, post_vectors(u)
  PROVE  PaidInv'
<1>1. Paid' \subseteq Paid \cup {u}
  BY DEF post_vectors, Paid, HasPart, Upload
<1>2. vectors_used' = vectors_used + Rows(u) /\ vectors_used' <= VectorQuota
  BY DEF post_vectors
<1> QED BY <1>1, <1>2, PaidMore

\* An import is charged before it lands.
LEMMA Paid_SettleQuota ==
  ASSUME Steady, PaidInv, NEW v \in Validators, SettleQuota(v)
  PROVE  PaidInv'
<1>1. PICK u \in Uploads : Upload(v) = u
  BY DEF Steady, WorkersOK, ValidatorOK, SettleQuota, Upload
<1>2. /\ UNCHANGED <<landed, staged, msg>>
      /\ \A c \in Validators : c # v => pc'[c] = pc[c]
  BY DEF SettleQuota, At, Steady, WorkType, Workers
<1>3. Paid' \subseteq Paid \cup {u}
  BY <1>1, <1>2 DEF Paid, HasPart, Upload
<1>4. vectors_used' = vectors_used + Rows(u) /\ vectors_used' <= VectorQuota
  BY <1>1 DEF SettleQuota
<1> QED BY <1>3, <1>4, PaidMore

\* A posted batch goes on to land: it was charged when it was stored.
LEMMA Paid_Validate ==
  ASSUME Steady, PaidInv, NEW v \in Validators, Validate(v)
  PROVE  PaidInv'
<1>1. PICK u \in Uploads : Upload(v) = u
  BY DEF Steady, WorkersOK, ValidatorOK, Validate, Upload
<1>2. /\ UNCHANGED <<landed, staged, msg, vectors_used>>
      /\ \A c \in Validators : c # v => pc'[c] = pc[c]
  BY DEF Validate, At, Steady, WorkType, Workers
<1>3. pc'[v] = "landing" => Kind[u] = "post" /\ u \in staged
  BY <1>1 DEF Validate, At, Accepted, Imports, Steady, WorkType, Workers
<1>4. Paid' \subseteq Paid
  BY <1>1, <1>2, <1>3 DEF Paid, HasPart, Upload
<1> QED BY <1>2, <1>4, PaidStays

\* What lands was paid for.
LEMMA Paid_Land ==
  ASSUME Steady, PaidInv, NEW v \in Validators, Land(v)
  PROVE  PaidInv'
<1>1. PICK u \in Uploads : Upload(v) = u /\ pc[v] = "landing"
  BY DEF Steady, WorkersOK, ValidatorOK, Land, At, Upload
<1>2. /\ UNCHANGED <<staged, msg, vectors_used>>
      /\ \A c \in Validators : pc'[c] = "landing" => pc[c] = "landing"
  BY DEF Land, At, Steady, WorkType, Workers
<1>3. \A p \in landed' : p \in landed \/ p.up = u
  BY <1>1 DEF Land, NewPart
<1>4. Paid' \subseteq Paid
  BY <1>1, <1>2, <1>3 DEF Paid, HasPart, Upload
<1> QED BY <1>2, <1>4, PaidStays

\* Every step keeps the quota ahead of what landed.
LEMMA PaidStep ==
  ASSUME Steady, AwaitedAreImports, PaidInv, [Next]_vars
  PROVE  PaidInv'
<1>0. \A u \in Uploads : job[u] = "awaiting_upload" => Kind[u] # "post"
  BY DEF AwaitedAreImports, Imports
<1>1. ASSUME NEW u \in Uploads, create_import(u) PROVE PaidInv'
  BY <1>1, NothingBought DEF create_import
<1>2. ASSUME NEW u \in Uploads, PutUpload(u) PROVE PaidInv'
  BY <1>0, <1>2, NothingBought DEF PutUpload
<1>3. ASSUME NEW u \in Uploads, complete_import(u) PROVE PaidInv'
  BY <1>3, NothingBought DEF complete_import
<1>4. ASSUME NEW u \in Uploads, post_vectors(u) PROVE PaidInv'
  BY <1>4, Paid_post_vectors
<1>5. ASSUME NEW x \in Deletable, delete_vector_endpoint(x) PROVE PaidInv'
  BY <1>5, NothingBought DEF delete_vector_endpoint
<1>6. ASSUME NEW x \in Deletable, FlipStatus(x) PROVE PaidInv'
  BY <1>6, NothingBought DEF FlipStatus
<1>7. ASSUME NEW v \in Validators, TakeUpload(v) PROVE PaidInv'
  BY <1>7, NothingBought DEF Steady, WorkType, Workers, TakeUpload, Take
<1>8. ASSUME NEW v \in Validators, Begin(v) PROVE PaidInv'
  BY <1>8, NothingBought DEF Steady, WorkType, Workers, Begin, At
<1>9. ASSUME NEW v \in Validators, Validate(v) PROVE PaidInv'
  BY <1>9, Paid_Validate
<1>10. ASSUME NEW v \in Validators, ValidateRejects(v) PROVE PaidInv'
  BY <1>10, NothingBought DEF Steady, WorkType, Workers, ValidateRejects, Reject, Imports
<1>11. ASSUME NEW v \in Validators, SettleQuota(v) PROVE PaidInv'
  BY <1>11, Paid_SettleQuota
<1>12. ASSUME NEW v \in Validators, OverQuota(v) PROVE PaidInv'
  BY <1>12, NothingBought DEF Steady, WorkType, Workers, OverQuota, Reject, Imports
<1>13. ASSUME NEW v \in Validators, Land(v) PROVE PaidInv'
  BY <1>13, Paid_Land
<1>14. ASSUME NEW v \in Validators, increment_row_count(v) PROVE PaidInv'
  BY <1>14, NothingBought DEF Steady, WorkType, Workers, increment_row_count, At
<1>15. ASSUME NEW v \in Validators, MarkJob(v) PROVE PaidInv'
  BY <1>15, NothingBought DEF Steady, WorkType, Workers, MarkJob, At
<1>16. ASSUME NEW v \in Validators, MarkDataset(v) PROVE PaidInv'
  BY <1>16, NothingBought DEF Steady, WorkType, Workers, MarkDataset, At
<1>17. ASSUME NEW v \in Validators, Announce(v) PROVE PaidInv'
  BY <1>17, NothingBought DEF Steady, WorkType, Workers, Announce, At
<1>18. ASSUME NEW v \in Validators, StorageFails(v) PROVE PaidInv'
  BY <1>18, NothingBought DEF Steady, WorkType, Workers, StorageFails, Reject, Imports
<1>19. ASSUME NEW v \in Validators, ValidatorRaises(v) PROVE PaidInv'
  BY <1>19, NothingBought DEF Steady, WorkType, Workers, ValidatorRaises
<1>20. ASSUME NEW b \in Builders, TakeBuild(b) PROVE PaidInv'
  BY <1>20, NothingBought DEF Steady, WorkType, Workers, TakeBuild, Take
<1>21. ASSUME NEW b \in Builders, Scan(b) PROVE PaidInv'
  BY <1>21, NothingBought DEF Steady, WorkType, Workers, Scan, At
<1>22. ASSUME NEW b \in Builders, CommitBuild(b) PROVE PaidInv'
  BY <1>22, NothingBought DEF Steady, WorkType, Workers, CommitBuild, RolledBack, At
<1>23. ASSUME NEW b \in Builders, run_delete_once(b) PROVE PaidInv'
  BY <1>23, NothingBought DEF Steady, WorkType, Workers, run_delete_once, RolledBack, At
<1>24. ASSUME NEW b \in Builders, SettleBuild(b) PROVE PaidInv'
  BY <1>24, NothingBought DEF Steady, WorkType, Workers, SettleBuild, At
<1>25. ASSUME NEW b \in Builders, sweep_indexed_landing(b) PROVE PaidInv'
  BY <1>25, NothingBought DEF Imports, Steady, WorkType, Workers, At, sweep_indexed_landing
<1>26. ASSUME NEW b \in Builders, Finalize(b) PROVE PaidInv'
  BY <1>26, NothingBought DEF Steady, WorkType, Workers, Finalize
<1>27. ASSUME NEW b \in Builders, CompleteJob(b) PROVE PaidInv'
  BY <1>27, NothingBought DEF Steady, WorkType, Workers, CompleteJob, At
<1>28. ASSUME NEW b \in Builders, BuildFails(b) PROVE PaidInv'
  BY <1>28, NothingBought DEF Steady, WorkType, Workers, BuildFails
<1>29. ASSUME NEW b \in Builders, BuildRaises(b) PROVE PaidInv'
  BY <1>29, NothingBought DEF Steady, WorkType, Workers, BuildRaises
<1>30. ASSUME NEW w \in Workers, FailJob(w) PROVE PaidInv'
  BY <1>30, NothingBought DEF Steady, WorkType, Workers, FailJob, At
<1>31. ASSUME NEW w \in Workers, ack(w) PROVE PaidInv'
  BY <1>31, NothingBought DEF Steady, WorkType, Workers, ack, At
<1>32. ASSUME NEW w \in Workers, nack(w) PROVE PaidInv'
  BY <1>32, NothingBought DEF Steady, WorkType, Workers, nack, At
<1>33. ASSUME NEW w \in Workers, Crash(w) PROVE PaidInv'
  BY <1>33, NothingBought DEF Steady, WorkType, Workers, Crash
<1>34. ASSUME NEW m \in Messages, Reclaim(m) PROVE PaidInv'
  BY <1>34, NothingBought DEF Reclaim
<1>35. ASSUME fail_dataset_if_stale PROVE PaidInv'
  BY <1>35, NothingBought DEF fail_dataset_if_stale
<1>36. ASSUME UNCHANGED vars PROVE PaidInv'
  BY <1>36, NothingBought DEF vars
<1>37. ASSUME NEW b \in Builders, FinalizeRaises(b) PROVE PaidInv'
  BY <1>37, NothingBought DEF Steady, WorkType, Workers, FinalizeRaises
<1> QED
  BY <1>1, <1>2, <1>3, <1>4, <1>5, <1>6, <1>7, <1>8, <1>9, <1>10, <1>11, <1>12,
     <1>13, <1>14, <1>15, <1>16, <1>17, <1>18, <1>19, <1>20, <1>21, <1>22, <1>23, <1>24,
     <1>25, <1>26, <1>27, <1>28, <1>29, <1>30, <1>31, <1>32, <1>33, <1>34, <1>35, <1>36, <1>37
     DEF Next, Client, ValidatorStep, BuilderStep, Workers

-----------------------------------------------------------------------------
(* The invariant *)

\* The invariant holds at the start.
LEMMA IngestInit == Init => IngestInv
<1> SUFFICES ASSUME Init PROVE IngestInv
  OBVIOUS
<1>1. landed = {} /\ IsFiniteSet(landed) /\ Manifest = {} /\ newest = None
  BY FS_EmptySet DEF Init, Manifest
<1>2. DataType /\ WorkType /\ RestType /\ AwaitedAreImports
  BY <1>1, PipelineAssumption
     DEF Init, DataType, WorkType, RestType, Workers, Labels, AwaitedAreImports
<1>3. MessagesSound
  <2> SUFFICES ASSUME NEW m \in Messages PROVE ~ Present(m)
    BY DEF MessagesSound
  <2> QED BY NoneAssumption DEF Init, Present
<1>4. WorkersOK
  BY DEF Init, Workers, WorkersOK, ValidatorOK, BuilderOK, Validating, Building
<1>5. Paid = {}
  BY <1>1 DEF Paid, HasPart, Init, Workers
<1>6. Records(Paid) = {}
  BY <1>5 DEF Records
<1>7. Cardinality({}) = 0
  BY FS_EmptySet
<1>8. PaidInv
  BY <1>6, <1>7, PipelineAssumption DEF PaidInv, Init
<1>9. CompletedIsBuilt /\ NoUploadLost /\ ShardMatchesManifest
  BY <1>1, PipelineAssumption
     DEF Init, CompletedIsBuilt, NoUploadLost, ShardMatchesManifest, Imports, Vectors
<1> QED BY <1>2, <1>3, <1>4, <1>8, <1>9 DEF IngestInv

\* Every step keeps the invariant.
LEMMA IngestStep == IngestInv /\ [Next]_vars => IngestInv'
<1> SUFFICES ASSUME IngestInv, [Next]_vars PROVE IngestInv'
  OBVIOUS
<1>1. DataType' /\ Grows
  BY DataStep DEF IngestInv
<1>2. WorkType' /\ RestType'
  BY <1>1, WorkStep DEF IngestInv
<1>3. Steady
  BY <1>1, <1>2 DEF IngestInv, Steady
<1>4. MessagesSound' /\ WorkersOK'
  BY <1>1, <1>2, MessagesStep, WorkersStep DEF IngestInv
<1>5. PaidInv' /\ AwaitedAreImports'
  BY <1>3, PaidStep, AwaitedStep DEF IngestInv
<1>6. CompletedIsBuilt' /\ NoUploadLost' /\ ShardMatchesManifest'
  BY <1>3, CompletedStep, PartsStep, ShardStep DEF IngestInv
<1> QED BY <1>1, <1>2, <1>4, <1>5, <1>6 DEF IngestInv

\* Every state of the pipeline satisfies IngestInv: what a message or a handler's place
\* says about landed parts, manifests and delete requests is true, however messages are
\* repeated, handlers crash and builds fail.
THEOREM IngestInvariant == Spec => []IngestInv
<1>1. Init => IngestInv
  BY IngestInit
<1>2. IngestInv /\ [Next]_vars => IngestInv'
  BY IngestStep
<1> QED BY <1>1, <1>2, PTL DEF Spec

\* Every variable of the pipeline stays in its domain, and a worker is idle exactly when
\* it holds no message.
THEOREM PipelineTypes == Spec => []TypeOK
<1>1. IngestInv => TypeOK
  <2> SUFFICES ASSUME IngestInv PROVE TypeOK
    OBVIOUS
  <2>1. \A w \in Workers : pc[w] = "idle" <=> msg[w] = None
    BY DEF IngestInv, WorkersOK, ValidatorOK, BuilderOK, Workers
  <2>2. newest # None => newest \in Shards /\ newest.manifest \subseteq landed
    BY DEF IngestInv, DataType, Manifest
  <2> QED BY <2>1, <2>2 DEF IngestInv, TypeOK, DataType, WorkType, RestType, PaidInv
<1> QED BY <1>1, IngestInvariant, PTL

\* A landing part is deleted only when the newest shard was built from it: no validated
\* upload is lost, whatever part arrives while a build runs and sweeps.
THEOREM PartsAreNeverLost == Spec => []NoUploadLost
<1>1. IngestInv => NoUploadLost
  BY DEF IngestInv
<1> QED BY <1>1, IngestInvariant, PTL

\* A completed import with records is in the manifest of the newest shard, or its build
\* was rolled back when add_shard's notification failed and its part still waits in the
\* landing zone: finalize_import is reached only by a build that folded a part of it or
\* found one folded.
THEOREM CompletedIsQueryable == Spec => []CompletedIsIndexed
<1>1. IngestInv => CompletedIsIndexed
  <2>1. IngestInv => undone \subseteq Manifest \cup (undone \cap parts)
    BY DEF IngestInv, DataType, NoUploadLost
  <2> QED BY <2>1 DEF IngestInv, CompletedIsBuilt, CompletedIsIndexed, Indexed
<1> QED BY <1>1, IngestInvariant, PTL

\* The newest shard holds every id of every part it was built from, except those whose
\* delete was asked for, and each vector in it comes from such a part.
THEOREM ShardIsItsManifest == Spec => []ShardMatchesManifest
<1>1. IngestInv => ShardMatchesManifest
  BY DEF IngestInv
<1> QED BY <1>1, IngestInvariant, PTL

\* The tenant's vector counter stays within its quota and covers every record that was
\* landed, although a post and an import are charged at different moments.
THEOREM QuotaCoversLanding == Spec => []LandedIsCharged
<1>1. IngestInv => LandedIsCharged
  <2> SUFFICES ASSUME IngestInv PROVE LandedIsCharged
    OBVIOUS
  <2> DEFINE L == {u \in Uploads : HasPart(u)}
  <2> DEFINE S == {c \in Uploads \X Ids :
                     c[2] \in Carries[c[1]] /\ \E p \in landed : p.up = c[1]}
  <2>1. S = Records(L)
    BY DEF Records, HasPart
  <2>2. L \in SUBSET Paid /\ Paid \in SUBSET Uploads /\ L \in SUBSET Uploads
    BY DEF Paid
  <2> HIDE DEF L
  <2>3. Cardinality(Records(L)) <= Cardinality(Records(Paid))
    BY <2>2, FewerRecords
  <2>4. Cardinality(Records(L)) \in Nat /\ Cardinality(Records(Paid)) \in Nat
    BY <2>2, RecordsAreFinite
  <2> HIDE DEF S
  <2>5. vectors_used <= VectorQuota /\ vectors_used >= Cardinality(S)
    BY <2>1, <2>3, <2>4 DEF IngestInv, PaidInv
  <2> QED BY <2>5, Zenon DEF LandedIsCharged, S
<1> QED BY <1>1, IngestInvariant, PTL

=============================================================================
