--------------------------- MODULE IngestPipeline ---------------------------
(* The asynchronous ingest path of one dataset (recall tier off): the control  *)
(* plane accepts bulk imports, posted batches and deletes; validators turn     *)
(* uploads into landing parts; builders fold landing parts into the newest     *)
(* shard; the reaper redelivers messages and fails a stuck dataset.            *)
(*                                                                             *)
(* The queue is the at-least-once queue that ReliableQueue models in detail: a *)
(* message is waiting or held, and a held one may come back although its       *)
(* holder lives.  The sweep of old shards is in RecallConsolidate.             *)
EXTENDS Integers, FiniteSets

CONSTANTS
  Ids,            \* vector ids
  Uploads,        \* bulk imports and posted batches
  Kind,           \* Uploads -> "ndjson", "parquet" (imports) or "post"
  Carries,        \* Uploads -> the ids of an upload's accepted records
  Bad,            \* imports whose file validation rejects as a whole
  Deletable,      \* ids a client may delete, once each
  VectorQuota,    \* the tenant's vector_quota
  Validators, Builders,
  None,
  MaxFaults       \* crashes, failed calls and early timeouts

ASSUME PipelineAssumption ==
  /\ IsFiniteSet(Ids) /\ IsFiniteSet(Uploads)
  /\ Kind \in [Uploads -> {"ndjson", "parquet", "post"}]
  /\ Carries \in [Uploads -> SUBSET Ids]
  /\ Bad \subseteq {u \in Uploads : Kind[u] # "post"}
  /\ Deletable \subseteq Ids
  /\ VectorQuota \in Nat /\ MaxFaults \in Nat
  /\ Validators \cap Builders = {}
  /\ None \notin Uploads \cup Builders

Workers == Validators \cup Builders
Imports == {u \in Uploads : Kind[u] # "post"}

Messages == ({"VALIDATE_DATASET", "DATASET_READY"} \X Uploads)
            \cup ({"DELETE_VECTORS"} \X Deletable)

Parts  == [up : Uploads, n : Nat]
Shards == [vecs : [Ids -> Uploads \cup {None}], manifest : SUBSET Parts]

ASSUME NoneAssumption == None \notin Messages /\ None \notin Shards

VARIABLES
  job,            \* import_jobs.status; "none" before create_import
  staged,         \* uploads whose raw object is in the object store
  vectors_used,   \* the tenant's quota counter
  waiting, held,  \* per message: how many copies wait, and are being processed
  parts,          \* landing parts in the object store
  landed,         \* all parts ever written (history)
  newest,         \* the newest shard: its vectors and its manifest, or None
  undone,         \* parts of builds whose catalog row was rolled back (history)
  status, row_count,          \* of the dataset
  lock,           \* dataset_build_lock
  pc, msg,        \* workers: where a handler is, and its message
  scan,           \* builders: landing parts the build read
  deletes,        \* per id: how far its delete request is
  faults

queueVars   == <<waiting, held>>
shardVars   == <<newest, undone>>
datasetVars == <<status, row_count>>
vars == <<job, staged, vectors_used, queueVars, parts, landed, shardVars, datasetVars,
          lock, pc, msg, scan, deletes, faults>>

Terminal == {"completed", "failed"}

\* An import whose job is not over yet.
Open(u) == u \in Imports /\ job[u] \notin Terminal

Init ==
  /\ job = [u \in Uploads |-> "none"]
  /\ staged = {} /\ vectors_used = 0
  /\ waiting = [m \in Messages |-> 0] /\ held = [m \in Messages |-> 0]
  /\ parts = {} /\ landed = {}
  /\ newest = None /\ undone = {}
  /\ status = "empty" /\ row_count = 0
  /\ lock = None
  /\ pc = [w \in Workers |-> "idle"] /\ msg = [w \in Workers |-> None]
  /\ scan = [b \in Builders |-> {}]
  /\ deletes = [x \in Deletable |-> "none"]
  /\ faults = 0

-----------------------------------------------------------------------------
(* Control plane *)

Rows(u) == Cardinality(Carries[u])

Fault == faults < MaxFaults /\ faults' = faults + 1

publish(m) == waiting' = [waiting EXCEPT ![m] = @ + 1]

\* Admission: a tenant at its quota gets no import.
create_import(u) ==
  /\ u \in Imports /\ job[u] = "none"
  /\ vectors_used < VectorQuota
  /\ job' = [job EXCEPT ![u] = "awaiting_upload"]
  /\ UNCHANGED <<staged, vectors_used, queueVars, parts, landed, shardVars, datasetVars,
                 lock, pc, msg, scan, deletes, faults>>

\* The client's PUT to the presigned URL.
PutUpload(u) ==
  /\ job[u] = "awaiting_upload" /\ u \notin staged
  /\ staged' = staged \cup {u}
  /\ UNCHANGED <<job, vectors_used, queueVars, parts, landed, shardVars, datasetVars,
                 lock, pc, msg, scan, deletes, faults>>

\* The message goes out before the request's transaction commits the status; a
\* request that dies in between leaves the job as it was, and may be repeated.
complete_import(u) ==
  /\ job[u] = "awaiting_upload" /\ u \in staged
  /\ publish(<<"VALIDATE_DATASET", u>>)
  /\ \/ job' = [job EXCEPT ![u] = "validating"] /\ UNCHANGED faults
     \/ Fault /\ UNCHANGED job
  /\ UNCHANGED <<staged, vectors_used, held, parts, landed, shardVars, datasetVars,
                 lock, pc, msg, scan, deletes>>

\* A posted batch is charged, stored and announced; over quota it is refused whole.
\* The charge commits at once and is not given back when the rest fails.
post_vectors(u) ==
  /\ Kind[u] = "post" /\ u \notin staged
  /\ vectors_used + Rows(u) <= VectorQuota
  /\ vectors_used' = vectors_used + Rows(u)
  /\ \/ /\ staged' = staged \cup {u}
        /\ publish(<<"VALIDATE_DATASET", u>>)
        /\ UNCHANGED faults
     \/ Fault /\ UNCHANGED <<staged, waiting>>
  /\ UNCHANGED <<job, held, parts, landed, shardVars, datasetVars, lock, pc, msg, scan,
                 deletes>>

\* The delete is published first; the status is flipped afterwards, if a shard exists.
delete_vector_endpoint(x) ==
  /\ deletes[x] = "none"
  /\ publish(<<"DELETE_VECTORS", x>>)
  /\ deletes' = [deletes EXCEPT ![x] = "published"]
  /\ UNCHANGED <<job, staged, vectors_used, held, parts, landed, shardVars, datasetVars,
                 lock, pc, msg, scan, faults>>

FlipStatus(x) ==
  /\ deletes[x] = "published"
  /\ deletes' = [deletes EXCEPT ![x] = "answered"]
  /\ status' = IF newest # None THEN "indexing" ELSE status
  /\ UNCHANGED <<job, staged, vectors_used, queueVars, parts, landed, shardVars, row_count,
                 lock, pc, msg, scan, faults>>

-----------------------------------------------------------------------------
(* Message handling, shared by validators and builders *)

Upload(w) == msg[w][2]

At(w, here, there) == pc[w] = here /\ pc' = [pc EXCEPT ![w] = there]

Take(w, m) ==
  /\ pc[w] = "idle" /\ waiting[m] > 0
  /\ waiting' = [waiting EXCEPT ![m] = @ - 1]
  /\ held' = [held EXCEPT ![m] = @ + 1]
  /\ msg' = [msg EXCEPT ![w] = m]

\* LREM takes off one equal entry, also one that another worker holds by now, and
\* does nothing when the reaper has put the message back.
ack(w) ==
  /\ At(w, "acking", "idle")
  /\ held' = [held EXCEPT ![msg[w]] = IF @ > 0 THEN @ - 1 ELSE 0]
  /\ msg' = [msg EXCEPT ![w] = None]
  /\ UNCHANGED <<job, staged, vectors_used, waiting, parts, landed, shardVars, datasetVars,
                 lock, scan, deletes, faults>>

\* The handler raised.
nack(w) ==
  /\ At(w, "nacking", "idle")
  /\ held' = [held EXCEPT ![msg[w]] = IF @ > 0 THEN @ - 1 ELSE 0]
  /\ waiting' = [waiting EXCEPT ![msg[w]] = IF held[msg[w]] > 0 THEN @ + 1 ELSE @]
  /\ msg' = [msg EXCEPT ![w] = None]
  /\ UNCHANGED <<job, staged, vectors_used, parts, landed, shardVars, datasetVars,
                 lock, scan, deletes, faults>>

\* fail_import: the status is read here, where the handler branches, and written in
\* FailJob.  A builder's handler raises again afterwards, so its message goes back.
FailJob(w) ==
  /\ \/ At(w, "failing", "acking")
     \/ At(w, "raising", "nacking")
  /\ job' = [job EXCEPT ![Upload(w)] = "failed"]
  /\ status' = "error"
  /\ UNCHANGED <<staged, vectors_used, queueVars, parts, landed, shardVars, row_count,
                 lock, msg, scan, deletes, faults>>

\* A process dies; its session's build lock goes with it, its message stays held.
Crash(w) ==
  /\ pc[w] # "idle" /\ Fault
  /\ pc' = [pc EXCEPT ![w] = "idle"]
  /\ msg' = [msg EXCEPT ![w] = None]
  /\ lock' = IF lock = w THEN None ELSE lock
  /\ scan' = [b \in Builders |-> IF b = w THEN {} ELSE scan[b]]
  /\ UNCHANGED <<job, staged, vectors_used, queueVars, parts, landed, shardVars,
                 datasetVars, deletes>>

-----------------------------------------------------------------------------
(* Validators: process_import and process_uri *)

TakeUpload(v) ==
  \E u \in Uploads :
    /\ Take(v, <<"VALIDATE_DATASET", u>>)
    /\ pc' = [pc EXCEPT ![v] = "begin"]
    /\ UNCHANGED <<job, staged, vectors_used, parts, landed, shardVars, datasetVars,
                   lock, scan, deletes, faults>>

Begin(v) ==
  /\ At(v, "begin", "reading")
  /\ status' = "validating"
  /\ UNCHANGED <<job, staged, vectors_used, queueVars, parts, landed, shardVars, row_count,
                 lock, msg, scan, deletes, faults>>

\* _fail: the job and the dataset are failed whatever their state, and the staged
\* object is deleted, if the store lets it.  A posted batch has no job.
Reject(v) ==
  LET u == Upload(v) IN
  /\ pc' = [pc EXCEPT ![v] = "acking"]
  /\ job' = [job EXCEPT ![u] = IF u \in Imports THEN "failed" ELSE @]
  /\ status' = "error"
  /\ \/ staged' = IF u \in Imports THEN staged \ {u} ELSE staged
     \/ staged' = staged
  /\ UNCHANGED <<vectors_used, queueVars, parts, landed, shardVars, row_count, lock, msg,
                 scan, deletes>>

\* The staged file is read and its records checked.
Accepted(v) == Upload(v) \in staged \ Bad

Validate(v) ==
  /\ pc[v] = "reading" /\ Accepted(v)
  /\ At(v, "reading", CASE Carries[Upload(v)] = {} -> "marking"
                        [] Carries[Upload(v)] # {} /\ Upload(v) \in Imports -> "settling"
                        [] OTHER -> "landing")
  /\ UNCHANGED <<job, staged, vectors_used, queueVars, parts, landed, shardVars,
                 datasetVars, lock, msg, scan, deletes, faults>>

ValidateRejects(v) ==
  /\ pc[v] = "reading" /\ ~ Accepted(v)
  /\ Reject(v) /\ UNCHANGED faults

\* Mutant of SettleQuota: the charge looks only at what was used before.
SettleUnchecked(v) ==
  /\ pc[v] = "settling"
  /\ vectors_used < VectorQuota
  /\ At(v, "settling", "landing")
  /\ vectors_used' = vectors_used + Rows(Upload(v))
  /\ UNCHANGED <<job, staged, queueVars, parts, landed, shardVars, datasetVars, lock, msg,
                 scan, deletes, faults>>

\* try_consume_vectors: one conditional UPDATE.
SettleQuota(v) ==
  /\ pc[v] = "settling"
  /\ vectors_used + Rows(Upload(v)) <= VectorQuota
  /\ At(v, "settling", "landing")
  /\ vectors_used' = vectors_used + Rows(Upload(v))
  /\ UNCHANGED <<job, staged, queueVars, parts, landed, shardVars, datasetVars, lock, msg,
                 scan, deletes, faults>>

OverQuota(v) ==
  /\ pc[v] = "settling"
  /\ vectors_used + Rows(Upload(v)) > VectorQuota
  /\ Reject(v) /\ UNCHANGED faults

\* A Parquet import has one fixed part name; every other part is named by a uuid.
NewPart(u) ==
  [up |-> u,
   n  |-> IF Kind[u] = "parquet" THEN 1 ELSE Cardinality({p \in landed : p.up = u}) + 1]

Land(v) ==
  /\ At(v, "landing", "counting")
  /\ parts' = parts \cup {NewPart(Upload(v))}
  /\ landed' = landed \cup {NewPart(Upload(v))}
  /\ UNCHANGED <<job, staged, vectors_used, queueVars, shardVars, datasetVars, lock, msg,
                 scan, deletes, faults>>

\* The object store fails: the read of the upload or the write of the part.
StorageFails(v) == pc[v] \in {"reading", "landing"} /\ Fault /\ Reject(v)

increment_row_count(v) ==
  /\ At(v, "counting", "marking")
  /\ row_count' = row_count + Rows(Upload(v))
  /\ UNCHANGED <<job, staged, vectors_used, queueVars, parts, landed, shardVars, status,
                 lock, msg, scan, deletes, faults>>

\* The job's status is set without looking at it.
MarkJob(v) ==
  /\ At(v, "marking", "flipping")
  /\ job' = [job EXCEPT ![Upload(v)] = IF Upload(v) \in Imports THEN "indexing" ELSE @]
  /\ UNCHANGED <<staged, vectors_used, queueVars, parts, landed, shardVars, datasetVars,
                 lock, msg, scan, deletes, faults>>

MarkDataset(v) ==
  /\ At(v, "flipping", "publishing")
  /\ status' = "indexing"
  /\ UNCHANGED <<job, staged, vectors_used, queueVars, parts, landed, shardVars, row_count,
                 lock, msg, scan, deletes, faults>>

\* The builder is told, for an import only if its job is still in `indexing`.
Announce(v) ==
  LET u == Upload(v) IN
  /\ At(v, "publishing", "acking")
  /\ IF u \in Imports => job[u] = "indexing" THEN publish(<<"DATASET_READY", u>>)
                                             ELSE UNCHANGED waiting
  /\ UNCHANGED <<job, staged, vectors_used, held, parts, landed, shardVars, datasetVars,
                 lock, msg, scan, deletes, faults>>

\* An exception nobody handled: inside process_import it fails the job, from the
\* publish on it goes back to the queue; a posted batch is acked as it is.
ValidatorRaises(v) ==
  /\ pc[v] \notin {"idle", "acking", "nacking", "failing"} /\ Fault
  /\ pc' = [pc EXCEPT ![v] =
              CASE pc[v] = "publishing" -> "nacking"
                [] pc[v] # "publishing" /\ Open(Upload(v)) -> "failing"
                [] OTHER -> "acking"]
  /\ UNCHANGED <<job, staged, vectors_used, queueVars, parts, landed, shardVars,
                 datasetVars, lock, msg, scan, deletes>>

-----------------------------------------------------------------------------
(* Builders: run_once and run_delete_once under the dataset's lock *)

\* A builder that finds the lock taken puts its message back: no step here.
TakeBuild(b) ==
  \E m \in {"DATASET_READY"} \X Uploads \cup {"DELETE_VECTORS"} \X Deletable :
    /\ Take(b, m)
    /\ lock = None /\ lock' = b
    /\ pc' = [pc EXCEPT ![b] = IF m[1] = "DATASET_READY" THEN "scan" ELSE "delete"]
    /\ UNCHANGED <<job, staged, vectors_used, parts, landed, shardVars, datasetVars, scan,
                   deletes, faults>>

Manifest == IF newest = None THEN {} ELSE newest.manifest
Vectors  == IF newest = None THEN [x \in Ids |-> None] ELSE newest.vecs

\* The newest shard's manifest is read, then the landing area listed: what is not in
\* the manifest is new.  With nothing new the status is left as it is.
Scan(b) ==
  /\ pc[b] = "scan"
  /\ scan' = [scan EXCEPT ![b] = parts \ Manifest]
  /\ At(b, "scan", IF parts \ Manifest = {} THEN "finalize" ELSE "build")
  /\ lock' = IF parts \ Manifest = {} THEN None ELSE lock
  /\ UNCHANGED <<job, staged, vectors_used, queueVars, parts, landed, shardVars,
                 datasetVars, msg, deletes, faults>>

\* New parts are folded in the order of their names, the last one wins.  Names hold
\* uuids, so any order may be met.
Orders(new) == {r \in [new -> 1..Cardinality(new)] : \A p, q \in new : r[p] = r[q] => p = q}

Carriers(new, x) == {p \in new : x \in Carries[p.up]}

\* Mutant of Folded: ids the new parts do not carry are forgotten.
FoldedAfresh(new, order) ==
  [x \in Ids |->
     IF Carriers(new, x) = {} THEN None
     ELSE (CHOOSE p \in Carriers(new, x) :
             \A q \in Carriers(new, x) : order[q] <= order[p]).up]

Folded(new, order) ==
  [x \in Ids |->
     IF Carriers(new, x) = {} THEN Vectors[x]
     ELSE (CHOOSE p \in Carriers(new, x) :
             \A q \in Carriers(new, x) : order[q] <= order[p]).up]

\* add_shard swallows a failing pg_notify, so that the commit rolls the row back
\* and the handler goes on as if the shard were there.
RolledBack(b, new) ==
  /\ Fault
  /\ undone' = undone \cup new
  /\ pc' = [pc EXCEPT ![b] = "undone"]
  /\ UNCHANGED newest

CommitBuild(b) ==
  /\ pc[b] = "build"
  /\ \/ /\ At(b, "build", "settle")
        /\ \E order \in Orders(scan[b]) :
             newest' = [vecs |-> Folded(scan[b], order), manifest |-> Manifest \cup scan[b]]
        /\ UNCHANGED <<undone, faults>>
     \/ RolledBack(b, scan[b])
  /\ UNCHANGED <<job, staged, vectors_used, queueVars, parts, landed, datasetVars, lock,
                 msg, scan, deletes>>

\* Mutant of BuildFails: the handler is left without looking at the import job.
FailQuietly(b) ==
  /\ pc[b] \in {"scan", "build", "delete"} /\ Fault
  /\ status' = "error"
  /\ pc' = [pc EXCEPT ![b] = "acking"]
  /\ lock' = None
  /\ scan' = [scan EXCEPT ![b] = {}]
  /\ UNCHANGED <<job, staged, vectors_used, queueVars, parts, landed, shardVars, row_count,
                 msg, deletes>>

\* The build failed and said so: status `error`, and no exception.
BuildFails(b) ==
  /\ pc[b] \in {"scan", "build", "delete"} /\ Fault
  /\ status' = "error"
  /\ pc' = [pc EXCEPT ![b] = IF msg[b][1] = "DATASET_READY" THEN "failed_build" ELSE "acking"]
  /\ lock' = None
  /\ scan' = [scan EXCEPT ![b] = {}]
  /\ UNCHANGED <<job, staged, vectors_used, queueVars, parts, landed, shardVars, row_count,
                 msg, deletes>>

\* A catalog call outside the handled sections raises: the job is failed if it was
\* open, although its shard may be committed, and the message goes back.
BuildRaises(b) ==
  /\ pc[b] \in {"scan", "delete", "settle", "undone"} /\ Fault
  /\ pc' = [pc EXCEPT ![b] = IF Open(Upload(b)) THEN "raising" ELSE "nacking"]
  /\ lock' = None
  /\ scan' = [scan EXCEPT ![b] = {}]
  /\ UNCHANGED <<job, staged, vectors_used, queueVars, parts, landed, shardVars,
                 datasetVars, msg, deletes>>

\* Without a shard nothing is done; an absent id only settles the status.
run_delete_once(b) ==
  LET x   == msg[b][2]
      hit == newest # None /\ Vectors[x] # None
  IN
  /\ pc[b] = "delete"
  /\ \/ /\ At(b, "delete", IF hit THEN "settle" ELSE "acking")
        /\ newest' = IF hit THEN [newest EXCEPT !.vecs[x] = None] ELSE newest
        /\ UNCHANGED <<undone, faults>>
     \/ hit /\ RolledBack(b, {})
  /\ status' = IF newest # None /\ Vectors[x] = None THEN "indexed" ELSE status
  /\ lock' = IF hit THEN lock ELSE None
  /\ UNCHANGED <<job, staged, vectors_used, queueVars, parts, landed, row_count, msg,
                 scan, deletes>>

\* The ids in the shard the handler has just written, whether its row is there or not.
Written(b) ==
  IF msg[b][1] = "DATASET_READY"
  THEN {x \in Ids : Vectors[x] # None \/ Carriers(scan[b], x) # {}}
  ELSE {x \in Ids : Vectors[x] # None /\ x # msg[b][2]}

\* The row count is reconciled with the shard just written.
SettleBuild(b) ==
  /\ pc[b] \in {"settle", "undone"}
  /\ pc' = [pc EXCEPT ![b] = IF msg[b][1] = "DATASET_READY" THEN "sweep" ELSE "acking"]
  /\ row_count' = Cardinality(Written(b))
  /\ status' = "indexed"
  /\ lock' = IF msg[b][1] = "DATASET_READY" THEN lock ELSE None
  /\ UNCHANGED <<job, staged, vectors_used, queueVars, parts, landed, shardVars, msg, scan,
                 deletes, faults>>

\* Mutant of sweep_indexed_landing: the whole landing area is cleared.
SweepAllParts(b) ==
  /\ At(b, "sweep", "finalize")
  /\ parts' = {}
  /\ staged' = staged \ {u \in Imports : job[u] \in Terminal}
  /\ lock' = None
  /\ scan' = [scan EXCEPT ![b] = {}]
  /\ UNCHANGED <<job, vectors_used, queueVars, landed, shardVars, datasetVars, msg,
                 deletes, faults>>

\* Parts in the newest manifest go, and the staged files of jobs that are over.
\* A store that refuses the deletes does not fail the build.
sweep_indexed_landing(b) ==
  /\ At(b, "sweep", "finalize")
  /\ \/ /\ parts' = parts \ Manifest
        /\ staged' = staged \ {u \in Imports : job[u] \in Terminal}
        /\ UNCHANGED faults
     \/ Fault /\ UNCHANGED <<parts, staged>>
  /\ lock' = None
  /\ scan' = [scan EXCEPT ![b] = {}]
  /\ UNCHANGED <<job, vectors_used, queueVars, landed, shardVars, datasetVars, msg,
                 deletes>>

\* Mutant of Finalize: a build that failed without an exception completes the job.
FinalizeAnyBuild(b) ==
  /\ pc[b] \in {"finalize", "failed_build"}
  /\ pc' = [pc EXCEPT ![b] = IF Open(Upload(b)) THEN "completing" ELSE "acking"]
  /\ UNCHANGED <<job, staged, vectors_used, queueVars, parts, landed, shardVars,
                 datasetVars, lock, msg, scan, deletes, faults>>

\* finalize_import reads the status here and writes it in CompleteJob.
Finalize(b) ==
  LET u == Upload(b) IN
  /\ pc[b] \in {"finalize", "failed_build"}
  /\ pc' = [pc EXCEPT ![b] =
              CASE ~ Open(u) -> "acking"
                [] Open(u) /\ pc[b] = "finalize" -> "completing"
                [] OTHER -> "failing"]
  /\ UNCHANGED <<job, staged, vectors_used, queueVars, parts, landed, shardVars,
                 datasetVars, lock, msg, scan, deletes, faults>>

CompleteJob(b) ==
  /\ At(b, "completing", "acking")
  /\ job' = [job EXCEPT ![Upload(b)] = "completed"]
  /\ UNCHANGED <<staged, vectors_used, queueVars, parts, landed, shardVars, datasetVars,
                 lock, msg, scan, deletes, faults>>

\* An exception in either is caught: the job is failed if it is still open, and the
\* message acked.
FinalizeRaises(b) ==
  /\ pc[b] \in {"finalize", "failed_build", "completing"} /\ Fault
  /\ pc' = [pc EXCEPT ![b] = IF Open(Upload(b)) THEN "failing" ELSE "acking"]
  /\ UNCHANGED <<job, staged, vectors_used, queueVars, parts, landed, shardVars,
                 datasetVars, lock, msg, scan, deletes>>

-----------------------------------------------------------------------------
(* Reaper *)

Holders(m) == {w \in Workers : msg[w] = m}

\* reclaim_stale_processing: a message nobody works on any more comes back, and early
\* so does one whose worker is slow.  DELETE_VECTORS is not a topic it looks at.
Reclaim(m) ==
  /\ m[1] # "DELETE_VECTORS"
  /\ held[m] > 0
  /\ IF held[m] > Cardinality(Holders(m)) THEN UNCHANGED faults ELSE Fault
  /\ held' = [held EXCEPT ![m] = @ - 1]
  /\ publish(m)
  /\ UNCHANGED <<job, staged, vectors_used, parts, landed, shardVars, datasetVars, lock, pc,
                 msg, scan, deletes>>

\* Nobody works for this dataset and no message waits for it.
Quiet ==
  /\ \A w \in Workers : pc[w] = "idle"
  /\ \A m \in Messages : waiting[m] = 0 /\ (m[1] # "DELETE_VECTORS" => held[m] = 0)
  /\ \A x \in Deletable : deletes[x] # "published"

\* Mutant of fail_dataset_if_stale: only one of the two statuses is looked for.
FailStaleValidating ==
  /\ status = "validating"
  /\ IF Quiet THEN UNCHANGED faults ELSE Fault
  /\ status' = "error"
  /\ UNCHANGED <<job, staged, vectors_used, queueVars, parts, landed, shardVars, row_count,
                 lock, pc, msg, scan, deletes>>

\* The compare-and-set on a status that has not moved for DATASET_STUCK_TIMEOUT.
fail_dataset_if_stale ==
  /\ status \in {"validating", "indexing"}
  /\ IF Quiet THEN UNCHANGED faults ELSE Fault
  /\ status' = "error"
  /\ UNCHANGED <<job, staged, vectors_used, queueVars, parts, landed, shardVars, row_count,
                 lock, pc, msg, scan, deletes>>

-----------------------------------------------------------------------------

Client ==
  \/ \E u \in Uploads : \/ create_import(u) \/ PutUpload(u) \/ complete_import(u)
                        \/ post_vectors(u)
  \/ \E x \in Deletable : delete_vector_endpoint(x)

ValidatorStep(v) ==
  \/ TakeUpload(v) \/ Begin(v) \/ Validate(v) \/ ValidateRejects(v)
  \/ SettleQuota(v) \/ OverQuota(v) \/ Land(v) \/ increment_row_count(v)
  \/ MarkJob(v) \/ MarkDataset(v) \/ Announce(v)
  \/ FailJob(v) \/ ack(v) \/ nack(v)

BuilderStep(b) ==
  \/ TakeBuild(b) \/ Scan(b) \/ CommitBuild(b) \/ run_delete_once(b) \/ SettleBuild(b)
  \/ sweep_indexed_landing(b) \/ Finalize(b) \/ CompleteJob(b)
  \/ FailJob(b) \/ ack(b) \/ nack(b)

Next ==
  \/ Client
  \/ \E x \in Deletable : FlipStatus(x)
  \/ \E v \in Validators : ValidatorStep(v) \/ StorageFails(v) \/ ValidatorRaises(v)
  \/ \E b \in Builders :
       BuilderStep(b) \/ BuildFails(b) \/ BuildRaises(b) \/ FinalizeRaises(b)
  \/ \E w \in Workers : Crash(w)
  \/ \E m \in Messages : Reclaim(m)
  \/ fail_dataset_if_stale

Spec == Init /\ [][Next]_vars

\* Workers keep consuming and their handlers return, a request runs to its end, and
\* the reaper ticks.  Clients owe nothing.
Fairness ==
  /\ \A v \in Validators : WF_vars(ValidatorStep(v))
  /\ \A b \in Builders : WF_vars(BuilderStep(b))
  /\ \A x \in Deletable : WF_vars(FlipStatus(x))
  /\ \A m \in Messages : WF_vars(Reclaim(m))
  /\ WF_vars(fail_dataset_if_stale)

FairSpec == Spec /\ Fairness

-----------------------------------------------------------------------------
(* Properties *)

Labels == {"idle", "begin", "reading", "settling", "landing", "counting", "marking",
           "flipping", "publishing", "failing", "raising", "acking", "nacking", "scan", "build",
           "delete", "settle", "undone", "sweep", "finalize", "failed_build", "completing"}

\* Every variable stays in its domain.
TypeOK ==
  /\ job \in [Uploads -> {"none", "awaiting_upload", "validating", "indexing",
                          "completed", "failed"}]
  /\ staged \subseteq Uploads
  /\ vectors_used \in Nat /\ row_count \in Nat /\ faults \in Nat
  /\ waiting \in [Messages -> Nat] /\ held \in [Messages -> Nat]
  /\ parts \subseteq landed
  /\ landed \subseteq Parts
  /\ newest # None => newest \in Shards /\ newest.manifest \subseteq landed
  /\ undone \subseteq landed
  /\ status \in {"empty", "validating", "indexing", "indexed", "error"}
  /\ lock \in Builders \cup {None}
  /\ pc \in [Workers -> Labels]
  /\ msg \in [Workers -> Messages \cup {None}]
  /\ \A w \in Workers : pc[w] = "idle" <=> msg[w] = None
  /\ scan \in [Builders -> SUBSET landed]
  /\ deletes \in [Deletable -> {"none", "published", "answered"}]

\* docs/api/imports.md: a completed import "is built and queryable".  However messages
\* are repeated and builds fail, skip or find nothing to do, a job is completed only
\* when the newest shard was built from a part of it.  The exception is a build whose
\* catalog row was rolled back under the builder: then the part is still where the
\* next build looks for it.
CompletedIsIndexed ==
  \A u \in Imports : job[u] = "completed" /\ Carries[u] # {} =>
    \E p \in Manifest \cup (undone \cap parts) : p.up = u

\* A landing part is deleted only when the newest shard was built from it: a part that
\* arrives while a build runs survives the sweep at its end.
NoUploadLost == landed \subseteq parts \cup Manifest

\* An ingest build never drops what the shard before it held: each id of each part
\* folded so far is still there unless its delete was asked for, and nothing else is.
ShardMatchesManifest ==
  /\ \A p \in Manifest : \A x \in Carries[p.up] :
       (x \in Deletable => deletes[x] = "none") => Vectors[x] # None
  /\ \A x \in Ids : Vectors[x] # None =>
       \E p \in Manifest : p.up = Vectors[x] /\ x \in Carries[p.up]

\* Quota: whatever was landed has been charged for, and the charge stays within the
\* tenant's quota although admission and settlement are separate.
LandedIsCharged ==
  /\ vectors_used <= VectorQuota
  /\ vectors_used >= Cardinality({c \in Uploads \X Ids :
                                    c[2] \in Carries[c[1]] /\ \E p \in landed : p.up = c[1]})

\* Every import that was completed by its client ends completed or failed, although a
\* worker dies, a call fails or a message is delivered twice.
ImportsEnd ==
  <>[](\A u \in Imports : job[u] \notin {"validating", "indexing"})

\* The dataset does not stay in validating or indexing for ever.
StatusSettles == <>[](status \notin {"validating", "indexing"})

=============================================================================
