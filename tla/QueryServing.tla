---------------------------- MODULE QueryServing ----------------------------
(***************************************************************************)
(* A query in the query API.  With a shard, a thread answers from the warm *)
(* index cache or loads the shard cold: threads that need the same file    *)
(* share one download.  Without shard and recall rows it publishes         *)
(* RUN_EPHEMERAL_QUERY and returns a job id; an ephemeral runner takes the *)
(* message, fetches and searches the newest shard and publishes an         *)
(* envelope, ok or error, on RESULT_READY; the result consumer of some     *)
(* replica stores it in Redis under the job id, where a status poll finds  *)
(* it until it expires.                                                    *)
(*                                                                         *)
(* One dataset with one shard, one query API process, RB_SHARD_TIER_BYTES  *)
(* unset (ShardTier has the other case).  The queue is taken at its        *)
(* contract: a message is in one place, a dead worker's message of         *)
(* RUN_EPHEMERAL_QUERY is reclaimed, one of RESULT_READY is not            *)
(* (ReliableQueue has the steps in between).                               *)
(*   services/query_api/v1_query.py, result_store.py                       *)
(*   services/ephemeral_runner/run.py, adapters/cache/shard_fetch.py       *)
(*   adapters/errors.py, adapters/queue/queue.py, reaper.py                *)
(***************************************************************************)
EXTENDS Naturals, Sequences

CONSTANTS
  Threads,       \* query threads of the query API process
  NoThread,
  Jobs,          \* correlation ids
  Runners,       \* ephemeral_runner processes, with one cache directory
  Consumers,     \* RESULT_READY consumer threads of the query API
  MaxAttempts,   \* QUEUE_MAX_ATTEMPTS
  MaxFailures    \* bound: deaths, outages, reclaims of a live runner's message

ASSUME ServingAssumption ==
  NoThread \notin Threads /\ MaxAttempts \in Nat \ {0} /\ MaxFailures \in Nat

VARIABLES
  shard,         \* the dataset has its first shard
  file,          \* the shard in each CACHE_DIR: absent, torn or whole
  thread,        \* [Threads -> what it is doing]
  inflight,      \* _INFLIGHT_DOWNLOADS: the thread that downloads the shard
  warm,          \* _SHARD_CACHE: the shard's index and sidecar as they were read
  msg,           \* [Jobs -> where the job's message is]
  attempts,      \* [Jobs -> deliveries]
  runner,        \* [Runners -> what it is doing]
  replies,       \* RESULT_READY
  consumer,      \* [Consumers -> the envelope in hand, or NoReply]
  result,        \* [Jobs -> query_result:{job}, or NoReply]
  announced,     \* jobs an envelope was published for            (history)
  deaths,        \* [Jobs -> runners that died at it]             (history)
  stranded,      \* jobs whose envelope a dead consumer held      (history)
  unread,        \* who got an empty sidecar: jobs, and the query API
                 \* process in its present life                (history)
  failures

jobVars   == <<msg, attempts>>
replyVars == <<replies, consumer, result>>
histVars  == <<announced, deaths, stranded>>
hotVars   == <<thread, inflight, warm>>
runVars   == <<jobVars, runner, replyVars, histVars>>
faultVars == <<unread, failures>>
servingVars == <<shard, file, hotVars, runVars, faultVars>>

\* The classes of exception the runner tells apart.
Errors == {"storage", "permission", "os", "other"}

Codes == {"storage_unavailable", "cache_unavailable", "ephemeral_error"}

classify_query_error(e) ==
  CASE e = "storage"             -> "storage_unavailable"
    [] e \in {"permission", "os"} -> "cache_unavailable"
    [] OTHER                     -> "ephemeral_error"

NoJob   == "none"
NoReply == [job |-> NoJob]

\* whole: the search ran over a complete file, or over no shard at all.
\* named: with the sidecar.  Without it hits are named by their hashes and none
\* matches a filter.
Ok(j, whole, named) ==
  [job |-> j, ok |-> TRUE, whole |-> whole, named |-> named, tries |-> 0]
Failed(j, err) ==
  [job |-> j, ok |-> FALSE, code |-> classify_query_error(err), tries |-> 0]

IdleRunner == [pc |-> "idle", job |-> NoJob]

\* on: the thread whose event is waited for; read, named: the index an answer is
\* from, and whether its sidecar was there.
Free == [pc |-> "idle", on |-> NoThread, read |-> "none", named |-> TRUE]

Cold == [read |-> "none", named |-> TRUE]

ServingInit ==
  /\ shard = FALSE
  /\ file = [dir \in {"api", "runner"} |-> "absent"]
  /\ thread = [t \in Threads |-> Free]
  /\ inflight = NoThread
  /\ warm = Cold
  /\ msg = [j \in Jobs |-> "none"]
  /\ attempts = [j \in Jobs |-> 0]
  /\ runner = [r \in Runners |-> IdleRunner]
  /\ replies = <<>>
  /\ consumer = [c \in Consumers |-> NoReply]
  /\ result = [j \in Jobs |-> NoReply]
  /\ announced = {} /\ deaths = [j \in Jobs |-> 0] /\ stranded = {}
  /\ unread = [api |-> FALSE, jobs |-> {}] /\ failures = 0

Counted == failures < MaxFailures /\ failures' = failures + 1

Failure == Counted /\ UNCHANGED unread

\* read_shard_sidecar raises nothing: an object that is missing or cannot be read
\* counts as an empty one.
ReadSidecar(named, victims) ==
  \/ named /\ UNCHANGED faultVars
  \/ ~named /\ Counted /\ unread' = victims

-----------------------------------------------------------------------------
(* A query thread, with a shard *)

Doing(t, pc) == thread[t].pc = pc
Do(t, pc) == thread' = [thread EXCEPT ![t].pc = pc]
Leave(t) == thread' = [thread EXCEPT ![t] = Free]
There == file["api"] # "absent"

\* _search_one_shard asks the warm cache first.
cache_get(t) ==
  /\ Doing(t, "idle")
  /\ shard
  /\ thread' = [thread EXCEPT ![t] = IF warm = Cold THEN [@ EXCEPT !.pc = "path"]
       ELSE [@ EXCEPT !.pc = "answered", !.read = warm.read, !.named = warm.named]]
  /\ UNCHANGED <<shard, file, inflight, warm, runVars, faultVars>>

\* os.path.exists, without the lock.
FastPath(t) ==
  /\ Doing(t, "path")
  /\ Do(t, IF There THEN "load" ELSE "lock")
  /\ UNCHANGED <<shard, file, inflight, warm, runVars, faultVars>>

\* Mutant: the path is not looked at again under the lock.
RegisterUnchecked(t) ==
  /\ Doing(t, "lock")
  /\ thread' = [thread EXCEPT ![t] = IF inflight = NoThread THEN [@ EXCEPT !.pc = "fetch"]
                                     ELSE [@ EXCEPT !.pc = "wait", !.on = inflight]]
  /\ inflight' = IF inflight = NoThread THEN t ELSE inflight
  /\ UNCHANGED <<shard, file, warm, runVars, faultVars>>

\* Under the lock: look again, wait for the download in flight, or start one.
Register(t) ==
  /\ Doing(t, "lock")
  /\ thread' = [thread EXCEPT ![t] = IF There THEN [@ EXCEPT !.pc = "load"]
                                     ELSE IF inflight = NoThread THEN [@ EXCEPT !.pc = "fetch"]
                                     ELSE [@ EXCEPT !.pc = "wait", !.on = inflight]]
  /\ inflight' = IF ~There /\ inflight = NoThread THEN t ELSE inflight
  /\ UNCHANGED <<shard, file, warm, runVars, faultVars>>

\* The bytes arrive in a file of this attempt's own name, which then takes the
\* place of the path.
Fetch(t) ==
  /\ Doing(t, "fetch")
  /\ file' = [file EXCEPT !["api"] = "whole"]
  /\ thread' = [thread EXCEPT ![t].pc = "pop", ![t].read = "whole"]
  /\ UNCHANGED <<shard, inflight, warm, runVars, faultVars>>

FetchFails(t) ==
  /\ Doing(t, "fetch")
  /\ Failure
  /\ Do(t, "pop")
  /\ UNCHANGED <<shard, file, inflight, warm, runVars>>

\* finally: the entry goes first ...
Pop(t) ==
  /\ Doing(t, "pop")
  /\ inflight' = NoThread
  /\ Do(t, "set")
  /\ UNCHANGED <<shard, file, warm, runVars, faultVars>>

\* ... then the event wakes those who wait for it; a failed download raises.
SetEvent(t) ==
  /\ Doing(t, "set")
  /\ thread' = [u \in Threads |->
       IF u = t THEN IF thread[t].read = "whole" THEN [Free EXCEPT !.pc = "load"] ELSE Free
       ELSE IF thread[u].on = t THEN [Free EXCEPT !.pc = "woken"] ELSE thread[u]]
  /\ UNCHANGED <<shard, file, inflight, warm, runVars, faultVars>>

\* The initiator's file is there, or this query fails as well.
Woken(t) ==
  /\ Doing(t, "woken")
  /\ IF There THEN Do(t, "load") ELSE Leave(t)
  /\ UNCHANGED <<shard, file, inflight, warm, runVars, faultVars>>

WaitTimesOut(t) ==
  /\ Doing(t, "wait")
  /\ Failure
  /\ Leave(t)
  /\ UNCHANGED <<shard, file, inflight, warm, runVars>>

\* Read the index and its sidecar and keep both warm, an empty sidecar too, unless
\* they are larger than the whole cache.
cache_put(t) ==
  /\ Doing(t, "load")
  /\ \E named \in BOOLEAN :
       /\ ReadSidecar(named, [unread EXCEPT !.api = TRUE])
       /\ thread' = [thread EXCEPT ![t].pc = "answered", ![t].read = file["api"],
                                   ![t].named = named]
       /\ warm' \in {warm, [read |-> file["api"], named |-> named]}
  /\ UNCHANGED <<shard, file, inflight, runVars>>

Respond(t) ==
  /\ Doing(t, "answered")
  /\ Leave(t)
  /\ UNCHANGED <<shard, file, inflight, warm, runVars, faultVars>>

\* Shards of other datasets push this one out.
WarmEvicted ==
  /\ warm # Cold
  /\ warm' = Cold
  /\ UNCHANGED <<shard, file, thread, inflight, runVars, faultVars>>

\* The process dies, in the middle of a download too, and starts again on the
\* same directory.
ApiDies ==
  /\ \E t \in Threads : ~Doing(t, "idle")
  /\ Counted /\ unread' = [unread EXCEPT !.api = FALSE]
  /\ thread' = [t \in Threads |-> Free]
  /\ inflight' = NoThread
  /\ warm' = Cold
  /\ UNCHANGED <<shard, file, runVars>>

-----------------------------------------------------------------------------
(* A query without shard, and its result *)

\* run_query: no shard resolved and no recall row to show or to hide anything.
NothingAnswers == ~shard

enqueue_ephemeral(j) == msg' = [msg EXCEPT ![j] = "waiting"]

\* POST /v1/query answered with a job id.
v1_query(j) ==
  /\ msg[j] = "none"
  /\ NothingAnswers
  /\ enqueue_ephemeral(j)
  /\ UNCHANGED <<shard, file, hotVars, attempts, runner, replyVars, histVars, faultVars>>

\* The index builder commits the dataset's first shard.
ShardCommitted ==
  /\ ~shard
  /\ shard' = TRUE
  /\ UNCHANGED <<file, hotVars, jobVars, runner, replyVars, histVars, faultVars>>

TakeReply(c) ==
  /\ consumer[c] = NoReply
  /\ replies # <<>>
  /\ consumer' = [consumer EXCEPT ![c] = [Head(replies) EXCEPT !.tries = @ + 1]]
  /\ replies' = Tail(replies)
  /\ UNCHANGED <<shard, file, hotVars, jobVars, runner, result, histVars, faultVars>>

\* SET overwrites.
store_result(res) == res

\* Stored, then acknowledged.
result_consumer_loop(c) ==
  /\ consumer[c] # NoReply
  /\ result' = [result EXCEPT ![consumer[c].job] = store_result(consumer[c])]
  /\ consumer' = [consumer EXCEPT ![c] = NoReply]
  /\ UNCHANGED <<shard, file, hotVars, jobVars, runner, replies, histVars, faultVars>>

\* The store raises: nack puts the envelope back, or gives it up.
StoreFails(c) ==
  /\ consumer[c] # NoReply
  /\ Failure
  /\ replies' = IF consumer[c].tries < MaxAttempts THEN Append(replies, consumer[c])
                                                   ELSE replies
  /\ stranded' = IF consumer[c].tries < MaxAttempts THEN stranded
                 ELSE stranded \cup {consumer[c].job}
  /\ consumer' = [consumer EXCEPT ![c] = NoReply]
  /\ UNCHANGED <<shard, file, hotVars, jobVars, runner, result, announced, deaths>>

\* The replica dies before it stores; nobody reclaims RESULT_READY.
ConsumerDies(c) ==
  /\ consumer[c] # NoReply
  /\ Failure
  /\ stranded' = stranded \cup {consumer[c].job}
  /\ consumer' = [consumer EXCEPT ![c] = NoReply]
  /\ UNCHANGED <<shard, file, hotVars, jobVars, runner, replies, result, announced, deaths>>

get_result(j) == result[j]

\* What GET /v1/query/status/{job_id} answers.
v1_query_status(j) ==
  LET res == get_result(j) IN
  IF res = NoReply THEN "not ready" ELSE IF res.ok THEN "matches" ELSE res.code

-----------------------------------------------------------------------------
(* The runner *)

At(r, pc) == runner[r].pc = pc
Goto(r, pc) == runner' = [runner EXCEPT ![r].pc = pc]

consume(r) ==
  /\ At(r, "idle")
  /\ \E j \in Jobs :
       /\ msg[j] = "waiting"
       /\ msg' = [msg EXCEPT ![j] = "processing"]
       /\ attempts' = [attempts EXCEPT ![j] = @ + 1]
       /\ runner' = [runner EXCEPT ![r] = [pc |-> "handle", job |-> j]]
  /\ UNCHANGED <<shard, file, hotVars, replyVars, histVars, faultVars>>

publish(res) ==
  /\ replies' = <<res>> \o replies
  /\ announced' = announced \cup {res.job}

\* No shard yet: the answer is an empty list.
HandleNoShard(r) ==
  /\ At(r, "handle")
  /\ ~shard
  /\ publish(Ok(runner[r].job, TRUE, TRUE))
  /\ Goto(r, "ack")
  /\ UNCHANGED <<shard, file, hotVars, jobVars, consumer, result, deaths, stranded, faultVars>>

\* A file that is there is used as it is; else a download begins.
ensure_cached(r) ==
  /\ At(r, "handle")
  /\ shard
  /\ Goto(r, IF file["runner"] = "absent" THEN "download" ELSE "search")
  /\ UNCHANGED <<shard, file, hotVars, jobVars, replyVars, histVars, faultVars>>

\* Mutant: the bytes are streamed to the path itself.
StreamInPlace(r) ==
  /\ At(r, "download")
  /\ file' = [file EXCEPT !["runner"] = "torn"]
  /\ Goto(r, "replace")
  /\ UNCHANGED <<shard, hotVars, jobVars, replyVars, histVars, faultVars>>

\* download_to streams into a file of this attempt's own name.
download_to(r) ==
  /\ At(r, "download")
  /\ Goto(r, "replace")
  /\ UNCHANGED <<shard, file, hotVars, jobVars, replyVars, histVars, faultVars>>

\* os.replace once every byte is there.
Replace(r) ==
  /\ At(r, "replace")
  /\ file' = [file EXCEPT !["runner"] = "whole"]
  /\ Goto(r, "search")
  /\ UNCHANGED <<shard, hotVars, jobVars, replyVars, histVars, faultVars>>

\* Load, read the sidecar, search, map ids to records, filter; then the envelope,
\* which is one of success without the sidecar too.
Search(r) ==
  /\ At(r, "search")
  /\ \E named \in BOOLEAN :
       /\ ReadSidecar(named, [unread EXCEPT !.jobs = @ \cup {runner[r].job}])
       /\ publish(Ok(runner[r].job, file["runner"] = "whole", named))
  /\ Goto(r, "ack")
  /\ UNCHANGED <<shard, file, hotVars, jobVars, consumer, result, deaths, stranded>>

\* Mutant: the exception goes up without an envelope.
RaiseSilently(r, err) ==
  /\ Goto(r, "nack")
  /\ UNCHANGED <<shard, file, hotVars, jobVars, replyVars, histVars>>

\* The partial file is removed, the error envelope published, the exception
\* raised again.
publish_error_envelope(r, err) ==
  /\ publish(Failed(runner[r].job, err))
  /\ Goto(r, "nack")
  /\ UNCHANGED <<shard, file, hotVars, jobVars, consumer, result, deaths, stranded>>

\* Storage, cache directory or index fails.
HandleFails(r) ==
  /\ runner[r].pc \in {"handle", "download", "replace", "search"}
  /\ Failure
  /\ \E err \in Errors : publish_error_envelope(r, err)

\* ack takes the entry off the processing list if it is there, whoever's
\* delivery it is by now, and clears its attempts.
ack(r) ==
  /\ At(r, "ack")
  /\ LET j == runner[r].job IN
     /\ msg' = [msg EXCEPT ![j] = IF @ = "processing" THEN "gone" ELSE @]
     /\ attempts' = [attempts EXCEPT ![j] = 0]
  /\ runner' = [runner EXCEPT ![r] = IdleRunner]
  /\ UNCHANGED <<shard, file, hotVars, replyVars, histVars, faultVars>>

\* A delivery that ends without success: again, or the dead-letter list.
Retried(j) == IF attempts[j] < MaxAttempts THEN "waiting" ELSE "dead"

nack(r) ==
  /\ At(r, "nack")
  /\ LET j == runner[r].job IN
     msg' = [msg EXCEPT ![j] = IF @ = "processing" THEN Retried(j) ELSE @]
  /\ runner' = [runner EXCEPT ![r] = IdleRunner]
  /\ UNCHANGED <<shard, file, hotVars, attempts, replyVars, histVars, faultVars>>

\* Killed anywhere; supervised, it starts again.
RunnerDies(r) ==
  /\ ~At(r, "idle")
  /\ Failure
  /\ deaths' = [deaths EXCEPT ![runner[r].job] = @ + 1]
  /\ runner' = [runner EXCEPT ![r] = IdleRunner]
  /\ UNCHANGED <<shard, file, hotVars, jobVars, replyVars, announced, stranded>>

AtWork(j) == \E r \in Runners : runner[r].job = j

Abandoned(j) == msg[j] = "processing" /\ ~AtWork(j)

\* The reaper moves a message whose delivery is older than the timeout.
ReclaimAbandoned(j) ==
  /\ Abandoned(j)
  /\ msg' = [msg EXCEPT ![j] = Retried(j)]
  /\ UNCHANGED <<shard, file, hotVars, attempts, runner, replyVars, histVars, faultVars>>

\* ... although its runner is only slow.
ReclaimLive(j) ==
  /\ msg[j] = "processing" /\ AtWork(j)
  /\ Failure
  /\ msg' = [msg EXCEPT ![j] = Retried(j)]
  /\ UNCHANGED <<shard, file, hotVars, attempts, runner, replyVars, histVars>>

\* RESULT_TTL_SECONDS: Redis drops the key.
Expire(j) ==
  /\ result[j] # NoReply
  /\ msg[j] \in {"gone", "dead"}
  /\ result' = [result EXCEPT ![j] = NoReply]
  /\ UNCHANGED <<shard, file, hotVars, jobVars, runner, replies, consumer, histVars, faultVars>>

-----------------------------------------------------------------------------

RunnerStep(r) ==
  \/ consume(r) \/ HandleNoShard(r) \/ ensure_cached(r) \/ download_to(r) \/ Replace(r)
  \/ Search(r) \/ ack(r) \/ nack(r)

ConsumerStep(c) == TakeReply(c) \/ result_consumer_loop(c)

ThreadStep(t) ==
  \/ cache_get(t) \/ FastPath(t) \/ Register(t) \/ Fetch(t) \/ Pop(t) \/ SetEvent(t)
  \/ Woken(t) \/ cache_put(t) \/ Respond(t)

ServingNext ==
  \/ ShardCommitted \/ WarmEvicted \/ ApiDies
  \/ \E t \in Threads : ThreadStep(t) \/ FetchFails(t) \/ WaitTimesOut(t)
  \/ \E j \in Jobs : \/ v1_query(j) \/ ReclaimAbandoned(j) \/ ReclaimLive(j)
                     \/ Expire(j)
  \/ \E r \in Runners : RunnerStep(r) \/ HandleFails(r) \/ RunnerDies(r)
  \/ \E c \in Consumers : ConsumerStep(c) \/ StoreFails(c) \/ ConsumerDies(c)

\* Runner and consumer loops keep polling, the reaper keeps ticking.
Fairness ==
  /\ \A r \in Runners : WF_servingVars(RunnerStep(r))
  /\ \A c \in Consumers : WF_servingVars(ConsumerStep(c))
  /\ \A j \in Jobs : WF_servingVars(ReclaimAbandoned(j))

FairSpec == ServingInit /\ [][ServingNext]_servingVars /\ Fairness

-----------------------------------------------------------------------------
(* Properties *)

\* A hot answer or a stored result comes from a complete index file, also when a
\* process died in the middle of a download or several download the same shard
\* into one directory.  One without the records' ids and metadata, which is empty
\* under a filter, is given where a sidecar read failed: for a job, in one of its
\* own runs; on the hot path, in the present life of the process, which keeps the
\* empty sidecar warm.  Nobody else's failed read leads to one.
AnswersAreWhole ==
  /\ \A j \in Jobs : v1_query_status(j) = "matches" =>
       result[j].whole /\ (result[j].named \/ j \in unread.jobs)
  /\ \A t \in Threads : Doing(t, "answered") =>
       thread[t].read = "whole" /\ (thread[t].named \/ unread.api)

\* Threads share downloads: at most one thread of the process fetches, no thread
\* fetches a file that is there, and whoever waits has a fetching thread, or one
\* that is about to wake it, to wait for.
DownloadsAreShared ==
  /\ \A t, u \in Threads : Doing(t, "fetch") /\ Doing(u, "fetch") => t = u
  /\ \A t \in Threads :
       /\ Doing(t, "fetch") => ~There
       /\ Doing(t, "wait") => thread[thread[t].on].pc \in {"fetch", "pop", "set"}

\* Every job is answered, with matches or with an error, unless a replica lost
\* its envelope or a runner died in each of its attempts: whatever is redelivered,
\* the poller is not left waiting.
JobSettles ==
  \A j \in Jobs :
    msg[j] = "waiting" ~> \/ v1_query_status(j) # "not ready"
                          \/ j \in stranded
                          \/ msg[j] = "dead" /\ deaths[j] >= MaxAttempts
=============================================================================
