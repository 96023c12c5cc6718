---------------------------- MODULE QueryApiProofs ----------------------------
(***************************************************************************)
(* Proofs about what clients of the query API get: QueryServing, for any   *)
(* number of threads, runners, consumers, jobs, attempts and failures, and *)
(* VectorReads, for any finite set of ids, any number of readers and every *)
(* page size, top_k, cap, batch size and fold.  The two specifications     *)
(* share no variable.                                                      *)
(***************************************************************************)
EXTENDS QueryServing, VectorReads, FiniteSetTheorems, SequenceTheorems, TLAPS

-----------------------------------------------------------------------------
(* Hot loads and ephemeral jobs: QueryServing *)

\* Where a thread and a runner can be.
ThreadPcs == {"idle", "path", "lock", "fetch", "pop", "set", "wait", "woken", "load", "answered"}

RunnerPcs == {"idle", "handle", "download", "replace", "search", "ack", "nack"}

\* An answer from a complete file, with the sidecar unless the job is one of those
\* that failed to read it; or an error.
Envelopes(nameless) ==
  [job : Jobs, ok : {TRUE}, whole : {TRUE}, named : {TRUE}, tries : Nat]
    \cup [job : nameless, ok : {TRUE}, whole : {TRUE}, named : {FALSE}, tries : Nat]
    \cup [job : Jobs, ok : {FALSE}, code : Codes, tries : Nat]

Envelope == Envelopes(unread.jobs)

ThreadState == [pc : ThreadPcs, on : Threads \cup {NoThread},
                read : {"none", "whole"}, named : BOOLEAN]

WarmType == warm \in {Cold} \cup [read : {"whole"}, named : BOOLEAN]

HotType ==
  /\ NoThread \notin Threads
  /\ thread \in [Threads -> ThreadState]
  /\ inflight \in Threads \cup {NoThread}
  /\ WarmType
  /\ unread \in [api : BOOLEAN, jobs : SUBSET Jobs]

\* No cache directory ever shows a file that is not complete.
FileType == file \in [{"api", "runner"} -> {"absent", "whole"}]

EnvelopeType ==
  /\ replies \in Seq(Envelope)
  /\ consumer \in [Consumers -> Envelope \cup {NoReply}]
  /\ result \in [Jobs -> Envelope \cup {NoReply}]
  /\ \A j \in Jobs : result[j] # NoReply => result[j].job = j

\* Where a thread stands in the download of the shard.
Downloading(t) ==
  /\ thread[t].pc \in {"fetch", "pop"} <=> inflight = t
  /\ thread[t].pc = "fetch" => ~There
  /\ thread[t].pc = "load" => There
  /\ thread[t].pc = "answered" => thread[t].read = "whole"
  /\ thread[t].read = "whole" =>
       thread[t].pc = "answered" \/ (thread[t].pc \in {"pop", "set"} /\ There)

\* Whoever waits, and nobody else, names a thread that is still to wake it.
Waiting(t) ==
  IF thread[t].pc = "wait"
  THEN thread[t].on \in Threads /\ thread[thread[t].on].pc \in {"fetch", "pop", "set"}
  ELSE thread[t].on = NoThread

\* No thread has an empty sidecar, and none is warm, that this process has not read.
NamesRead ==
  /\ \A t \in Threads : ~thread[t].named => unread.api
  /\ ~warm.named => unread.api

\* A runner at work has a job, and one that searches a complete file.
RunnerInv ==
  /\ runner \in [Runners -> [pc : RunnerPcs, job : Jobs \cup {NoJob}]]
  /\ \A r \in Runners : /\ runner[r].pc # "idle" => runner[r].job \in Jobs
                        /\ runner[r].pc = "search" => file["runner"] = "whole"

ThreadInv ==
  /\ HotType /\ FileType /\ NamesRead
  /\ \A t \in Threads : Downloading(t) /\ Waiting(t)

ServingInv == ThreadInv /\ RunnerInv /\ EnvelopeType

-----------------------------------------------------------------------------
(* The threads of the query API *)

\* The steps of the other processes: they leave what threads look at alone.
LEMMA ThreadsUndisturbed ==
  ASSUME ThreadInv, UNCHANGED <<hotVars, file, unread>>
  PROVE  ThreadInv'
  BY DEF ThreadInv, HotType, WarmType, FileType, NamesRead, Downloading, Waiting, There,
         hotVars

\* A runner's failed read of a sidecar is not the query API's.
LEMMA SearchKeepsThreads ==
  ASSUME ThreadInv, NEW r \in Runners, Search(r), RunnerInv
  PROVE  ThreadInv'
<1>1. unread' = unread \/ unread' = [unread EXCEPT !.jobs = @ \cup {runner[r].job}]
  <2>1. PICK named \in BOOLEAN :
          ReadSidecar(named, [unread EXCEPT !.jobs = @ \cup {runner[r].job}])
    BY DEF Search
  <2> QED BY <2>1 DEF ReadSidecar, faultVars
<1>2. runner[r].job \in Jobs
  BY DEF Search, At, RunnerInv
<1>3. unread' \in [api : BOOLEAN, jobs : SUBSET Jobs] /\ unread'.api = unread.api
  BY <1>1, <1>2 DEF ThreadInv, HotType
<1>4. UNCHANGED <<thread, inflight, warm, file>>
  BY DEF Search, hotVars
<1> QED
  BY <1>3, <1>4 DEF ThreadInv, HotType, WarmType, FileType, NamesRead, Downloading, Waiting, There

\* A thread goes on: it neither waits nor downloads.
Onward(t) ==
  /\ thread' \in [Threads -> ThreadState]
  /\ \A u \in Threads : u # t => thread'[u] = thread[u]
  /\ thread'[t].pc \notin {"fetch", "pop", "set", "wait"}
  /\ thread'[t].on = NoThread
  /\ thread'[t].pc = "load" => There
  /\ thread'[t].pc = "answered" <=> thread'[t].read = "whole"
  /\ WarmType'
  /\ unread' \in [api : BOOLEAN, jobs : SUBSET Jobs]
  /\ unread.api => unread'.api
  /\ ~thread'[t].named \/ ~warm'.named => unread'.api
  /\ UNCHANGED <<file, inflight>>

\* Nobody waits for a thread that goes on.
LEMMA OnwardKeeps ==
  ASSUME ThreadInv, NEW t \in Threads, Onward(t),
         thread[t].pc \notin {"fetch", "pop", "set"}
  PROVE  ThreadInv'
<1>1. HotType' /\ FileType'
  BY DEF ThreadInv, HotType, FileType, Onward
<1>3. NamesRead'
  BY DEF ThreadInv, NamesRead, Onward
<1>2. ASSUME NEW u \in Threads
      PROVE  Downloading(u)' /\ Waiting(u)'
  BY <1>2 DEF ThreadInv, HotType, Downloading, Waiting, There, Onward, ThreadState
<1> QED BY <1>1, <1>2, <1>3 DEF ThreadInv

\* A thread that goes on without reading the sidecar.
LEMMA UnnamedOnward ==
  ASSUME ThreadInv, NEW t \in Threads, UNCHANGED <<unread, warm>>,
         thread'[t].named = thread[t].named
  PROVE  /\ WarmType'
         /\ unread' \in [api : BOOLEAN, jobs : SUBSET Jobs]
         /\ unread.api => unread'.api
         /\ ~thread'[t].named \/ ~warm'.named => unread'.api
  BY DEF ThreadInv, HotType, WarmType, NamesRead

\* Under the lock a thread finds the file, a download to wait for, or none.
LEMMA RegisterKeeps ==
  ASSUME ThreadInv, NEW t \in Threads, Register(t)
  PROVE  ThreadInv'
<1>0. thread[t] \in ThreadState /\ inflight \in Threads \cup {NoThread}
  BY DEF ThreadInv, HotType
<1>1. HotType' /\ FileType'
  <2>1. /\ [thread[t] EXCEPT !.pc = "load"] \in ThreadState
        /\ [thread[t] EXCEPT !.pc = "fetch"] \in ThreadState
        /\ [thread[t] EXCEPT !.pc = "wait", !.on = inflight] \in ThreadState
    BY <1>0 DEF ThreadState, ThreadPcs
  <2>2. thread' \in [Threads -> ThreadState] /\ inflight' \in Threads \cup {NoThread}
    BY <2>1, <1>0 DEF ThreadInv, HotType, Register
  <2> QED BY <2>2 DEF ThreadInv, HotType, WarmType, FileType, Register, faultVars
<1>3. NamesRead'
  BY DEF ThreadInv, HotType, NamesRead, Register, faultVars
<1>2. ASSUME NEW u \in Threads
      PROVE  Downloading(u)' /\ Waiting(u)'
  <2>1. CASE u = t
    BY <1>2, <2>1 DEF ThreadInv, HotType, Downloading, Waiting, There, Register, Doing
  <2>2. CASE u # t
    BY <1>2, <2>2 DEF ThreadInv, HotType, Downloading, Waiting, There, Register, Doing
  <2> QED BY <2>1, <2>2
<1> QED BY <1>1, <1>2, <1>3 DEF ThreadInv

\* Only the thread in _INFLIGHT_DOWNLOADS can complete the file.
LEMMA FetchKeeps ==
  ASSUME ThreadInv, NEW t \in Threads, Fetch(t)
  PROVE  ThreadInv'
<1>1. HotType' /\ FileType'
  <2>1. [thread[t] EXCEPT !.pc = "pop", !.read = "whole"] \in ThreadState
    BY DEF ThreadInv, HotType, ThreadState, ThreadPcs
  <2>2. thread' = [thread EXCEPT ![t] = [thread[t] EXCEPT !.pc = "pop", !.read = "whole"]]
    BY DEF ThreadInv, HotType, Fetch
  <2> QED BY <2>1, <2>2 DEF ThreadInv, HotType, WarmType, FileType, Fetch, faultVars
<1>3. NamesRead'
  BY DEF ThreadInv, HotType, NamesRead, Fetch, faultVars
<1>2. ASSUME NEW u \in Threads
      PROVE  Downloading(u)' /\ Waiting(u)'
  BY <1>2 DEF ThreadInv, HotType, FileType, Downloading, Waiting, There, Fetch, Doing
<1> QED BY <1>1, <1>2, <1>3 DEF ThreadInv

\* A download that fails leaves the file absent and has its thread tell the others.
LEMMA FetchFailsKeeps ==
  ASSUME ThreadInv, NEW t \in Threads, FetchFails(t)
  PROVE  ThreadInv'
<1>1. HotType' /\ FileType'
  BY DEF ThreadInv, HotType, WarmType, FileType, FetchFails, Failure, Do, Doing, ThreadPcs,
         ThreadState
<1>3. NamesRead'
  BY DEF ThreadInv, HotType, NamesRead, FetchFails, Failure, Do
<1>2. ASSUME NEW u \in Threads
      PROVE  Downloading(u)' /\ Waiting(u)'
  BY <1>2 DEF ThreadInv, HotType, Downloading, Waiting, There, FetchFails, Do, Doing
<1> QED BY <1>1, <1>2, <1>3 DEF ThreadInv

\* finally: the entry leaves _INFLIGHT_DOWNLOADS; those who wait still have their thread.
LEMMA PopKeeps ==
  ASSUME ThreadInv, NEW t \in Threads, Pop(t)
  PROVE  ThreadInv'
<1>1. HotType' /\ FileType'
  BY DEF ThreadInv, HotType, WarmType, FileType, Pop, faultVars, Do, Doing, ThreadPcs,
         ThreadState
<1>3. NamesRead'
  BY DEF ThreadInv, HotType, NamesRead, Pop, faultVars, Do
<1>2. ASSUME NEW u \in Threads
      PROVE  Downloading(u)' /\ Waiting(u)'
  BY <1>2 DEF ThreadInv, HotType, Downloading, Waiting, There, Pop, Do, Doing
<1> QED BY <1>1, <1>2, <1>3 DEF ThreadInv

\* Everyone who waited for this thread is woken at once.
LEMMA SetEventKeeps ==
  ASSUME ThreadInv, NEW t \in Threads, SetEvent(t)
  PROVE  ThreadInv'
<1>1. HotType' /\ FileType'
  BY DEF ThreadInv, HotType, WarmType, FileType, SetEvent, faultVars, Doing, ThreadPcs,
         ThreadState, Free
<1>3. NamesRead'
  BY DEF ThreadInv, HotType, NamesRead, SetEvent, faultVars, Free
<1>2. ASSUME NEW u \in Threads
      PROVE  Downloading(u)' /\ Waiting(u)'
  <2>1. CASE u = t
    BY <1>2, <2>1 DEF ThreadInv, HotType, Downloading, Waiting, There, SetEvent, Doing, Free
  <2>2. CASE u # t
    BY <1>2, <2>2 DEF ThreadInv, HotType, Downloading, Waiting, There, SetEvent, Doing, Free
  <2> QED BY <2>1, <2>2
<1> QED BY <1>1, <1>2, <1>3 DEF ThreadInv

\* A process starts again with no threads at work, on whatever files it left.
LEMMA ApiDiesKeeps == ThreadInv /\ ApiDies => ThreadInv'
<1> SUFFICES ASSUME ThreadInv, ApiDies PROVE ThreadInv'
  OBVIOUS
<1>1. HotType' /\ FileType' /\ NamesRead'
  BY DEF ThreadInv, HotType, WarmType, FileType, NamesRead, ApiDies, Free, Cold,
         ThreadPcs, ThreadState
<1>2. ASSUME NEW t \in Threads
      PROVE  Downloading(t)' /\ Waiting(t)'
  BY <1>2 DEF ThreadInv, HotType, Downloading, Waiting, There, ApiDies, Free
<1> QED BY <1>1, <1>2 DEF ThreadInv

\* A thread that has answered, or given up, starts anew.
LEMMA LeaveOnward ==
  ASSUME ThreadInv, NEW t \in Threads, Leave(t), UNCHANGED <<file, inflight, warm, unread>>
  PROVE  Onward(t)
  BY DEF ThreadInv, HotType, WarmType, NamesRead, Leave, Free, Onward, ThreadState, ThreadPcs

\* The thread's own steps.
LEMMA ThreadStepKeeps ==
  ASSUME ThreadInv, NEW t \in Threads, ThreadStep(t)
  PROVE  ThreadInv'
<1>0. /\ thread \in [Threads -> ThreadState] /\ WarmType
      /\ thread[t] \in ThreadState /\ Downloading(t) /\ Waiting(t)
  BY DEF ThreadInv, HotType
<1>a. ASSUME thread[t].pc \in {"idle", "path", "load", "woken"}
      PROVE  thread[t].on = NoThread /\ thread[t].read = "none"
  BY <1>0, <1>a DEF Downloading, Waiting, ThreadState
<1>1. CASE cache_get(t)
  <2>1. /\ WarmType' /\ unread' \in [api : BOOLEAN, jobs : SUBSET Jobs]
        /\ unread.api => unread'.api
        /\ ~warm.named => unread'.api
        /\ warm' = warm
    BY <1>1 DEF cache_get, faultVars, ThreadInv, HotType, WarmType, NamesRead
  <2>2. ~thread[t].named => unread'.api
    BY <1>1 DEF cache_get, faultVars, ThreadInv, NamesRead
  <2>3. warm # Cold => warm.read = "whole" /\ warm.named \in BOOLEAN
    BY <1>0 DEF WarmType
  <2>4. Onward(t)
    BY <1>1, <1>0, <1>a, <2>1, <2>2, <2>3
       DEF cache_get, Doing, Onward, ThreadState, ThreadPcs
  <2> QED BY <1>1, <2>4, OnwardKeeps DEF cache_get, Doing
<1>2. CASE FastPath(t)
  <2>1. UNCHANGED <<unread, warm>> /\ thread'[t].named = thread[t].named
    BY <1>2, <1>0 DEF FastPath, faultVars, Do
  <2>2. Onward(t)
    BY <1>2, <1>0, <1>a, <2>1, UnnamedOnward
       DEF FastPath, Do, Doing, Onward, ThreadState, ThreadPcs
  <2> QED BY <1>2, <2>2, OnwardKeeps DEF FastPath, Doing
<1>3. CASE Register(t)
  BY <1>3, RegisterKeeps
<1>4. CASE Fetch(t)
  BY <1>4, FetchKeeps
<1>5. CASE Pop(t)
  BY <1>5, PopKeeps
<1>6. CASE SetEvent(t)
  BY <1>6, SetEventKeeps
<1>7. CASE Woken(t)
  <2>1. UNCHANGED <<unread, warm>>
    BY <1>7 DEF Woken, faultVars
  <2>2. Onward(t)
    BY <1>7, <1>0, <1>a, <2>1, LeaveOnward, UnnamedOnward
       DEF Woken, Do, Leave, Free, Doing, Onward, ThreadState, ThreadPcs
  <2> QED BY <1>7, <2>2, OnwardKeeps DEF Woken, Doing
<1>8. CASE cache_put(t)
  <2>1. file["api"] = "whole"
    BY <1>8, <1>0 DEF cache_put, Doing, Downloading, There, ThreadInv, FileType
  <2>2. PICK named \in BOOLEAN :
          /\ ReadSidecar(named, [unread EXCEPT !.api = TRUE])
          /\ thread' = [thread EXCEPT ![t].pc = "answered", ![t].read = file["api"],
                                      ![t].named = named]
          /\ warm' \in {warm, [read |-> file["api"], named |-> named]}
    BY <1>8 DEF cache_put
  <2>3. /\ unread' \in [api : BOOLEAN, jobs : SUBSET Jobs]
        /\ unread.api => unread'.api
        /\ ~named => unread'.api
    BY <2>2 DEF ReadSidecar, faultVars, ThreadInv, HotType
  <2>4. WarmType' /\ (~warm'.named => unread'.api)
    BY <2>1, <2>2, <2>3 DEF ThreadInv, HotType, WarmType, NamesRead
  <2>5. Onward(t)
    BY <1>8, <1>0, <1>a, <2>1, <2>2, <2>3, <2>4
       DEF cache_put, Doing, Onward, ThreadState, ThreadPcs
  <2> QED BY <1>8, <2>5, OnwardKeeps DEF cache_put, Doing
<1>9. CASE Respond(t)
  <2>1. Onward(t)
    BY <1>9, <1>0, LeaveOnward DEF Respond, faultVars
  <2> QED BY <1>9, <2>1, OnwardKeeps DEF Respond, Doing
<1> QED
  BY <1>1, <1>2, <1>3, <1>4, <1>5, <1>6, <1>7, <1>8, <1>9 DEF ThreadStep

\* A thread that gives up waiting leaves nobody behind.
LEMMA WaitTimesOutKeeps ==
  ASSUME ThreadInv, NEW t \in Threads, WaitTimesOut(t)
  PROVE  ThreadInv'
  BY LeaveOnward, OnwardKeeps DEF WaitTimesOut, Failure, Doing

\* Another dataset's shards push the index out of the warm cache.
LEMMA WarmEvictedKeeps == ThreadInv /\ WarmEvicted => ThreadInv'
<1> SUFFICES ASSUME ThreadInv, WarmEvicted PROVE ThreadInv'
  OBVIOUS
<1>1. HotType' /\ FileType' /\ NamesRead'
  BY DEF ThreadInv, HotType, WarmType, FileType, NamesRead, WarmEvicted, Cold, faultVars
<1> QED BY <1>1 DEF ThreadInv, Downloading, Waiting, There, WarmEvicted

\* The runner's directory is not the query API's.
LEMMA ReplaceKeepsThreads ==
  ASSUME ThreadInv, NEW r \in Runners, Replace(r)
  PROVE  ThreadInv'
<1>1. HotType' /\ FileType' /\ NamesRead'
  BY DEF ThreadInv, HotType, WarmType, FileType, NamesRead, Replace, hotVars, faultVars
<1>2. UNCHANGED <<hotVars, file["api"]>>
  BY DEF ThreadInv, FileType, Replace
<1> QED BY <1>1, <1>2 DEF ThreadInv, Downloading, Waiting, There, hotVars

\* What threads look at changes in these steps alone.
LEMMA ThreadsKept == ThreadInv /\ RunnerInv /\ [ServingNext]_servingVars => ThreadInv'
<1> SUFFICES ASSUME ThreadInv, RunnerInv, [ServingNext]_servingVars PROVE ThreadInv'
  OBVIOUS
<1>1. CASE WarmEvicted
  BY <1>1, WarmEvictedKeeps
<1>2. CASE ApiDies
  BY <1>2, ApiDiesKeeps
<1>3. CASE \E t \in Threads : ThreadStep(t) \/ FetchFails(t) \/ WaitTimesOut(t)
  BY <1>3, ThreadStepKeeps, FetchFailsKeeps, WaitTimesOutKeeps
<1>4. CASE \E r \in Runners : Replace(r)
  BY <1>4, ReplaceKeepsThreads
<1>5. CASE UNCHANGED <<hotVars, file, unread>>
  BY <1>5, ThreadsUndisturbed
<1>6. CASE ShardCommitted
  BY <1>6, <1>5 DEF ShardCommitted, faultVars
<1>7. CASE \E j \in Jobs : v1_query(j) \/ ReclaimAbandoned(j) \/ ReclaimLive(j) \/ Expire(j)
  BY <1>7, <1>5 DEF v1_query, ReclaimAbandoned, ReclaimLive, Expire, Failure, faultVars
<1>8. CASE \E c \in Consumers : ConsumerStep(c) \/ StoreFails(c) \/ ConsumerDies(c)
  BY <1>8, <1>5 
     DEF ConsumerStep, TakeReply, result_consumer_loop, StoreFails, ConsumerDies, Failure,
         faultVars
<1>9. ASSUME NEW r \in Runners,
             RunnerStep(r) \/ HandleFails(r) \/ RunnerDies(r), ~ Replace(r)
      PROVE  ThreadInv'
  <2>1. CASE HandleFails(r)
    BY <2>1, <1>5 DEF HandleFails, publish_error_envelope, Failure
  <2>2. CASE RunnerDies(r)
    BY <2>2, <1>5 DEF RunnerDies, Failure
  <2>3. CASE consume(r) \/ HandleNoShard(r) \/ ensure_cached(r) \/ download_to(r)
    BY <2>3, <1>5 DEF consume, HandleNoShard, ensure_cached, download_to, faultVars
  <2>4. CASE Search(r)
    BY <2>4, SearchKeepsThreads
  <2>5. CASE ack(r) \/ nack(r)
    BY <2>5, <1>5 DEF ack, nack, faultVars
  <2> QED BY <1>9, <2>1, <2>2, <2>3, <2>4, <2>5 DEF RunnerStep
<1> QED
  BY <1>1, <1>2, <1>3, <1>4, <1>5, <1>6, <1>7, <1>8, <1>9 DEF ServingNext, servingVars, faultVars

-----------------------------------------------------------------------------
(* The ephemeral runners *)

\* A runner's next place, with the job it has or with none.
LEMMA RunnerMoves ==
  ASSUME RunnerInv, NEW r \in Runners, NEW next \in [pc : RunnerPcs, job : Jobs \cup {NoJob}],
         next.pc # "idle" => next.job \in Jobs,
         next.pc = "search" => file'["runner"] = "whole",
         runner' = [runner EXCEPT ![r] = next],
         file["runner"] = "whole" => file'["runner"] = "whole"
  PROVE  RunnerInv'
  BY DEF RunnerInv

\* No step takes a complete file away, and only runners change runners.
LEMMA RunnersUndisturbed ==
  ASSUME RunnerInv, runner' = runner, file["runner"] = "whole" => file'["runner"] = "whole"
  PROVE  RunnerInv'
  BY DEF RunnerInv

\* A runner goes on; it searches only a file it found or put in place.
LEMMA RunnerStepKeeps ==
  ASSUME RunnerInv, FileType, NEW r \in Runners,
         RunnerStep(r) \/ HandleFails(r) \/ RunnerDies(r)
  PROVE  RunnerInv'
<1>0. /\ runner[r] \in [pc : RunnerPcs, job : Jobs \cup {NoJob}]
      /\ runner[r].pc # "idle" => runner[r].job \in Jobs
      /\ runner \in [Runners -> [pc : RunnerPcs, job : Jobs \cup {NoJob}]]
      /\ IdleRunner \in [pc : RunnerPcs, job : Jobs \cup {NoJob}] /\ IdleRunner.pc = "idle"
  BY DEF RunnerInv, IdleRunner, RunnerPcs
<1>1. ASSUME NEW pc \in RunnerPcs, Goto(r, pc), runner[r].pc # "idle",
             pc = "search" => file'["runner"] = "whole",
             file["runner"] = "whole" => file'["runner"] = "whole"
      PROVE  RunnerInv'
  <2>1. [runner[r] EXCEPT !.pc = pc] \in [pc : RunnerPcs, job : Jobs \cup {NoJob}]
    BY <1>0, <1>1
  <2>2. /\ [runner[r] EXCEPT !.pc = pc].pc = pc
        /\ [runner[r] EXCEPT !.pc = pc].job \in Jobs
    BY <1>0, <1>1
  <2>3. runner' = [runner EXCEPT ![r] = [runner[r] EXCEPT !.pc = pc]]
    BY <1>0, <1>1 DEF Goto
  <2> QED BY <1>1, <2>1, <2>2, <2>3, RunnerMoves
<1>2. ASSUME runner' = [runner EXCEPT ![r] = IdleRunner], file' = file
      PROVE  RunnerInv'
  BY <1>0, <1>2, RunnerMoves
<1>3. CASE consume(r)
  <2>1. PICK j \in Jobs : runner' = [runner EXCEPT ![r] = [pc |-> "handle", job |-> j]]
    BY <1>3 DEF consume
  <2>2. [pc |-> "handle", job |-> j] \in [pc : RunnerPcs, job : Jobs \cup {NoJob}]
    BY DEF RunnerPcs
  <2> QED BY <1>3, <2>1, <2>2, RunnerMoves DEF consume
<1>4. CASE HandleNoShard(r) \/ Search(r)
  BY <1>4, <1>1 DEF HandleNoShard, Search, At, RunnerPcs
<1>5. CASE ensure_cached(r)
  BY <1>5, <1>1 DEF ensure_cached, At, RunnerPcs, FileType
<1>6. CASE download_to(r)
  BY <1>6, <1>1 DEF download_to, At, RunnerPcs
<1>7. CASE Replace(r)
  <2>1. file'["runner"] = "whole"
    BY <1>7 DEF Replace, FileType
  <2> QED BY <1>7, <2>1, <1>1 DEF Replace, At, RunnerPcs
<1>8. CASE ack(r) \/ nack(r) \/ RunnerDies(r)
  BY <1>8, <1>2 DEF ack, nack, RunnerDies
<1>9. CASE HandleFails(r)
  BY <1>9, <1>1 DEF HandleFails, publish_error_envelope, RunnerPcs
<1> QED
  BY <1>3, <1>4, <1>5, <1>6, <1>7, <1>8, <1>9 DEF RunnerStep

\* Runners are where they were, or moved by a step of their own.
LEMMA RunnersKept == RunnerInv /\ FileType /\ [ServingNext]_servingVars => RunnerInv'
<1> SUFFICES ASSUME RunnerInv, FileType, [ServingNext]_servingVars PROVE RunnerInv'
  OBVIOUS
<1>0. ASSUME runner' = runner, file' = file PROVE RunnerInv'
  BY <1>0, RunnersUndisturbed
<1>1. CASE ShardCommitted \/ WarmEvicted \/ ApiDies
  BY <1>1, <1>0 DEF ShardCommitted, WarmEvicted, ApiDies, runVars
<1>2. ASSUME NEW t \in Threads, ThreadStep(t) \/ FetchFails(t) \/ WaitTimesOut(t)
      PROVE  RunnerInv'
  <2>1. CASE Fetch(t)
    BY <2>1, RunnersUndisturbed DEF Fetch, runVars, FileType
  <2>2. CASE cache_get(t) \/ FastPath(t) \/ Register(t) \/ Pop(t) \/ SetEvent(t)
    BY <2>2, <1>0 DEF cache_get, FastPath, Register, Pop, SetEvent, runVars
  <2>3. CASE Woken(t) \/ cache_put(t) \/ Respond(t) \/ FetchFails(t) \/ WaitTimesOut(t)
    BY <2>3, <1>0 DEF Woken, cache_put, Respond, FetchFails, WaitTimesOut, runVars
  <2> QED BY <1>2, <2>1, <2>2, <2>3 DEF ThreadStep
<1>3. CASE \E j \in Jobs : v1_query(j) \/ ReclaimAbandoned(j) \/ ReclaimLive(j) \/ Expire(j)
  BY <1>3, <1>0 DEF v1_query, ReclaimAbandoned, ReclaimLive, Expire
<1>4. CASE \E r \in Runners : RunnerStep(r) \/ HandleFails(r) \/ RunnerDies(r)
  BY <1>4, RunnerStepKeeps
<1>5. CASE \E c \in Consumers : ConsumerStep(c) \/ StoreFails(c) \/ ConsumerDies(c)
  BY <1>5, <1>0 DEF ConsumerStep, TakeReply, result_consumer_loop, StoreFails, ConsumerDies
<1>6. CASE UNCHANGED servingVars
  BY <1>6, <1>0 DEF servingVars, runVars
<1> QED BY <1>1, <1>2, <1>3, <1>4, <1>5, <1>6 DEF ServingNext

-----------------------------------------------------------------------------
(* The envelopes *)

\* An envelope delivered once more.
Delivered(e) == [e EXCEPT !.tries = @ + 1]

\* An envelope delivered once more is an envelope.
LEMMA TriedAgain ==
  ASSUME NEW e \in Envelope
  PROVE  Delivered(e) \in Envelope
<1> DEFINE Yes == {TRUE}
           No == {FALSE}
           nameless == unread.jobs
           Whole == [job : Jobs, ok : Yes, whole : Yes, named : Yes, tries : Nat]
           Nameless == [job : nameless, ok : Yes, whole : Yes, named : No, tries : Nat]
           Errs == [job : Jobs, ok : No, code : Codes, tries : Nat]
<1>1. Envelope = Whole \cup Nameless \cup Errs
  BY DEF Envelope, Envelopes
<1> HIDE DEF Yes, No, nameless
<1>2. e \in Whole => Delivered(e) \in Whole
  BY DEF Delivered
<1>3. e \in Nameless => Delivered(e) \in Nameless
  BY DEF Delivered
<1>4. e \in Errs => Delivered(e) \in Errs
  BY DEF Delivered
<1> HIDE DEF Whole, Nameless, Errs
<1> QED
  BY <1>1, <1>2, <1>3, <1>4

\* Failed reads only add jobs whose envelope may have come without the sidecar.
LEMMA EnvelopesGrow ==
  ASSUME EnvelopeType, unread.jobs \subseteq unread'.jobs
  PROVE  /\ Envelope \subseteq Envelope'
         /\ replies \in Seq(Envelope')
         /\ consumer \in [Consumers -> Envelope' \cup {NoReply}]
         /\ result \in [Jobs -> Envelope' \cup {NoReply}]
<1>1. Envelope \subseteq Envelope'
  BY DEF Envelope, Envelopes
<1> HIDE DEF Envelope
<1> QED BY <1>1 DEF EnvelopeType

\* Where envelopes are: only publishing, taking, storing and expiry change it.
LEMMA EnvelopesUndisturbed ==
  ASSUME EnvelopeType, UNCHANGED replyVars, unread.jobs \subseteq unread'.jobs
  PROVE  EnvelopeType'
  BY EnvelopesGrow DEF EnvelopeType, replyVars

\* An envelope is published at the head of the list.
LEMMA PublishKeeps ==
  ASSUME EnvelopeType, NEW e \in Envelope', publish(e), UNCHANGED <<consumer, result>>,
         unread.jobs \subseteq unread'.jobs
  PROVE  EnvelopeType'
<1>1. /\ replies \in Seq(Envelope') /\ consumer \in [Consumers -> Envelope' \cup {NoReply}]
      /\ result \in [Jobs -> Envelope' \cup {NoReply}]
  BY EnvelopesGrow
<1>2. replies' \in Seq(Envelope')
  <2> HIDE DEF Envelope
  <2> QED BY <1>1 DEF publish
<1> QED BY <1>1, <1>2 DEF EnvelopeType

\* A consumer moves envelopes from the list to the store, or back, and makes none up.
LEMMA ConsumerKeeps ==
  ASSUME EnvelopeType, NEW c \in Consumers,
         ConsumerStep(c) \/ StoreFails(c) \/ ConsumerDies(c)
  PROVE  EnvelopeType'
<1>0. unread' = unread
  BY DEF ConsumerStep, TakeReply, result_consumer_loop, StoreFails, ConsumerDies, Failure,
         faultVars
<1>1. Envelope' = Envelope
  BY <1>0 DEF Envelope
<1> HIDE DEF Envelope
<1>2. CASE TakeReply(c)
  <2>1. Head(replies) \in Envelope /\ replies' \in Seq(Envelope)
    BY <1>2 DEF TakeReply, EnvelopeType
  <2>2. consumer' \in [Consumers -> Envelope \cup {NoReply}]
    BY <1>2, <2>1, TriedAgain DEF TakeReply, EnvelopeType, Delivered
  <2> QED BY <1>1, <1>2, <2>1, <2>2 DEF TakeReply, EnvelopeType
<1>3. CASE result_consumer_loop(c)
  BY <1>1, <1>3 DEF result_consumer_loop, EnvelopeType, store_result
<1>4. CASE StoreFails(c)
  <2>1. replies' \in Seq(Envelope)
    BY <1>4 DEF StoreFails, EnvelopeType
  <2> QED BY <1>1, <1>4, <2>1 DEF StoreFails, EnvelopeType
<1>5. CASE ConsumerDies(c)
  BY <1>1, <1>5 DEF ConsumerDies, EnvelopeType
<1> QED BY <1>2, <1>3, <1>4, <1>5 DEF ConsumerStep

\* What a runner publishes: an answer from a complete file, without the sidecar only if
\* this job has just failed to read it, or an error.
LEMMA RunnerPublishes ==
  ASSUME EnvelopeType, RunnerInv, HotType, NEW r \in Runners,
         RunnerStep(r) \/ HandleFails(r) \/ RunnerDies(r)
  PROVE  EnvelopeType' /\ unread.jobs \subseteq unread'.jobs
<1>0. unread \in [api : BOOLEAN, jobs : SUBSET Jobs]
  BY DEF HotType
<1>1. CASE HandleNoShard(r)
  <2>1. unread' = unread
    BY <1>1 DEF HandleNoShard, faultVars
  <2>2. Ok(runner[r].job, TRUE, TRUE) \in Envelope'
    BY <1>1 DEF HandleNoShard, At, RunnerInv, Ok, Envelope, Envelopes
  <2> HIDE DEF Envelope
  <2> QED BY <1>1, <2>1, <2>2, PublishKeeps DEF HandleNoShard
<1>2. CASE Search(r)
  <2>1. PICK named \in BOOLEAN :
          /\ ReadSidecar(named, [unread EXCEPT !.jobs = @ \cup {runner[r].job}])
          /\ publish(Ok(runner[r].job, file["runner"] = "whole", named))
    BY <1>2 DEF Search
  <2>2. /\ unread.jobs \subseteq unread'.jobs
        /\ ~named => runner[r].job \in unread'.jobs
    BY <1>0, <2>1 DEF ReadSidecar, faultVars
  <2>3. runner[r].job \in Jobs /\ file["runner"] = "whole"
    BY <1>2 DEF Search, At, RunnerInv
  <2>4. Ok(runner[r].job, file["runner"] = "whole", named) \in Envelope'
    BY <2>2, <2>3 DEF Ok, Envelope, Envelopes
  <2> HIDE DEF Envelope
  <2> QED BY <1>2, <2>1, <2>2, <2>4, PublishKeeps DEF Search
<1>3. CASE HandleFails(r)
  <2>1. PICK err \in Errors : publish_error_envelope(r, err)
    BY <1>3 DEF HandleFails
  <2>2. unread' = unread /\ runner[r].job \in Jobs
    BY <1>3 DEF HandleFails, Failure, RunnerInv
  <2>3. classify_query_error(err) \in Codes
    BY DEF classify_query_error, Codes
  <2>4. Failed(runner[r].job, err) \in Envelope'
    BY <2>2, <2>3 DEF Failed, Envelope, Envelopes
  <2> HIDE DEF Envelope
  <2> QED BY <2>1, <2>2, <2>4, PublishKeeps DEF publish_error_envelope
<1>4. CASE consume(r) \/ ensure_cached(r) \/ download_to(r) \/ Replace(r)
  BY <1>4, EnvelopesUndisturbed DEF consume, ensure_cached, download_to, Replace, faultVars
<1>5. CASE ack(r) \/ nack(r) \/ RunnerDies(r)
  BY <1>5, EnvelopesUndisturbed DEF ack, nack, RunnerDies, Failure, faultVars
<1> QED BY <1>1, <1>2, <1>3, <1>4, <1>5 DEF RunnerStep

\* Every envelope there is was published by a runner.
LEMMA EnvelopesKept ==
  ASSUME EnvelopeType, RunnerInv, HotType, [ServingNext]_servingVars
  PROVE  EnvelopeType'
<1>1. CASE ShardCommitted \/ WarmEvicted
  BY <1>1, EnvelopesUndisturbed DEF ShardCommitted, WarmEvicted, runVars, faultVars
<1>2. CASE ApiDies
  <2>1. unread'.jobs = unread.jobs
    BY <1>2 DEF ApiDies, HotType
  <2> QED BY <1>2, <2>1, EnvelopesUndisturbed DEF ApiDies, runVars
<1>3. ASSUME NEW t \in Threads, ThreadStep(t) \/ FetchFails(t) \/ WaitTimesOut(t)
      PROVE  EnvelopeType'
  <2>1. CASE cache_put(t)
    <3>1. unread.jobs \subseteq unread'.jobs
      BY <2>1 DEF cache_put, ReadSidecar, faultVars, HotType
    <3> QED BY <2>1, <3>1, EnvelopesUndisturbed DEF cache_put, runVars
  <2>2. CASE ~cache_put(t)
    <3>1. UNCHANGED <<runVars, unread>>
      BY <1>3, <2>2 DEF ThreadStep, cache_get, FastPath, Register, Fetch, Pop, SetEvent, Woken,
                        Respond, FetchFails, WaitTimesOut, Failure, faultVars
    <3> QED BY <3>1, EnvelopesUndisturbed DEF runVars
  <2> QED BY <2>1, <2>2
<1>4. ASSUME NEW j \in Jobs, v1_query(j) \/ ReclaimAbandoned(j) \/ ReclaimLive(j)
      PROVE  EnvelopeType'
  BY <1>4, EnvelopesUndisturbed
     DEF v1_query, ReclaimAbandoned, ReclaimLive, Failure, faultVars
<1>5. ASSUME NEW j \in Jobs, Expire(j)
      PROVE  EnvelopeType'
  <2>1. Envelope' = Envelope
    BY <1>5 DEF Expire, faultVars, Envelope
  <2> HIDE DEF Envelope
  <2> QED BY <1>5, <2>1 DEF Expire, EnvelopeType
<1>6. CASE \E r \in Runners : RunnerStep(r) \/ HandleFails(r) \/ RunnerDies(r)
  BY <1>6, RunnerPublishes
<1>7. CASE \E c \in Consumers : ConsumerStep(c) \/ StoreFails(c) \/ ConsumerDies(c)
  BY <1>7, ConsumerKeeps
<1>8. CASE UNCHANGED servingVars
  BY <1>8, EnvelopesUndisturbed DEF servingVars, runVars, faultVars
<1> QED BY <1>1, <1>2, <1>3, <1>4, <1>5, <1>6, <1>7, <1>8 DEF ServingNext

-----------------------------------------------------------------------------
(* The theorems *)

\* The invariant holds before the first query ...
LEMMA ServingStarts == ServingInit => ServingInv
<1> SUFFICES ASSUME ServingInit PROVE ServingInv
  OBVIOUS
<1>1. ThreadInv
  BY ServingAssumption
  DEF ServingInit, ThreadInv, HotType, WarmType, ThreadState, ThreadPcs, FileType, NamesRead,
      Downloading, Waiting, There, Free, Cold
<1>2. RunnerInv
  BY DEF ServingInit, RunnerInv, RunnerPcs, IdleRunner
<1>3. EnvelopeType
  BY DEF ServingInit, EnvelopeType
<1> QED BY <1>1, <1>2, <1>3 DEF ServingInv

\* ... and in every step of threads, runners, consumers and reaper.
LEMMA ServingKept == ServingInv /\ [ServingNext]_servingVars => ServingInv'
  BY ThreadsKept, RunnersKept, EnvelopesKept DEF ServingInv, ThreadInv

\* Two threads that fetch would both be the one in _INFLIGHT_DOWNLOADS.
LEMMA InvShares == ServingInv => DownloadsAreShared
  BY DEF ServingInv, DownloadsAreShared, ThreadInv, Downloading, Waiting, Doing

\* Only an answer from a complete file is a status poll's "matches".
LEMMA InvIsWhole == ServingInv => AnswersAreWhole
<1> SUFFICES ASSUME ServingInv PROVE AnswersAreWhole
  OBVIOUS
<1>1. ASSUME NEW j \in Jobs, v1_query_status(j) = "matches"
      PROVE  result[j].whole /\ (result[j].named \/ result[j].job \in unread.jobs)
  <2>1. result[j] \in Envelope \cup {NoReply}
    BY DEF ServingInv, EnvelopeType
  <2> QED BY <1>1, <2>1 DEF v1_query_status, get_result, Envelope, Envelopes, Codes
<1>2. ASSUME NEW t \in Threads, Doing(t, "answered")
      PROVE  thread[t].read = "whole" /\ (thread[t].named \/ unread.api)
  BY <1>2 DEF ServingInv, ThreadInv, NamesRead, Downloading, Doing
<1>3. ASSUME NEW j \in Jobs, result[j] # NoReply
      PROVE  result[j].job = j
  BY <1>3 DEF ServingInv, EnvelopeType
<1>4. ASSUME NEW j \in Jobs, v1_query_status(j) = "matches"
      PROVE  result[j] # NoReply
  BY <1>4 DEF v1_query_status, get_result
<1> QED BY <1>1, <1>2, <1>3, <1>4 DEF AnswersAreWhole

\* What cache directories, threads, runners and envelopes are, together, holds always.
THEOREM ServingInvariant == FairSpec => []ServingInv
  BY ServingStarts, ServingKept, PTL DEF FairSpec

\* A hot answer or a stored result with matches comes from a complete file, however
\* downloads, deaths and redeliveries interleave, and with the sidecar unless the job, or
\* the process, failed to read it: download_to, _ensure_shard_cached, read_shard_sidecar.
THEOREM WholeAnswers == FairSpec => []AnswersAreWhole
  BY ServingInvariant, InvIsWhole, PTL

\* At most one thread of the process fetches, never a file that is there, and whoever
\* waits has a thread that is still to wake it: _INFLIGHT_DOWNLOADS and its events.
THEOREM SharedDownloads == FairSpec => []DownloadsAreShared
  BY ServingInvariant, InvShares, PTL

-----------------------------------------------------------------------------
(* Reads, listings and queries: VectorReads.  First, sets in the order of a key. *)

\* Finite, and no two elements of one key.
Sortable(S, key) ==
  /\ IsFiniteSet(S)
  /\ \A x, y \in S : key[x] \in Int /\ (key[x] = key[y] => x = y)

UpTo(S, key, x) == {y \in S : key[y] <= key[x]}

Rank(S, key, x) == Cardinality(UpTo(S, key, x))

\* A rank counts the elements up to its own.
LEMMA RankType ==
  ASSUME NEW S, NEW key, Sortable(S, key), NEW x \in S
  PROVE  /\ Cardinality(S) \in Nat
         /\ Rank(S, key, x) \in 1..Cardinality(S)
         /\ IsFiniteSet(UpTo(S, key, x))
<1>1. UpTo(S, key, x) \in SUBSET S /\ x \in UpTo(S, key, x)
  BY DEF UpTo, Sortable
<1>2. IsFiniteSet(UpTo(S, key, x)) /\ Rank(S, key, x) <= Cardinality(S)
  BY <1>1, FS_Subset DEF Sortable, Rank
<1>3. Cardinality(S) \in Nat /\ Rank(S, key, x) \in Nat
  BY <1>2, FS_CardinalityType DEF Sortable, Rank
<1>4. Rank(S, key, x) # 0
  BY <1>1, <1>2, FS_EmptySet DEF Rank
<1> QED
  BY <1>2, <1>3, <1>4

\* Elements rank as their keys compare.
LEMMA RankGrows ==
  ASSUME NEW S, NEW key, Sortable(S, key), NEW x \in S, NEW y \in S, key[x] < key[y]
  PROVE  Rank(S, key, x) < Rank(S, key, y)
<1>1. UpTo(S, key, x) \in SUBSET UpTo(S, key, y)
  BY DEF UpTo, Sortable
<1>2. y \in UpTo(S, key, y) /\ y \notin UpTo(S, key, x)
  BY DEF UpTo, Sortable
<1>3. Rank(S, key, x) <= Rank(S, key, y) /\ Rank(S, key, x) # Rank(S, key, y)
  BY <1>1, <1>2, RankType, FS_Subset DEF Rank
<1> QED
  BY <1>3, RankType

\* So ranks tell elements apart, and compare as their keys do.
LEMMA RankOrders ==
  ASSUME NEW S, NEW key, Sortable(S, key), NEW x \in S, NEW y \in S
  PROVE  /\ Rank(S, key, x) <= Rank(S, key, y) <=> key[x] <= key[y]
         /\ Rank(S, key, x) = Rank(S, key, y) <=> x = y
<1>1. key[x] \in Int /\ key[y] \in Int /\ (key[x] = key[y] => x = y)
  BY DEF Sortable
<1>2. key[x] < key[y] => Rank(S, key, x) < Rank(S, key, y)
  BY RankGrows
<1>3. key[y] < key[x] => Rank(S, key, y) < Rank(S, key, x)
  BY RankGrows
<1>4. Rank(S, key, x) \in Int /\ Rank(S, key, y) \in Int
  BY RankType
<1> QED
  BY <1>1, <1>2, <1>3, <1>4

\* Every rank up to the size of the set is some element's.
LEMMA RankTaken ==
  ASSUME NEW S, NEW key, Sortable(S, key), NEW k \in 1..Cardinality(S)
  PROVE  \E x \in S : Rank(S, key, x) = k
<1> DEFINE n == Cardinality(S)
           f == [x \in S |-> Rank(S, key, x)]
<1>1. n \in Nat
  BY FS_CardinalityType DEF Sortable
<1>2. IsFiniteSet(1..n) /\ Cardinality(1..n) = n
  BY <1>1, FS_Interval
<1>3. f \in [S -> 1..n]
  BY RankType
<1>4. \A x, y \in S : f[x] = f[y] => x = y
  BY RankOrders
<1>5. f \in Injection(S, 1..n)
  BY <1>3, <1>4 DEF Injection, IsInjective
<1>6. f \in Surjection(S, 1..n)
  BY <1>2, <1>5, FS_Injection
<1>7. \A y \in 1..n : \E x \in S : f[x] = y
  BY <1>6 DEF Surjection
<1> QED
  BY <1>7

\* The elements of S in the order of their keys.
Sorted(s, S, key) ==
  /\ s \in [1..Cardinality(S) -> S]
  /\ \A i, j \in 1..Cardinality(S) : i < j => key[s[i]] < key[s[j]]

\* A sortable set has such an enumeration, and InOrder is one.
LEMMA InOrderSorts ==
  ASSUME NEW S, NEW key, Sortable(S, key)
  PROVE  Sorted(InOrder(S, key), S, key)
<1> DEFINE n == Cardinality(S)
           s == [k \in 1..n |-> CHOOSE x \in S : Rank(S, key, x) = k]
<1>1. \A k \in 1..n : s[k] \in S /\ Rank(S, key, s[k]) = k
  BY RankTaken
<1>2. s \in [1..n -> S]
  BY <1>1
<1>3. ASSUME NEW i \in 1..n, NEW j \in 1..n, i < j
      PROVE  key[s[i]] < key[s[j]]
  <2>1. s[i] \in S /\ s[j] \in S /\ Rank(S, key, s[i]) = i /\ Rank(S, key, s[j]) = j
    BY <1>1
  <2>2. ~ (Rank(S, key, s[j]) <= Rank(S, key, s[i]))
    BY <2>1, <1>3, FS_CardinalityType DEF Sortable
  <2>3. ~ (key[s[j]] <= key[s[i]])
    BY <2>1, <2>2, RankOrders
  <2>4. key[s[i]] \in Int /\ key[s[j]] \in Int
    BY <2>1 DEF Sortable
  <2> QED
    BY <2>3, <2>4
<1> HIDE DEF s
<1> QED
  BY <1>2, <1>3 DEF InOrder, Sorted

\* The k-th element of any of them is the one of rank k ...
LEMMA SortedRanks ==
  ASSUME NEW S, NEW key, Sortable(S, key), NEW s, Sorted(s, S, key),
         NEW k \in 1..Cardinality(S)
  PROVE  s[k] \in S /\ Rank(S, key, s[k]) = k
<1> DEFINE n == Cardinality(S)
           front == {s[j] : j \in 1..k}
           f == [j \in 1..k |-> s[j]]
<1>1. n \in Nat /\ k \in 1..n
  BY FS_CardinalityType DEF Sortable
<1>2. s \in [1..n -> S] /\ \A i, j \in 1..n : i < j => key[s[i]] < key[s[j]]
  BY DEF Sorted
<1>3. \A i \in 1..n : s[i] \in S /\ key[s[i]] \in Int
  BY <1>2 DEF Sortable
<1>4. \A i, j \in 1..n : s[i] = s[j] => i = j
  <2> SUFFICES ASSUME NEW i \in 1..n, NEW j \in 1..n, i # j PROVE s[i] # s[j]
    OBVIOUS
  <2>1. i < j \/ j < i
    BY <1>1
  <2>2. key[s[i]] < key[s[j]] \/ key[s[j]] < key[s[i]]
    BY <1>2, <2>1
  <2> QED
    BY <1>3, <2>2
<1>5. s \in Injection(1..n, S)
  BY <1>2, <1>4 DEF Injection, IsInjective
<1>6. IsFiniteSet(1..n) /\ Cardinality(1..n) = n /\ IsFiniteSet(1..k) /\ Cardinality(1..k) = k
  BY <1>1, FS_Interval
<1>7. s \in Surjection(1..n, S)
  BY <1>5, <1>6, FS_Injection DEF Sortable
<1>8. \A x \in S : \E i \in 1..n : s[i] = x
  BY <1>7 DEF Surjection
<1>9. UpTo(S, key, s[k]) = front
  <2>1. ASSUME NEW y \in UpTo(S, key, s[k]) PROVE y \in front
    <3>1. PICK i \in 1..n : s[i] = y
      BY <1>8, <2>1 DEF UpTo
    <3>2. ~ (k < i)
      BY <1>1, <1>2, <1>3, <2>1, <3>1 DEF UpTo
    <3>3. i \in 1..k
      BY <1>1, <3>2
    <3> QED
      BY <3>1, <3>3
  <2>2. ASSUME NEW j \in 1..k PROVE s[j] \in UpTo(S, key, s[k])
    <3>1. j \in 1..n /\ (j = k \/ j < k)
      BY <1>1
    <3> QED
      BY <1>1, <1>2, <1>3, <3>1 DEF UpTo
  <2> QED
    BY <2>1, <2>2
<1>10. f \in Bijection(1..k, front)
  <2>1. f \in [1..k -> front]
    OBVIOUS
  <2>2. \A i, j \in 1..k : f[i] = f[j] => i = j
    BY <1>1, <1>4
  <2>3. \A y \in front : \E j \in 1..k : f[j] = y
    OBVIOUS
  <2> QED
    BY <2>1, <2>2, <2>3 DEF Bijection, Injection, Surjection, IsInjective
<1>11. Cardinality(front) = k
  BY <1>6, <1>10, FS_Bijection DEF ExistsBijection
<1> QED
  BY <1>1, <1>3, <1>9, <1>11 DEF Rank

\* ... so there is one only.
LEMMA SortedOnce ==
  ASSUME NEW S, NEW key, Sortable(S, key), NEW s, Sorted(s, S, key)
  PROVE  InOrder(S, key) = s
<1>1. Sorted(InOrder(S, key), S, key)
  BY InOrderSorts
<1>2. \A k \in 1..Cardinality(S) : InOrder(S, key)[k] = s[k]
  <2> TAKE k \in 1..Cardinality(S)
  <2>1. s[k] \in S /\ Rank(S, key, s[k]) = k
    BY SortedRanks
  <2>2. InOrder(S, key)[k] \in S /\ Rank(S, key, InOrder(S, key)[k]) = k
    BY <1>1, SortedRanks
  <2> QED
    BY <2>1, <2>2, RankOrders
<1> DEFINE q == InOrder(S, key)
           D == 1..Cardinality(S)
<1>3. q \in [D -> S] /\ s \in [D -> S]
  BY <1>1 DEF Sorted
<1>4. \A k \in D : q[k] = s[k]
  BY <1>2
<1> HIDE DEF q, D
<1>5. q = s
  BY <1>3, <1>4
<1> QED
  BY <1>5 DEF q

\* What InOrder returns, as a sequence.
LEMMA InOrderIs ==
  ASSUME NEW S, NEW key, Sortable(S, key)
  PROVE  /\ Cardinality(S) \in Nat
         /\ InOrder(S, key) \in Seq(S)
         /\ Len(InOrder(S, key)) = Cardinality(S)
         /\ \A k \in 1..Cardinality(S) : /\ InOrder(S, key)[k] \in S
                                         /\ Rank(S, key, InOrder(S, key)[k]) = k
         /\ \A x \in S : InOrder(S, key)[Rank(S, key, x)] = x
<1> DEFINE n == Cardinality(S)
           s == InOrder(S, key)
<1>1. n \in Nat
  BY FS_CardinalityType DEF Sortable
<1>2. Sorted(s, S, key)
  BY InOrderSorts
<1> HIDE DEF s
<1>3. s \in [1..n -> S]
  BY <1>2 DEF Sorted
<1>4. s \in Seq(S)
  BY <1>1, <1>3, SeqDef
<1>5. Len(s) = n
  BY <1>1, <1>3, <1>4, LenProperties
<1>6. \A k \in 1..n : s[k] \in S /\ Rank(S, key, s[k]) = k
  BY <1>2, SortedRanks
<1>7. \A x \in S : s[Rank(S, key, x)] = x
  <2> TAKE x \in S
  <2>1. Rank(S, key, x) \in 1..n
    BY RankType
  <2>2. s[Rank(S, key, x)] \in S /\ Rank(S, key, s[Rank(S, key, x)]) = Rank(S, key, x)
    BY <1>6, <2>1
  <2> QED
    BY <2>2, RankOrders
<1> QED
  BY <1>1, <1>4, <1>5, <1>6, <1>7 DEF s

\* What is left of a set that can be sorted can be.
LEMMA SubsetSortable ==
  ASSUME NEW S, NEW key, Sortable(S, key), NEW T \in SUBSET S
  PROVE  Sortable(T, key)
<1>1. IsFiniteSet(T)
  BY FS_Subset DEF Sortable
<1> QED
  BY <1>1 DEF Sortable

\* A subset that holds the k first elements has them first.
LEMMA FrontKept ==
  ASSUME NEW S, NEW key, Sortable(S, key), NEW T \in SUBSET S, NEW k \in Nat \ {0},
         \A x \in S : Rank(S, key, x) <= k => x \in T
  PROVE  \A j \in 1..k :
           /\ j <= Cardinality(S) <=> j <= Cardinality(T)
           /\ j <= Cardinality(S) => InOrder(S, key)[j] = InOrder(T, key)[j]
<1>1. Sortable(T, key)
  BY SubsetSortable
<1>2. Cardinality(T) \in Nat /\ Cardinality(S) \in Nat /\ Cardinality(T) <= Cardinality(S)
  BY FS_Subset, FS_CardinalityType, <1>1 DEF Sortable
<1>3. ASSUME NEW x \in S, Rank(S, key, x) <= k
      PROVE  x \in T /\ Rank(T, key, x) = Rank(S, key, x)
  <2>1. UpTo(S, key, x) = UpTo(T, key, x)
    <3>1. ASSUME NEW y \in UpTo(S, key, x) PROVE y \in T
      <4>1. y \in S /\ key[y] <= key[x]
        BY DEF UpTo
      <4>2. Rank(S, key, y) <= Rank(S, key, x)
        BY <4>1, RankOrders
      <4>3. Rank(S, key, y) \in Int /\ Rank(S, key, x) \in Int
        BY <4>1, RankType
      <4> QED
        BY <1>3, <4>1, <4>2, <4>3
    <3> QED
      BY <3>1 DEF UpTo
  <2> QED
    BY <1>3, <2>1 DEF Rank
<1> SUFFICES ASSUME NEW j \in 1..k
             PROVE  /\ j <= Cardinality(S) <=> j <= Cardinality(T)
                    /\ j <= Cardinality(S) => InOrder(S, key)[j] = InOrder(T, key)[j]
  OBVIOUS
<1>4. CASE j <= Cardinality(S)
  <2>1. j \in 1..Cardinality(S)
    BY <1>2, <1>4
  <2>2. InOrder(S, key)[j] \in S /\ Rank(S, key, InOrder(S, key)[j]) = j
    BY <2>1, InOrderIs
  <2>3. InOrder(S, key)[j] \in T /\ Rank(T, key, InOrder(S, key)[j]) = j
    BY <1>3, <2>2
  <2>4. j <= Cardinality(T)
    BY <1>1, <2>3, RankType
  <2>5. InOrder(T, key)[j] = InOrder(S, key)[j]
    BY <1>1, <2>3, InOrderIs
  <2> QED
    BY <1>4, <2>4, <2>5
<1>5. CASE ~ (j <= Cardinality(S))
  BY <1>2, <1>5
<1> QED
  BY <1>4, <1>5

-----------------------------------------------------------------------------
(* The k nearest records *)

\* As many of the records as there are, but k at most, in the order of their distance.
LEMMA NearestIs ==
  ASSUME NEW S, NEW near, Sortable(S, Distance(near)), NEW k \in Nat \ {0}
  PROVE  /\ Nearest(S, k, near) \in Seq(S)
         /\ Cardinality(S) \in Nat
         /\ Len(Nearest(S, k, near)) = IF k < Cardinality(S) THEN k ELSE Cardinality(S)
         /\ \A j \in 1..Len(Nearest(S, k, near)) :
              Nearest(S, k, near)[j] = InOrder(S, Distance(near))[j]
<1> DEFINE s == InOrder(S, Distance(near))
           n == Cardinality(S)
           m == IF k < Len(s) THEN k ELSE Len(s)
<1>1. n \in Nat /\ s \in Seq(S) /\ Len(s) = n /\ \A j \in 1..n : s[j] \in S
  BY InOrderIs
<1>2. Nearest(S, k, near) = SubSeq(s, 1, m)
  BY DEF Nearest
<1> HIDE DEF s
<1>3. m \in Nat /\ m <= n
  BY <1>1
<1>4. \A i \in 1..m : s[i] \in S
  BY <1>1, <1>3
<1> HIDE DEF m
<1>5. /\ SubSeq(s, 1, m) \in Seq(S)
      /\ Len(SubSeq(s, 1, m)) = IF 1 <= m THEN m - 1 + 1 ELSE 0
      /\ \A i \in 1 .. m - 1 + 1 : SubSeq(s, 1, m)[i] = s[1 + i - 1]
  BY <1>3, <1>4, SubSeqProperties
<1>6. Len(SubSeq(s, 1, m)) = m /\ \A i \in 1..m : SubSeq(s, 1, m)[i] = s[i]
  BY <1>3, <1>5
<1> QED
  BY <1>1, <1>2, <1>5, <1>6 DEF m, s

\* They are the records of the first k ranks.
LEMMA NearestRange ==
  ASSUME NEW S, NEW near, Sortable(S, Distance(near)), NEW k \in Nat \ {0}
  PROVE  Range(Nearest(S, k, near)) = {x \in S : Rank(S, Distance(near), x) <= k}
<1> DEFINE s == Nearest(S, k, near)
           q == InOrder(S, Distance(near))
           n == Cardinality(S)
<1>1. /\ s \in Seq(S) /\ n \in Nat /\ Len(s) = (IF k < n THEN k ELSE n)
      /\ \A j \in 1..Len(s) : s[j] = q[j]
  BY NearestIs
<1>2. DOMAIN s = 1..Len(s)
  BY <1>1, LenProperties
<1> HIDE DEF s
<1>3. ASSUME NEW j \in 1..Len(s) PROVE s[j] \in S /\ Rank(S, Distance(near), s[j]) <= k
  <2>1. j \in 1..n /\ j <= k
    BY <1>1
  <2> QED
    BY <1>1, <2>1, InOrderIs
<1>4. ASSUME NEW x \in S, Rank(S, Distance(near), x) <= k
      PROVE  \E j \in 1..Len(s) : s[j] = x
  <2>1. Rank(S, Distance(near), x) \in 1..n
    BY RankType
  <2>2. Rank(S, Distance(near), x) \in 1..Len(s)
    BY <1>1, <1>4, <2>1
  <2> QED
    BY <1>1, <2>2, InOrderIs
<1> QED
  BY <1>2, <1>3, <1>4 DEF Range, s

\* A subset that holds the k nearest has the same k nearest.
LEMMA NearestKept ==
  ASSUME NEW S, NEW near, Sortable(S, Distance(near)), NEW k \in Nat \ {0},
         NEW T \in SUBSET S, Range(Nearest(S, k, near)) \subseteq T
  PROVE  Nearest(T, k, near) = Nearest(S, k, near)
<1> DEFINE s == Nearest(S, k, near)
           t == Nearest(T, k, near)
<1>1. Sortable(T, Distance(near))
  BY SubsetSortable
<1>2. \A x \in S : Rank(S, Distance(near), x) <= k => x \in T
  BY NearestRange
<1>3. \A j \in 1..k :
        /\ j <= Cardinality(S) <=> j <= Cardinality(T)
        /\ j <= Cardinality(S) =>
             InOrder(S, Distance(near))[j] = InOrder(T, Distance(near))[j]
  BY <1>2, FrontKept
<1>4. /\ s \in Seq(S) /\ Cardinality(S) \in Nat
      /\ Len(s) = (IF k < Cardinality(S) THEN k ELSE Cardinality(S))
      /\ \A j \in 1..Len(s) : s[j] = InOrder(S, Distance(near))[j]
  BY NearestIs
<1>5. /\ t \in Seq(T) /\ Cardinality(T) \in Nat
      /\ Len(t) = (IF k < Cardinality(T) THEN k ELSE Cardinality(T))
      /\ \A j \in 1..Len(t) : t[j] = InOrder(T, Distance(near))[j]
  BY <1>1, NearestIs
<1> HIDE DEF s, t
<1>6. k <= Cardinality(S) <=> k <= Cardinality(T)
  BY <1>3
<1>7. Cardinality(S) < k => Cardinality(T) = Cardinality(S)
  <2>1. HAVE Cardinality(S) < k
  <2>2. Cardinality(T) < k
    BY <1>4, <1>5, <1>6, <2>1
  <2>3. Cardinality(S) >= 1 => Cardinality(S) <= Cardinality(T)
    BY <1>3, <1>4, <2>1
  <2>4. Cardinality(T) >= 1 => Cardinality(T) <= Cardinality(S)
    BY <1>3, <1>5, <2>2
  <2> QED
    BY <1>4, <1>5, <2>3, <2>4
<1>8. Len(s) = Len(t)
  BY <1>4, <1>5, <1>6, <1>7
<1>9. \A j \in 1..Len(s) : s[j] = t[j]
  BY <1>3, <1>4, <1>5, <1>8
<1>10. t \in Seq(S)
  BY <1>5, SeqMonotonic
<1> QED
  BY <1>4, <1>8, <1>9, <1>10, SeqEqual DEF s, t

-----------------------------------------------------------------------------
(* Records *)

\* A version per id, 0 where there is none.
Versions == [Ids -> 0..MaxLsn]

\* No version stands at two ids.
Distinct(vecs) == \A i, j \in Ids : vecs[i] = vecs[j] /\ vecs[i] > 0 => i = j

\* A record is an id with its version; there is one for each id that has a version.
LEMMA RecordsAre ==
  ASSUME NEW vecs \in Versions
  PROVE  /\ \A e \in Records(vecs) : /\ e \in Entries /\ e.id \in Ids /\ e.version \in Int
                                     /\ e.version = vecs[e.id] /\ vecs[e.id] > 0
         /\ \A e, f \in Records(vecs) : e.id = f.id => e = f
         /\ \A e : e \in Records(vecs) <=>
              \E i \in Ids : vecs[i] > 0 /\ e = [id |-> i, version |-> vecs[i]]
<1>1. \A e : e \in Records(vecs) <=>
        \E i \in Ids : vecs[i] > 0 /\ e = [id |-> i, version |-> vecs[i]]
  BY DEF Records
<1>2. \A i \in Ids : vecs[i] > 0 => vecs[i] \in 1..MaxLsn /\ vecs[i] \in Int
  BY ReadsAssumption DEF Versions
<1>3. \A i \in Ids : vecs[i] > 0 => [id |-> i, version |-> vecs[i]] \in Entries
  BY <1>2 DEF Entries
<1> QED
  BY <1>1, <1>2, <1>3

\* There are no more records than ids.
LEMMA RecordsFinite ==
  ASSUME NEW vecs \in Versions
  PROVE  IsFiniteSet(Records(vecs))
<1> DEFINE J == {j \in Ids : vecs[j] > 0}
           f == [i \in J |-> [id |-> i, version |-> vecs[i]]]
<1>1. IsFiniteSet(J)
  BY ReadsAssumption, FS_Subset
<1>2. f \in Surjection(J, Records(vecs))
  BY DEF Surjection, Records
<1> QED
  BY <1>1, <1>2, FS_Surjection

\* Records are in one order by id, and by distance if their versions differ.
LEMMA RecordsById ==
  ASSUME NEW vecs \in Versions, NEW S \in SUBSET Records(vecs)
  PROVE  Sortable(S, ById)
<1>1. IsFiniteSet(S)
  BY RecordsFinite, FS_Subset
<1>2. \A e \in S : ById[e] = e.id /\ e.id \in Int
  BY RecordsAre, ReadsAssumption DEF ById
<1> QED
  BY <1>1, <1>2, RecordsAre DEF Sortable

\* The distance is that of the version, so no two records are at the same.
LEMMA RecordsByDistance ==
  ASSUME NEW vecs \in Versions, Distinct(vecs), NEW S \in SUBSET Records(vecs), NEW near
  PROVE  Sortable(S, Distance(near))
<1>1. IsFiniteSet(S)
  BY RecordsFinite, FS_Subset
<1>2. \A e \in S : e \in Entries /\ e.version \in Int /\ e.id \in Ids
                   /\ e.version = vecs[e.id] /\ vecs[e.id] > 0
  BY RecordsAre
<1>3. \A e \in S : Distance(near)[e] = IF near = "low" THEN e.version ELSE - e.version
  BY <1>2 DEF Distance
<1>4. \A e, f \in S : e.version = f.version => e = f
  <2> SUFFICES ASSUME NEW e \in S, NEW f \in S, e.version = f.version PROVE e = f
    OBVIOUS
  <2>1. e.id = f.id
    BY <1>2 DEF Distinct
  <2> QED
    BY <2>1, RecordsAre
<1>5. \A e, f \in S : /\ Distance(near)[e] \in Int
                      /\ Distance(near)[e] = Distance(near)[f] => e.version = f.version
  BY <1>2, <1>3
<1> QED
  BY <1>1, <1>4, <1>5 DEF Sortable

\* The vectors of a shard under the names a sidecar has for them: each has its version,
\* and stands under its own id or under a hash, which is no id.
LEMMA NamedAre ==
  ASSUME NEW vecs \in Versions, NEW names, NEW S \in SUBSET Ids
  PROVE  /\ \A e : e \in Named(vecs, names, S) <=>
              \E i \in S : /\ vecs[i] > 0
                          /\ e = [id |-> IF names[i] = "own" THEN i ELSE Hash(i),
                                  version |-> vecs[i]]
         /\ \A e \in Named(vecs, names, S) :
              /\ e \in Entries /\ e.version \in Int
              /\ \E i \in Ids : vecs[i] > 0 /\ e.version = vecs[i]
              /\ e.id \in Ids => e \in Records(vecs)
<1>1. \A e : e \in Named(vecs, names, S) <=>
        \E i \in S : /\ vecs[i] > 0
                    /\ e = [id |-> IF names[i] = "own" THEN i ELSE Hash(i),
                            version |-> vecs[i]]
  BY DEF Named
<1>2. ASSUME NEW e \in Named(vecs, names, S)
      PROVE  /\ e \in Entries /\ e.version \in Int
             /\ \E i \in Ids : vecs[i] > 0 /\ e.version = vecs[i]
             /\ e.id \in Ids => e \in Records(vecs)
  <2>1. PICK i \in S : /\ vecs[i] > 0
                       /\ e = [id |-> IF names[i] = "own" THEN i ELSE Hash(i),
                               version |-> vecs[i]]
    BY <1>1
  <2>2. i \in Ids /\ i \in Nat /\ vecs[i] \in 1..MaxLsn /\ vecs[i] \in Int
    BY <2>1, ReadsAssumption DEF Versions
  <2>3. Hash(i) \in Hashes /\ Hash(i) \notin Ids
    BY <2>2, ReadsAssumption DEF Hash, Hashes
  <2>4. CASE names[i] = "own"
    <3>1. e = [id |-> i, version |-> vecs[i]]
      BY <2>1, <2>4
    <3> QED
      BY <2>1, <2>2, <3>1, RecordsAre
  <2>5. CASE names[i] # "own"
    <3>1. e = [id |-> Hash(i), version |-> vecs[i]]
      BY <2>1, <2>5
    <3>2. e \in Entries
      BY <2>2, <2>3, <3>1 DEF Entries
    <3> QED
      BY <2>1, <2>2, <2>3, <3>1, <3>2
  <2> QED
    BY <2>4, <2>5
<1> QED
  BY <1>1, <1>2

\* They are in one order by distance whatever their names.
LEMMA NamedByDistance ==
  ASSUME NEW vecs \in Versions, Distinct(vecs), NEW names,
         NEW S \in SUBSET Named(vecs, names, Ids), NEW near
  PROVE  Sortable(S, Distance(near))
<1> DEFINE J == {j \in Ids : vecs[j] > 0}
           N == Named(vecs, names, Ids)
           as == [i \in J |-> [id |-> IF names[i] = "own" THEN i ELSE Hash(i),
                               version |-> vecs[i]]]
<1>1. IsFiniteSet(S)
  <2>1. IsFiniteSet(J)
    BY ReadsAssumption, FS_Subset
  <2>2. as \in Surjection(J, N)
    BY DEF Surjection, Named
  <2>3. IsFiniteSet(N)
    BY <2>1, <2>2, FS_Surjection
  <2> QED
    BY <2>3, FS_Subset
<1>2. \A e \in S : /\ e \in Entries /\ e.version \in Int
                  /\ Distance(near)[e] = IF near = "low" THEN e.version ELSE - e.version
  BY NamedAre DEF Distance
<1>3. ASSUME NEW e \in S, NEW f \in S, e.version = f.version
      PROVE  e = f
  <2>1. PICK i \in Ids : /\ vecs[i] > 0
                         /\ e = [id |-> IF names[i] = "own" THEN i ELSE Hash(i),
                                 version |-> vecs[i]]
    BY NamedAre
  <2>2. PICK j \in Ids : /\ vecs[j] > 0
                         /\ f = [id |-> IF names[j] = "own" THEN j ELSE Hash(j),
                                 version |-> vecs[j]]
    BY NamedAre
  <2>3. e.version = vecs[i] /\ f.version = vecs[j]
    BY <2>1, <2>2
  <2>4. i = j
    BY <1>3, <2>1, <2>3 DEF Distinct
  <2> QED
    BY <2>1, <2>2, <2>4
<1>4. \A e, f \in S : /\ Distance(near)[e] \in Int
                      /\ Distance(near)[e] = Distance(near)[f] => e.version = f.version
  BY <1>2
<1> QED
  BY <1>1, <1>3, <1>4 DEF Sortable

\* With a name for each they are the shard's records.
LEMMA AllNamed ==
  ASSUME NEW vecs \in Versions, NEW names,
         \A i \in Ids : vecs[i] > 0 => names[i] = "own"
  PROVE  Named(vecs, names, Ids) = Records(vecs)
<1> DEFINE N == Named(vecs, names, Ids)
           R == Records(vecs)
<1>1. \A e : e \in N <=> \E i \in Ids : /\ vecs[i] > 0
                                       /\ e = [id |-> i, version |-> vecs[i]]
  BY NamedAre
<1>2. \A e : e \in R <=> \E i \in Ids : /\ vecs[i] > 0
                                       /\ e = [id |-> i, version |-> vecs[i]]
  BY RecordsAre
<1> HIDE DEF N, R
<1>3. N = R
  BY <1>1, <1>2
<1> QED
  BY <1>3 DEF N, R

\* Fewer elements precede one in a subset.
LEMMA RankOfSubset ==
  ASSUME NEW S, NEW key, Sortable(S, key), NEW T \in SUBSET S, NEW x \in T
  PROVE  Rank(T, key, x) <= Rank(S, key, x)
<1>1. UpTo(T, key, x) \in SUBSET UpTo(S, key, x)
  BY DEF UpTo
<1>2. IsFiniteSet(UpTo(S, key, x))
  BY RankType
<1> QED
  BY <1>1, <1>2, FS_Subset DEF Rank

\* The merge of a query whose shard has a name for every vector: recall answers for
\* the ids it knows, the shard for the others.  If recall hid none of the shard's hits
\* it is the k nearest of what is live.
LEMMA NamedMerge ==
  ASSUME NEW want \in Versions, Distinct(want), NEW cold \in Versions, Distinct(cold),
         NEW known, \A i \in Ids : i \notin known => want[i] = cold[i],
         NEW k \in Nat \ {0}, NEW filter, NEW near, NEW scan, scan.suppress = known,
         scan.matches = Nearest({e \in Matching(Records(want), filter) : e.id \in known},
                                k, near),
         NEW hits, hits = Nearest(Matching(Records(cold), filter), k, near),
         NEW merged, merged = _merge_recall_and_consolidated(scan, hits, k, near)
  PROVE  ~ (\E e \in Range(hits) : e.id \in known)
           => merged = Nearest(Matching(Records(want), filter), k, near)
<1> DEFINE live == Matching(Records(want), filter)
           L == {e \in live : e.id \in known}
           C == {e \in live : e.id \notin known}
           M == Matching(Records(cold), filter)
           A == Range(scan.matches)
           B == Range(hits)
           U == A \cup {e \in B : e.id \notin known}
           key == Distance(near)
<1>1. /\ live \in SUBSET Records(want) /\ M \in SUBSET Records(cold)
      /\ L \in SUBSET live /\ C \in SUBSET live
  BY DEF Matching
<1>2. Sortable(live, key) /\ Sortable(L, key) /\ Sortable(C, key) /\ Sortable(M, key)
  <2>1. L \in SUBSET Records(want) /\ C \in SUBSET Records(want)
    BY <1>1
  <2> QED
    BY <1>1, <2>1, RecordsByDistance
<1>3. \A e : e.id \notin known => (e \in M <=> e \in live)
  <2>1. \A e : e.id \notin known => (e \in Records(cold) <=> e \in Records(want))
    BY RecordsAre
  <2> QED
    BY <2>1 DEF Matching
<1>4. A = {x \in L : Rank(L, key, x) <= k}
  BY <1>2, NearestRange
<1>5. B = {x \in M : Rank(M, key, x) <= k}
  BY <1>2, NearestRange
<1> HIDE DEF key, L, M, live, A, B
<1>6. U \in SUBSET live
  BY <1>1, <1>3, <1>4, <1>5
<1>7. merged = Nearest(U, k, near)
  BY DEF _merge_recall_and_consolidated, A, B
<1> HIDE DEF U, C
<1>10. ASSUME ~ (\E e \in B : e.id \in known)
       PROVE  merged = Nearest(live, k, near)
  <2>1. C \in SUBSET M /\ B \subseteq C
    BY <1>1, <1>3, <1>5, <1>10 DEF C
  <2>2. Nearest(C, k, near) = hits
    BY <1>2, <2>1, NearestKept DEF B, M, key
  <2>3. B = {x \in C : Rank(C, key, x) <= k}
    <3>1. Range(Nearest(C, k, near)) = {x \in C : Rank(C, key, x) <= k}
      BY <1>2, NearestRange DEF key
    <3> QED
      BY <2>2, <3>1 DEF B
  <2>4. ASSUME NEW x \in live, Rank(live, key, x) <= k PROVE x \in U
    <3>1. Rank(live, key, x) \in Int
      BY <1>2, RankType
    <3>2. CASE x.id \in known
      <4>1. x \in L
        BY <3>2 DEF L
      <4>2. Rank(L, key, x) <= Rank(live, key, x) /\ Rank(L, key, x) \in Int
        BY <1>1, <1>2, <4>1, RankOfSubset, RankType
      <4> QED
        BY <1>4, <2>4, <3>1, <4>1, <4>2 DEF U
    <3>3. CASE x.id \notin known
      <4>1. x \in C
        BY <2>4, <3>3 DEF C
      <4>2. Rank(C, key, x) <= Rank(live, key, x) /\ Rank(C, key, x) \in Int
        BY <1>1, <1>2, <4>1, RankOfSubset, RankType
      <4>3. Rank(C, key, x) <= k
        BY <2>4, <3>1, <4>2
      <4> QED
        BY <2>3, <3>3, <4>1, <4>3 DEF U
    <3> QED
      BY <3>2, <3>3
  <2>5. Range(Nearest(live, k, near)) \subseteq U
    BY <1>2, <2>4, NearestRange DEF key
  <2> QED
    BY <1>2, <1>6, <1>7, <2>5, NearestKept DEF key
<1> QED
  BY <1>10 DEF live, B

\* The merge of a query, with whatever names the shard's vectors go by; none of them is
\* as near as one of recall's, whose LSNs are other ones.  What the merge
\* returns under a client's id, and all it returns under a filter, is live; if every
\* vector has its name and recall hid none of the hits, it is the k nearest of what is
\* live.
THEOREM MergeIsLive ==
  ASSUME NEW want \in Versions, Distinct(want), NEW cold \in Versions, Distinct(cold),
         NEW scan, \A i \in Ids : i \notin scan.suppress => want[i] = cold[i],
         \A i, j \in Ids : i \in scan.suppress /\ want[i] > 0 => want[i] # cold[j],
         NEW k \in Nat \ {0}, NEW filter, NEW near,
         scan.matches = Nearest({e \in Matching(Records(want), filter) :
                                   e.id \in scan.suppress}, k, near),
         NEW names, NEW hits, hits = Nearest(Matching(Named(cold, names, Ids), filter), k, near)
  PROVE  LET merged == _merge_recall_and_consolidated(scan, hits, k, near)
             live   == Matching(Records(want), filter)
         IN  /\ \A e \in Range(merged) : e.id \in Ids \/ filter => e \in live
             /\ (\A i \in Ids : cold[i] > 0 => names[i] = "own")
                /\ ~ (\E e \in Range(hits) : e.id \in scan.suppress)
                  => merged = Nearest(live, k, near)
<1> DEFINE live == Matching(Records(want), filter)
           known == scan.suppress
           merged == _merge_recall_and_consolidated(scan, hits, k, near)
           L == {e \in live : e.id \in known}
           M == Matching(Named(cold, names, Ids), filter)
           A == Range(scan.matches)
           B == Range(hits)
           U == A \cup {e \in B : e.id \notin known}
           key == Distance(near)
<1>1. Sortable(L, key) /\ Sortable(M, key)
  <2>1. L \in SUBSET Records(want) /\ M \in SUBSET Named(cold, names, Ids)
    BY DEF Matching
  <2> QED
    BY <2>1, RecordsByDistance, NamedByDistance
<1>2. A \in SUBSET L
  <2>1. A = Range(Nearest(L, k, near)) /\ Sortable(L, Distance(near))
    BY <1>1
  <2> HIDE DEF L, A
  <2> QED
    BY <2>1, NearestRange
<1>3. B \in SUBSET M
  <2>1. B = Range(Nearest(M, k, near)) /\ Sortable(M, Distance(near))
    BY <1>1
  <2> HIDE DEF M, B
  <2> QED
    BY <2>1, NearestRange
<1>4. ASSUME NEW e \in L
      PROVE  /\ e \in Entries /\ e.version \in Int
             /\ \A j \in Ids : e.version # cold[j]
  <2>1. e \in Records(want) /\ e.id \in known
    BY DEF Matching
  <2>2. /\ e \in Entries /\ e.id \in Ids /\ e.version \in Int
        /\ e.version = want[e.id] /\ want[e.id] > 0
    BY <2>1, RecordsAre
  <2> QED
    BY <2>1, <2>2
<1>5. ASSUME NEW e \in M
      PROVE  /\ e \in Entries /\ e.version \in Int /\ \E j \in Ids : e.version = cold[j]
             /\ filter => e.id \in Ids
             /\ e.id \in Ids /\ e.id \notin known => e \in live
  <2>1. e \in Named(cold, names, Ids) /\ metadata_matches_filter(filter, e)
    BY DEF Matching
  <2>2. /\ e \in Entries /\ e.version \in Int /\ \E j \in Ids : e.version = cold[j]
        /\ e.id \in Ids => e \in Records(cold)
    BY <2>1, NamedAre
  <2>3. filter => e.id \in Ids
    BY <2>1 DEF metadata_matches_filter
  <2>4. ASSUME e.id \in Ids, e.id \notin known PROVE e \in Records(want)
    <3>1. PICK i \in Ids : cold[i] > 0 /\ e = [id |-> i, version |-> cold[i]]
      BY <2>2, <2>4, RecordsAre
    <3>2. want[i] = cold[i]
      BY <2>4, <3>1
    <3> QED
      BY <3>1, <3>2, RecordsAre
  <2> QED
    BY <2>1, <2>2, <2>3, <2>4 DEF Matching
<1>6. Sortable(U, key)
  <2>1. IsFiniteSet(U)
    <3>1. IsFiniteSet(L \cup M)
      BY <1>1, FS_Union DEF Sortable
    <3>2. U \in SUBSET (L \cup M)
      BY <1>2, <1>3
    <3> QED
      BY <3>1, <3>2, FS_Subset
  <2>2. \A e \in L \cup M : key[e] = IF near = "low" THEN e.version ELSE - e.version
    BY <1>4, <1>5 DEF Distance
  <2> HIDE DEF key, L, M, A, B
  <2>3. \A e \in L, f \in M : key[e] \in Int /\ key[f] \in Int /\ key[e] # key[f]
    <3> TAKE e \in L, f \in M
    <3>1. e.version \in Int /\ f.version \in Int /\ e.version # f.version
      BY <1>4, <1>5
    <3> QED
      BY <2>2, <3>1
  <2>4. \A e \in L \cup M : key[e] \in Int
    BY <1>1 DEF Sortable
  <2>5. ASSUME NEW e \in U, NEW f \in U, key[e] = key[f]
        PROVE  e = f
    <3>1. (e \in L \/ e \in M) /\ (f \in L \/ f \in M)
      BY <1>2, <1>3
    <3>2. (e \in L /\ f \in L) \/ (e \in M /\ f \in M)
      BY <2>3, <2>5, <3>1
    <3> QED
      BY <1>1, <2>5, <3>2 DEF Sortable
  <2>6. \A e \in U : key[e] \in Int
    BY <1>2, <1>3, <2>4
  <2> QED
    BY <2>1, <2>5, <2>6 DEF Sortable
<1>7. merged = Nearest(U, k, near)
  BY DEF _merge_recall_and_consolidated
<1> HIDE DEF live, L, M, A, B, U, merged
<1>8. Range(merged) \in SUBSET U
  BY <1>6, <1>7, NearestRange
<1>9. ASSUME NEW e \in Range(merged), e.id \in Ids \/ filter
      PROVE  e \in live
  <2>1. e \in L \/ (e \in M /\ e.id \notin known)
    BY <1>2, <1>3, <1>8 DEF U
  <2> QED
    BY <1>5, <1>9, <2>1 DEF L
<1>10. ASSUME \A i \in Ids : cold[i] > 0 => names[i] = "own",
              ~ (\E e \in Range(hits) : e.id \in known)
       PROVE  merged = Nearest(live, k, near)
  <2>1. hits = Nearest(Matching(Records(cold), filter), k, near)
    BY <1>10, AllNamed
  <2> QED
    BY <1>10, <2>1, NamedMerge DEF live, merged
<1> QED
  BY <1>9, <1>10 DEF live, merged

-----------------------------------------------------------------------------
(* Pages *)

\* The ids of a set of records, and of a page of them.
ListedIds(R) == InOrder({e.id : e \in R}, [i \in Ids |-> i])

PageIds(page) == [k \in DOMAIN page |-> page[k].id]

\* Records sorted by id list the sorted ids.
LEMMA RecordsListIds ==
  ASSUME NEW vecs \in Versions, NEW R \in SUBSET Records(vecs)
  PROVE  LET all == ListedIds(R)
             records == InOrder(R, ById)
         IN  /\ all \in Seq(Ids) /\ records \in Seq(R)
             /\ Len(records) = Len(all)
             /\ \A k \in 1..Len(all) : records[k].id = all[k]
<1> DEFINE I == {e.id : e \in R}
           key == [i \in Ids |-> i]
           n == Cardinality(R)
           q == InOrder(R, ById)
           ids == [k \in 1..n |-> q[k].id]
           f == [e \in R |-> e.id]
<1>1. Sortable(R, ById)
  BY RecordsById
<1>2. \A e \in R : e.id \in Ids /\ ById[e] = e.id
  BY RecordsAre DEF ById
<1>3. \A e, g \in R : e.id = g.id => e = g
  BY RecordsAre
<1>4. f \in Bijection(R, I)
  BY <1>3 DEF Bijection, Injection, Surjection, IsInjective
<1>5. IsFiniteSet(I) /\ Cardinality(I) = n
  BY <1>1, <1>4, FS_Bijection DEF Sortable, ExistsBijection
<1>6. I \in SUBSET Ids
  BY <1>2
<1> HIDE DEF I
<1>7. Sortable(I, key)
  <2>1. \A i \in I : key[i] = i /\ i \in Int
    BY <1>6, ReadsAssumption
  <2> QED
    BY <1>5, <2>1 DEF Sortable
<1>8. /\ n \in Nat /\ q \in Seq(R) /\ Len(q) = n
      /\ \A k \in 1..n : q[k] \in R
  BY <1>1, InOrderIs
<1>9. Sorted(q, R, ById)
  BY <1>1, InOrderSorts
<1> HIDE DEF q
<1>10. \A k \in 1..n : q[k].id \in I /\ q[k].id \in Ids /\ ById[q[k]] = q[k].id
  BY <1>2, <1>8 DEF I
<1>11. \A i, j \in 1..n : i < j => q[i].id < q[j].id
  <2> SUFFICES ASSUME NEW i \in 1..n, NEW j \in 1..n, i < j PROVE q[i].id < q[j].id
    OBVIOUS
  <2>1. ById[q[i]] < ById[q[j]]
    BY <1>9 DEF Sorted
  <2> QED
    BY <1>10, <2>1
<1>12. Sorted(ids, I, key)
  BY <1>5, <1>10, <1>11 DEF Sorted
<1>13. InOrder(I, key) = ids
  BY <1>7, <1>12, SortedOnce
<1>14. /\ InOrder(I, key) \in Seq(I) /\ Len(InOrder(I, key)) = n
  BY <1>5, <1>7, InOrderIs
<1>15. InOrder(I, key) \in Seq(Ids)
  BY <1>6, <1>14, SeqMonotonic
<1> QED
  BY <1>8, <1>13, <1>14, <1>15 DEF q, I, ListedIds

\* The elements from one position to another.
LEMMA SubSeqIs ==
  ASSUME NEW S, NEW s \in Seq(S), NEW m \in Nat, NEW n \in m..Len(s)
  PROVE  /\ SubSeq(s, m + 1, n) \in Seq(S)
         /\ SubSeq(s, m + 1, n) \in [1..(n - m) -> S]
         /\ \A i \in 1..(n - m) : SubSeq(s, m + 1, n)[i] = s[m + i]
<1> DEFINE t == SubSeq(s, m + 1, n)
<1>1. Len(s) \in Nat /\ s \in [1..Len(s) -> S]
  BY LenProperties
<1>2. n \in Nat /\ m <= n /\ n <= Len(s)
  BY <1>1
<1>3. m + 1 \in Int /\ n \in Int /\ \A i \in m + 1 .. n : s[i] \in S
  BY <1>1, <1>2
<1>4. /\ t \in Seq(S)
      /\ Len(t) = IF m + 1 <= n THEN n - (m + 1) + 1 ELSE 0
      /\ \A i \in 1 .. n - (m + 1) + 1 : t[i] = s[m + 1 + i - 1]
  BY <1>3, SubSeqProperties
<1> HIDE DEF t
<1>5. Len(t) = n - m /\ \A i \in 1..(n - m) : t[i] = s[m + i]
  BY <1>2, <1>4
<1>6. t \in [1..(n - m) -> S]
  BY <1>4, <1>5, LenProperties
<1> QED
  BY <1>4, <1>5, <1>6 DEF t

\* One page more: what a client has got goes from the first ids of the listing to
\* the last one of the page.
LEMMA PageExtends ==
  ASSUME NEW R, NEW all \in Seq(Ids), NEW records \in Seq(R), Len(records) = Len(all),
         \A k \in 1..Len(all) : records[k].id = all[k],
         NEW offset \in Nat, NEW last \in offset..Len(all)
  PROVE  SubSeq(all, 1, offset) \o PageIds(SubSeq(records, offset + 1, last))
           = SubSeq(all, 1, last)
<1> DEFINE page == SubSeq(records, offset + 1, last)
           t == SubSeq(all, offset + 1, last)
           ids == PageIds(page)
           n == last - offset
<1>1. /\ page \in [1..n -> R]
      /\ \A i \in 1..n : page[i] = records[offset + i]
  BY SubSeqIs
<1>2. /\ t \in [1..n -> Ids]
      /\ \A i \in 1..n : t[i] = all[offset + i]
  BY SubSeqIs
<1>3. Len(all) \in Nat /\ last \in Nat /\ offset <= last /\ last <= Len(all)
  BY LenProperties
<1> HIDE DEF page, t
<1>4. \A i \in 1..n : page[i].id = t[i]
  <2> TAKE i \in 1..n
  <2>1. offset + i \in 1..Len(all)
    BY <1>3
  <2>2. records[offset + i].id = all[offset + i]
    BY <2>1
  <2> QED
    BY <1>1, <1>2, <2>2
<1>5. DOMAIN page = 1..n
  BY <1>1
<1>6. ids = t
  BY <1>2, <1>4, <1>5 DEF PageIds
<1>7. SubSeq(all, 1, offset) \o t = SubSeq(all, 1, last)
  <2>1. 1 \in 1..Len(all) + 1 /\ offset \in 1 - 1..Len(all) /\ last \in offset..Len(all)
    BY <1>3
  <2> QED
    BY <2>1, ConcatAdjacentSubSeq DEF t
<1> QED
  BY <1>6, <1>7 DEF page

-----------------------------------------------------------------------------
(* The store: memtable, shards and the fold under way *)

\* Version maps in which no version stands twice.
Dataset == {vecs \in Versions : Distinct(vecs)}

\* A shard has no vector above its watermark and no hash without a vector.
Covers(lsn, vecs, names) ==
  \A i \in Ids : vecs[i] <= lsn /\ (names[i] = "hash" => vecs[i] > 0)

Shard == {s \in [lsn : Nat, vecs : Dataset, names : [Ids -> {"own", "hash", "none"}]] :
            Covers(s.lsn, s.vecs, s.names)}

VectorsIn(list, g) == IF g = 0 THEN Nothing ELSE list[g].vecs
NamesIn(list, g)   == IF g = 0 THEN NoNames ELSE list[g].names
MarkIn(list, g)    == IF g = 0 THEN 0 ELSE list[g].lsn
PriorIn(list)      == IF Len(list) = 0 THEN 0 ELSE Len(list) - 1

\* A memtable row carries what the last acknowledged write of its id left.
StoreInv ==
  /\ last_lsn \in 0..MaxLsn
  /\ truth \in Dataset
  /\ DOMAIN parts = Ids
  /\ \A i \in Ids : /\ parts[i].lsn \in 0..last_lsn /\ truth[i] <= last_lsn
                    /\ Version(parts[i]) \in {0, parts[i].lsn}
                    /\ parts[i].lsn > 0 => truth[i] = Version(parts[i])

\* What the memtable does not hold above a shard's watermark is in that shard.
Reaches(g) ==
  \A i \in Ids : parts[i].lsn > MarkIn(shards, g) \/ VectorsIn(shards, g)[i] = truth[i]

\* And unless it was forgotten its id is in that shard's sidecar.
Remembers(g) ==
  \A i \in Ids : \/ parts[i].lsn > MarkIn(shards, g) \/ VectorsIn(shards, g)[i] = 0
                 \/ i \in forgotten \/ NamesIn(shards, g)[i] = "own"

ShardsInv ==
  /\ shards \in Seq(Shard)
  /\ MarkIn(shards, PriorIn(shards)) <= MarkIn(shards, Len(shards))
  /\ MarkIn(shards, Len(shards)) <= last_lsn
  /\ Reaches(Len(shards)) /\ Reaches(PriorIn(shards))
  /\ Remembers(Len(shards)) /\ Remembers(PriorIn(shards))
  /\ (\E i \in Ids : parts[i].lsn > 0)
       => \E i \in Ids : parts[i].lsn >= MarkIn(shards, Len(shards))

\* The shard a fold is going to add will reach as far.
FoldInv ==
  fold.pc = "snapped" =>
    /\ fold.lsn \in Nat
    /\ MarkIn(shards, Len(shards)) <= fold.lsn /\ fold.lsn <= last_lsn
    /\ FoldedIndex \in Dataset
    /\ \A i \in Ids : /\ FoldedIndex[i] <= fold.lsn
                      /\ parts[i].lsn > fold.lsn \/ FoldedIndex[i] = truth[i]
                      /\ \/ parts[i].lsn > fold.lsn \/ parts[i].lsn = 0
                         \/ fold.rows[i].lsn > 0
    /\ \E i \in Ids : parts[i].lsn >= fold.lsn

BaseInv == StoreInv /\ ShardsInv /\ FoldInv

\* The operators of the model, as functions of the list of shards.
LEMMA ShardsRead ==
  /\ Newest = Len(shards) /\ Prior = PriorIn(shards)
  /\ \A g : /\ Vectors(g) = VectorsIn(shards, g) /\ Names(g) = NamesIn(shards, g)
            /\ _watermark_of(g) = MarkIn(shards, g)
  BY DEF Newest, Prior, PriorIn, Vectors, VectorsIn, Names, NamesIn, _watermark_of, MarkIn

\* What a live row, a tombstone and no row say of an id.
LEMMA VersionOf ==
  /\ \A n : Version([lsn |-> n, deleted |-> FALSE]) = n
  /\ \A n : Version([lsn |-> n, deleted |-> TRUE]) = 0
  /\ Version(NoRow) = 0 /\ NoRow.lsn = 0
<1>1. \A n : /\ [lsn |-> n, deleted |-> FALSE].lsn = n
             /\ [lsn |-> n, deleted |-> FALSE].deleted = FALSE
  OBVIOUS
<1>2. \A n : [lsn |-> n, deleted |-> TRUE].deleted = TRUE
  OBVIOUS
<1> QED
  BY <1>1, <1>2 DEF Version, NoRow

\* The empty index.
LEMMA NothingIsDataset == Nothing \in Dataset /\ \A i \in Ids : Nothing[i] = 0
  BY ReadsAssumption DEF Nothing, Dataset, Versions, Distinct

\* The index, the sidecar and the watermark of a shard that is there, or of none.
LEMMA ShardType ==
  ASSUME NEW list \in Seq(Shard), NEW g \in 0..Len(list)
  PROVE  /\ VectorsIn(list, g) \in Dataset /\ MarkIn(list, g) \in Nat
         /\ NamesIn(list, g) \in [Ids -> {"own", "hash", "none"}]
         /\ Covers(MarkIn(list, g), VectorsIn(list, g), NamesIn(list, g))
<1>1. CASE g = 0
  <2>1. NoNames \in [Ids -> {"own", "hash", "none"}] /\ \A i \in Ids : NoNames[i] # "hash"
    BY DEF NoNames
  <2>2. VectorsIn(list, g) = Nothing /\ NamesIn(list, g) = NoNames /\ MarkIn(list, g) = 0
    BY <1>1 DEF VectorsIn, NamesIn, MarkIn
  <2> QED
    BY <2>1, <2>2, NothingIsDataset DEF Covers
<1>2. CASE g \in 1..Len(list)
  <2> DEFINE x == list[g]
  <2>1. x \in Shard
    BY <1>2, ElementOfSeq
  <2>2. VectorsIn(list, g) = x.vecs /\ NamesIn(list, g) = x.names /\ MarkIn(list, g) = x.lsn
    BY <1>2 DEF VectorsIn, NamesIn, MarkIn
  <2> HIDE DEF x
  <2> QED
    BY <2>1, <2>2 DEF Shard
<1> QED
  BY <1>1, <1>2, LenProperties

\* A write that is acknowledged gives the ids it wrote versions of their own, newer
\* than all there are.
Written(w) ==
  /\ w \in SUBSET Ids
  /\ last_lsn' \in 0..MaxLsn /\ last_lsn < last_lsn'
  /\ DOMAIN parts' = Ids
  /\ \A i \in Ids \ w : parts'[i] = parts[i]
  /\ \A i \in w : /\ parts'[i].lsn \in Nat
                  /\ last_lsn < parts'[i].lsn /\ parts'[i].lsn <= last_lsn'
                  /\ Version(parts'[i]) = 0 \/ Version(parts'[i]) = parts'[i].lsn
  /\ \A i, j \in w : parts'[i].lsn = parts'[j].lsn => i = j
  /\ Acknowledged(w)

\* A tombstone stands for version 0 at an LSN of its own.
LEMMA DeleteWrites ==
  ASSUME StoreInv, NEW i \in Ids, recall_delete_vector(i)
  PROVE  Written({i})
<1>1. last_lsn' = last_lsn + 1 /\ last_lsn' <= MaxLsn /\ last_lsn \in Nat
  BY ReadsAssumption DEF StoreInv, recall_delete_vector, _alloc_block
<1>2. /\ DOMAIN parts = Ids
      /\ parts' = [parts EXCEPT ![i] = [lsn |-> last_lsn', deleted |-> TRUE]]
  BY DEF StoreInv, recall_delete_vector
<1>3. /\ DOMAIN parts' = Ids /\ parts'[i] = [lsn |-> last_lsn', deleted |-> TRUE]
      /\ \A j \in Ids \ {i} : parts'[j] = parts[j]
  BY <1>2
<1>4. parts'[i].lsn = last_lsn' /\ Version(parts'[i]) = 0
  BY <1>3, VersionOf
<1>5. Acknowledged({i})
  BY DEF recall_delete_vector
<1>6. last_lsn' \in 0..MaxLsn /\ last_lsn' \in Nat /\ last_lsn < last_lsn'
  BY <1>1, ReadsAssumption
<1>7. \A j, k \in {i} : j = k
  OBVIOUS
<1>8. \A j \in {i} : /\ parts'[j].lsn \in Nat
                     /\ last_lsn < parts'[j].lsn /\ parts'[j].lsn <= last_lsn'
                     /\ Version(parts'[j]) = 0
  BY <1>4, <1>6
<1> QED
  BY <1>3, <1>5, <1>6, <1>7, <1>8 DEF Written

\* The k-th of a batch gets the k-th LSN of its block.
LEMMA UpsertWrites ==
  ASSUME StoreInv, NEW n \in 1..MaxBatch, NEW winners \in Batches(n),
         recall_upsert_vectors(winners)
  PROVE  Written(Range(winners))
<1> DEFINE w == Range(winners)
           place(i) == CHOOSE k \in DOMAIN winners : winners[k] = i
<1>1. winners \in [1..n -> Ids] /\ n \in Nat /\ n >= 1
  BY ReadsAssumption DEF Batches
<1>2. winners \in Seq(Ids)
  BY <1>1, SeqDef
<1>3. Len(winners) = n /\ DOMAIN winners = 1..n
  BY <1>1, <1>2, LenProperties
<1>4. last_lsn' = last_lsn + n /\ last_lsn' <= MaxLsn /\ last_lsn \in Nat
  BY <1>3, ReadsAssumption DEF StoreInv, recall_upsert_vectors, _alloc_block
<1>5. w \in SUBSET Ids
  BY <1>1 DEF Range
<1>6. \A i \in w : place(i) \in 1..n /\ winners[place(i)] = i
  BY <1>3 DEF Range
<1>7. parts' = [i \in Ids |-> IF i \in w
                              THEN [lsn |-> last_lsn + place(i), deleted |-> FALSE]
                              ELSE parts[i]]
  BY DEF recall_upsert_vectors
<1> HIDE DEF w, place
<1>8. DOMAIN parts' = Ids /\ \A i \in Ids \ w : parts'[i] = parts[i]
  BY <1>7
<1>9. \A i \in w : /\ parts'[i].lsn = last_lsn + place(i)
                   /\ Version(parts'[i]) = last_lsn + place(i)
  <2> TAKE i \in w
  <2>1. parts'[i] = [lsn |-> last_lsn + place(i), deleted |-> FALSE]
    BY <1>5, <1>7
  <2> QED
    BY <2>1, VersionOf
<1>10. \A i, j \in w : parts'[i].lsn = parts'[j].lsn => i = j
  <2> SUFFICES ASSUME NEW i \in w, NEW j \in w, parts'[i].lsn = parts'[j].lsn PROVE i = j
    OBVIOUS
  <2>1. place(i) = place(j)
    BY <1>4, <1>6, <1>9
  <2> QED
    BY <1>6, <2>1
<1>11. Acknowledged(w)
  BY DEF recall_upsert_vectors, w
<1>12. \A i \in w : /\ parts'[i].lsn \in Nat
                    /\ last_lsn < parts'[i].lsn /\ parts'[i].lsn <= last_lsn'
  BY <1>4, <1>6, <1>9
<1>13. last_lsn' \in 0..MaxLsn /\ last_lsn < last_lsn'
  BY <1>1, <1>4, ReadsAssumption
<1> QED
  BY <1>5, <1>8, <1>9, <1>10, <1>11, <1>12, <1>13 DEF Written, w

\* Both endpoints write so, and touch no shard, fold or request.
LEMMA WriteIs ==
  StoreInv /\ Write => /\ \E w : Written(w)
                       /\ UNCHANGED <<shards, fold, req>>
<1> SUFFICES ASSUME StoreInv, Write
             PROVE  (\E w : Written(w)) /\ UNCHANGED <<shards, fold, req>>
  OBVIOUS
<1>1. ASSUME NEW n \in 1..MaxBatch, NEW winners \in Batches(n),
             recall_upsert_vectors(winners)
      PROVE  (\E w : Written(w)) /\ UNCHANGED <<shards, fold, req>>
  BY <1>1, UpsertWrites DEF recall_upsert_vectors, shardVars
<1>2. ASSUME NEW i \in Ids, delete_vector_endpoint(i)
      PROVE  (\E w : Written(w)) /\ UNCHANGED <<shards, fold, req>>
  BY <1>2, DeleteWrites DEF delete_vector_endpoint, shardVars
<1> QED
  BY <1>1, <1>2 DEF Write

\* What was acknowledged before is as it was, and the new versions are higher.
LEMMA WrittenTruth ==
  ASSUME StoreInv, NEW w, Written(w)
  PROVE  /\ truth' \in Dataset
         /\ \A i \in w : truth'[i] = Version(parts'[i])
         /\ \A i \in Ids \ w : truth'[i] = truth[i]
<1>1. w \in SUBSET Ids
  BY DEF Written
<1>2. truth' = [i \in Ids |-> IF i \in w THEN Version(parts'[i]) ELSE truth[i]]
  BY DEF Written, Acknowledged
<1>3. \A i \in w : truth'[i] = Version(parts'[i])
  BY <1>1, <1>2
<1>4. \A i \in Ids \ w : truth'[i] = truth[i]
  BY <1>2
<1>5. last_lsn \in Nat /\ last_lsn <= MaxLsn /\ last_lsn' \in Nat /\ last_lsn' <= MaxLsn
  BY ReadsAssumption DEF StoreInv, Written
<1>6. \A i \in Ids : truth[i] \in 0..MaxLsn /\ truth[i] <= last_lsn
  BY DEF StoreInv, Dataset, Versions
<1>7. \A i \in w : /\ truth'[i] \in Nat /\ truth'[i] <= last_lsn'
                   /\ truth'[i] = 0 \/ (truth'[i] = parts'[i].lsn /\ last_lsn < truth'[i])
  BY <1>3, <1>5 DEF Written
<1>8. \A i \in Ids : truth'[i] \in 0..MaxLsn
  <2> TAKE i \in Ids
  <2>1. i \in w => truth'[i] \in 0..MaxLsn
    BY <1>5, <1>7, ReadsAssumption
  <2>2. i \notin w => truth'[i] \in 0..MaxLsn
    BY <1>4, <1>6
  <2> QED
    BY <2>1, <2>2
<1>9. truth' \in Versions
  BY <1>2, <1>8 DEF Versions
<1>10. Distinct(truth')
  <2> SUFFICES ASSUME NEW i \in Ids, NEW j \in Ids, truth'[i] = truth'[j], truth'[i] > 0
               PROVE  i = j
    BY DEF Distinct
  <2>1. CASE i \in w /\ j \in w
    <3>1. parts'[i].lsn = parts'[j].lsn
      BY <1>7, <2>1
    <3> QED
      BY <2>1, <3>1 DEF Written
  <2>2. CASE i \notin w /\ j \notin w
    <3>1. truth[i] = truth[j] /\ truth[i] > 0
      BY <1>4, <2>2
    <3> QED
      BY <3>1 DEF StoreInv, Dataset, Distinct
  <2>3. (i \in w) = (j \in w)
    BY <1>4, <1>5, <1>6, <1>7
  <2> QED
    BY <2>1, <2>2, <2>3
<1> QED
  BY <1>3, <1>4, <1>9, <1>10 DEF Dataset

\* The rows written are the truth about their ids, the others still are.
LEMMA WrittenStore ==
  ASSUME StoreInv, NEW w, Written(w)
  PROVE  StoreInv'
<1>1. truth' \in Dataset /\ last_lsn' \in 0..MaxLsn /\ DOMAIN parts' = Ids
  BY WrittenTruth DEF Written
<1>2. last_lsn \in Nat /\ last_lsn' \in Nat /\ last_lsn < last_lsn'
  BY DEF StoreInv, Written
<1>3. ASSUME NEW i \in Ids
      PROVE  /\ parts'[i].lsn \in 0..last_lsn' /\ truth'[i] <= last_lsn'
             /\ Version(parts'[i]) \in {0, parts'[i].lsn}
             /\ parts'[i].lsn > 0 => truth'[i] = Version(parts'[i])
  <2>1. CASE i \in w
    <3>1. truth'[i] = Version(parts'[i])
      BY <2>1, WrittenTruth
    <3>2. /\ parts'[i].lsn \in Nat /\ parts'[i].lsn <= last_lsn'
          /\ Version(parts'[i]) = 0 \/ Version(parts'[i]) = parts'[i].lsn
      BY <2>1 DEF Written
    <3> QED
      BY <1>2, <3>1, <3>2
  <2>2. CASE i \notin w
    <3>1. truth'[i] = truth[i]
      BY <2>2, WrittenTruth
    <3>2. parts'[i] = parts[i]
      BY <2>2 DEF Written
    <3>3. truth[i] \in Nat
      BY DEF StoreInv, Dataset, Versions
    <3>4. /\ parts[i].lsn \in 0..last_lsn /\ truth[i] <= last_lsn
          /\ Version(parts[i]) \in {0, parts[i].lsn}
          /\ parts[i].lsn > 0 => truth[i] = Version(parts[i])
      BY DEF StoreInv
    <3> QED
      BY <1>2, <3>1, <3>2, <3>3, <3>4
  <2> QED
    BY <2>1, <2>2
<1> QED
  BY <1>1, <1>3 DEF StoreInv

\* A row an acknowledged write leaves stands above everything there was before.
LEMMA WrittenRises ==
  ASSUME StoreInv, NEW w, Written(w)
  PROVE  \A i \in Ids : \/ /\ parts'[i] = parts[i] /\ truth'[i] = truth[i]
                           /\ i \in forgotten' <=> i \in forgotten
                        \/ parts'[i].lsn \in Nat /\ parts'[i].lsn > last_lsn
<1> TAKE i \in Ids
<1>1. CASE i \in w
  <2>1. parts'[i].lsn \in Nat /\ last_lsn < parts'[i].lsn
    BY <1>1 DEF Written
  <2> QED
    BY <2>1 DEF StoreInv
<1>2. CASE i \notin w
  <2>1. parts'[i] = parts[i] /\ (i \in forgotten' <=> i \in forgotten)
    BY <1>2 DEF Written, Acknowledged
  <2> QED
    BY <1>2, <2>1, WrittenTruth
<1> QED
  BY <1>1, <1>2

\* The two newest shards and their watermarks.
LEMMA TwoNewest ==
  ASSUME NEW list \in Seq(Shard)
  PROVE  /\ Len(list) \in Nat /\ PriorIn(list) \in Nat
         /\ Len(list) \in 0..Len(list) /\ PriorIn(list) \in 0..Len(list)
         /\ MarkIn(list, Len(list)) \in Nat /\ MarkIn(list, PriorIn(list)) \in Nat
         /\ VectorsIn(list, Len(list)) \in Dataset
<1>1. Len(list) \in Nat
  BY LenProperties
<1>2. Len(list) \in 0..Len(list) /\ PriorIn(list) \in 0..Len(list)
  BY <1>1 DEF PriorIn
<1> QED
  BY <1>1, <1>2, ShardType

\* A shard lacks no more than what was written above its watermark.
LEMMA WrittenShards ==
  ASSUME StoreInv, ShardsInv, NEW w, Written(w), UNCHANGED shards
  PROVE  ShardsInv'
<1> DEFINE top == MarkIn(shards, Len(shards))
           low == MarkIn(shards, PriorIn(shards))
<1>1. /\ shards \in Seq(Shard) /\ top \in Nat /\ low \in Nat
      /\ low <= top /\ top <= last_lsn
  BY TwoNewest DEF ShardsInv
<1>2. last_lsn \in Nat /\ last_lsn' \in Nat /\ last_lsn < last_lsn'
  BY DEF StoreInv, Written
<1>3. \A i \in Ids : \/ /\ parts'[i] = parts[i] /\ truth'[i] = truth[i]
                        /\ i \in forgotten' <=> i \in forgotten
                     \/ parts'[i].lsn \in Nat /\ parts'[i].lsn > last_lsn
  BY WrittenRises
<1>4. ASSUME NEW g, MarkIn(shards, g) \in Nat, MarkIn(shards, g) <= last_lsn,
             Reaches(g), Remembers(g)
      PROVE  Reaches(g)' /\ Remembers(g)'
  <2>1. /\ MarkIn(shards, g)' = MarkIn(shards, g)
        /\ VectorsIn(shards, g)' = VectorsIn(shards, g)
        /\ NamesIn(shards, g)' = NamesIn(shards, g)
    BY DEF MarkIn, VectorsIn, NamesIn
  <2>2. \A i \in Ids : \/ parts'[i].lsn > MarkIn(shards, g)
                       \/ VectorsIn(shards, g)[i] = truth'[i]
    BY <1>2, <1>3, <1>4 DEF Reaches
  <2>3. \A i \in Ids :
          \/ parts'[i].lsn > MarkIn(shards, g) \/ VectorsIn(shards, g)[i] = 0
          \/ i \in forgotten' \/ NamesIn(shards, g)[i] = "own"
    BY <1>2, <1>3, <1>4 DEF Remembers
  <2> QED
    BY <2>1, <2>2, <2>3 DEF Reaches, Remembers
<1>5. (\E i \in Ids : parts'[i].lsn > 0) => \E i \in Ids : parts'[i].lsn >= top
  <2> SUFFICES ASSUME NEW i \in Ids, parts'[i].lsn > 0
               PROVE  \E j \in Ids : parts'[j].lsn >= top
    OBVIOUS
  <2>1. CASE \E j \in Ids : parts'[j].lsn \in Nat /\ parts'[j].lsn > last_lsn
    BY <1>1, <1>2, <2>1
  <2>2. CASE \A j \in Ids : parts'[j] = parts[j]
    <3>1. \E j \in Ids : parts[j].lsn >= top
      BY <2>2 DEF ShardsInv
    <3> QED
      BY <2>2, <3>1
  <2> QED
    BY <1>3, <2>1, <2>2
<1>6. /\ Reaches(Len(shards))' /\ Reaches(PriorIn(shards))'
      /\ Remembers(Len(shards))' /\ Remembers(PriorIn(shards))'
  <2>1. /\ Reaches(Len(shards)) /\ Reaches(PriorIn(shards))
        /\ Remembers(Len(shards)) /\ Remembers(PriorIn(shards))
    BY DEF ShardsInv
  <2>2. low <= last_lsn
    BY <1>1, <1>2
  <2> QED
    BY <1>1, <1>4, <2>1, <2>2
<1> QED
  BY <1>1, <1>2, <1>5, <1>6 DEF ShardsInv

\* Nor does the shard of a fold that took its rows before.
LEMMA WrittenFold ==
  ASSUME StoreInv, FoldInv, NEW w, Written(w), UNCHANGED <<shards, fold>>
  PROVE  FoldInv'
<1> SUFFICES ASSUME fold.pc = "snapped" PROVE FoldInv'
  BY DEF FoldInv
<1>1. last_lsn \in Nat /\ last_lsn' \in Nat /\ last_lsn < last_lsn'
  BY DEF StoreInv, Written
<1>2. \A i \in Ids : \/ parts'[i] = parts[i] /\ truth'[i] = truth[i]
                     \/ parts'[i].lsn \in Nat /\ parts'[i].lsn > last_lsn
  BY WrittenRises
<1>3. FoldedIndex' = FoldedIndex
  BY DEF FoldedIndex, Vectors, Newest
<1>4. /\ fold.lsn \in Nat
      /\ MarkIn(shards, Len(shards)) <= fold.lsn /\ fold.lsn <= last_lsn
      /\ FoldedIndex \in Dataset
  BY DEF FoldInv
<1>5. \A i \in Ids : /\ FoldedIndex[i] <= fold.lsn
                     /\ parts'[i].lsn > fold.lsn \/ FoldedIndex[i] = truth'[i]
                     /\ \/ parts'[i].lsn > fold.lsn \/ parts'[i].lsn = 0
                        \/ fold.rows[i].lsn > 0
  <2> TAKE i \in Ids
  <2>1. /\ FoldedIndex[i] <= fold.lsn
        /\ parts[i].lsn > fold.lsn \/ FoldedIndex[i] = truth[i]
        /\ \/ parts[i].lsn > fold.lsn \/ parts[i].lsn = 0
           \/ fold.rows[i].lsn > 0
    BY DEF FoldInv
  <2> QED
    BY <1>1, <1>2, <1>4, <2>1
<1>6. \E i \in Ids : parts'[i].lsn >= fold.lsn
  <2>1. PICK i \in Ids : parts[i].lsn >= fold.lsn
    BY DEF FoldInv
  <2> QED
    BY <1>1, <1>2, <1>4, <2>1
<1> QED
  BY <1>1, <1>3, <1>4, <1>5, <1>6 DEF FoldInv

\* The list with one more shard.
LEMMA AppendShard ==
  ASSUME NEW list \in Seq(Shard), NEW x \in Shard
  PROVE  LET more == Append(list, x)
         IN  /\ more \in Seq(Shard) /\ Len(more) = Len(list) + 1
             /\ PriorIn(more) = Len(list)
             /\ \A g \in 0..Len(list) : /\ VectorsIn(more, g) = VectorsIn(list, g)
                                        /\ NamesIn(more, g) = NamesIn(list, g)
                                        /\ MarkIn(more, g) = MarkIn(list, g)
             /\ VectorsIn(more, Len(more)) = x.vecs
             /\ NamesIn(more, Len(more)) = x.names
             /\ MarkIn(more, Len(more)) = x.lsn
<1> DEFINE more == Append(list, x)
<1>1. /\ more \in Seq(Shard) /\ Len(more) = Len(list) + 1 /\ Len(list) \in Nat
      /\ \A g \in 1..Len(list) : more[g] = list[g]
      /\ more[Len(list) + 1] = x
  BY AppendProperties, LenProperties
<1> HIDE DEF more
<1>2. \A g \in 0..Len(list) : g = 0 \/ g \in 1..Len(list)
  BY <1>1
<1>3. Len(more) # 0 /\ Len(more) - 1 = Len(list)
  BY <1>1
<1> QED
  BY <1>1, <1>2, <1>3 DEF PriorIn, VectorsIn, NamesIn, MarkIn, more

\* The shard a fold builds, whether it could read the older sidecar or not.
Built(read) == [lsn |-> fold.lsn, vecs |-> FoldedIndex, names |-> FoldedSidecar(read)]

LEMMA BuiltIsShard ==
  ASSUME BaseInv, fold.pc = "snapped", NEW read \in BOOLEAN
  PROVE  /\ Built(read) \in Shard
         /\ Built(read).lsn = fold.lsn /\ Built(read).vecs = FoldedIndex
         /\ Built(read).names = FoldedSidecar(read)
<1>1. /\ Built(read).lsn = fold.lsn /\ Built(read).vecs = FoldedIndex
      /\ Built(read).names = FoldedSidecar(read)
  BY DEF Built
<1>2. /\ fold.lsn \in Nat /\ FoldedIndex \in Dataset
      /\ \A i \in Ids : FoldedIndex[i] <= fold.lsn
  BY DEF BaseInv, FoldInv
<1>3. /\ Names(Newest) \in [Ids -> {"own", "hash", "none"}]
      /\ \A i \in Ids : Names(Newest)[i] = "hash" => Vectors(Newest)[i] > 0
  <2>1. shards \in Seq(Shard) /\ Len(shards) \in 0..Len(shards)
    BY TwoNewest DEF BaseInv, ShardsInv
  <2> QED
    BY <2>1, ShardType, ShardsRead DEF Covers
<1>4. \A i \in Ids : /\ FoldedSidecar(read)[i] \in {"own", "hash", "none"}
                     /\ FoldedSidecar(read)[i] = "hash" => FoldedIndex[i] > 0
  BY <1>3 DEF FoldedSidecar, FoldedIndex
<1>5. FoldedSidecar(read) \in [Ids -> {"own", "hash", "none"}]
  BY <1>4 DEF FoldedSidecar
<1>6. Built(read) \in [lsn : Nat, vecs : Dataset, names : [Ids -> {"own", "hash", "none"}]]
  BY <1>2, <1>5 DEF Built
<1>7. Covers(fold.lsn, FoldedIndex, FoldedSidecar(read))
  BY <1>2, <1>4 DEF Covers
<1> QED
  BY <1>1, <1>6, <1>7 DEF Shard

\* A fold adds its shard, or finds that there is nothing to add.
LEMMA AddShardIs ==
  ASSUME add_shard
  PROVE  /\ fold.pc = "snapped" /\ fold'.pc # "snapped"
         /\ UNCHANGED <<parts, last_lsn, truth, reshaped, req>>
         /\ \/ UNCHANGED <<shards, forgotten>>
            \/ \E read \in BOOLEAN :
                 /\ shards' = Append(shards, Built(read))
                 /\ forgotten' = IF read THEN forgotten
                                 ELSE forgotten \cup {i \in Ids : /\ parts[i].lsn = 0
                                                                /\ Vectors(Newest)[i] > 0}
<1>1. fold.pc = "snapped" /\ UNCHANGED <<parts, last_lsn, truth, reshaped, req>>
  BY DEF add_shard
<1>2. CASE fold' = Idle /\ UNCHANGED <<shardVars, forgotten, faults>>
  BY <1>1, <1>2 DEF shardVars, Idle
<1>3. ASSUME NEW read \in BOOLEAN,
             IF read THEN UNCHANGED <<forgotten, faults>>
             ELSE /\ Newest # 0 /\ Fault
                  /\ forgotten' = forgotten \cup {i \in Ids : /\ parts[i].lsn = 0
                                                           /\ Vectors(Newest)[i] > 0},
             shards' = Append(shards, Built(read)), fold' = [pc |-> "committed"]
      PROVE  /\ fold'.pc # "snapped"
             /\ forgotten' = IF read THEN forgotten
                             ELSE forgotten \cup {i \in Ids : /\ parts[i].lsn = 0
                                                            /\ Vectors(Newest)[i] > 0}
  BY <1>3
<1>4. \/ fold' = Idle /\ UNCHANGED <<shardVars, forgotten, faults>>
      \/ \E read \in BOOLEAN :
           /\ IF read THEN UNCHANGED <<forgotten, faults>>
              ELSE /\ Newest # 0 /\ Fault
                   /\ forgotten' = forgotten \cup {i \in Ids : /\ parts[i].lsn = 0
                                                            /\ Vectors(Newest)[i] > 0}
           /\ shards' = Append(shards, Built(read)) /\ fold' = [pc |-> "committed"]
  BY DEF add_shard, Built
<1> QED
  BY <1>1, <1>2, <1>3, <1>4

\* The new shard remembers what the newest one did, less what the fold forgets.
LEMMA AddShardRemembers ==
  ASSUME BaseInv, fold.pc = "snapped", NEW read \in BOOLEAN, NEW i \in Ids,
         parts[i].lsn <= fold.lsn, FoldedIndex[i] > 0, i \notin forgotten,
         ~ read => parts[i].lsn > 0 \/ Vectors(Newest)[i] = 0
  PROVE  FoldedSidecar(read)[i] = "own"
<1>1. CASE fold.rows[i].lsn > 0
  BY <1>1 DEF FoldedSidecar, FoldedIndex
<1>2. CASE ~ (fold.rows[i].lsn > 0)
  <2>1. /\ fold.lsn \in Nat /\ parts[i].lsn \in Nat
        /\ \/ parts[i].lsn > fold.lsn \/ parts[i].lsn = 0 \/ fold.rows[i].lsn > 0
    BY DEF BaseInv, FoldInv, StoreInv
  <2>2. parts[i].lsn = 0
    BY <1>2, <2>1
  <2>3. FoldedIndex[i] = Vectors(Newest)[i]
    BY <1>2 DEF FoldedIndex
  <2>4. Vectors(Newest)[i] = VectorsIn(shards, Len(shards))[i]
        /\ Names(Newest)[i] = NamesIn(shards, Len(shards))[i]
    BY ShardsRead
  <2>5. VectorsIn(shards, Len(shards))[i] # 0 /\ MarkIn(shards, Len(shards)) \in Nat
    <3>1. shards \in Seq(Shard)
      BY DEF BaseInv, ShardsInv
    <3>2. VectorsIn(shards, Len(shards))[i] \in 0..MaxLsn
      BY <3>1, TwoNewest DEF Dataset, Versions
    <3> QED
      BY <2>3, <2>4, <3>1, <3>2, TwoNewest
  <2>6. read
    BY <2>2, <2>4, <2>5
  <2>7. Names(Newest)[i] = "own"
    BY <2>2, <2>4, <2>5 DEF BaseInv, ShardsInv, Remembers
  <2> QED
    BY <1>2, <2>6, <2>7 DEF FoldedSidecar
<1> QED
  BY <1>1, <1>2

\* So a fold that adds its shard keeps the invariant.
LEMMA AddShardKeeps ==
  ASSUME BaseInv, add_shard
  PROVE  BaseInv'
<1>1. fold.pc = "snapped" /\ UNCHANGED <<parts, last_lsn, truth>>
  BY AddShardIs
<1>2. StoreInv'
  BY <1>1 DEF BaseInv, StoreInv
<1>3. FoldInv'
  BY AddShardIs DEF FoldInv
<1>4. CASE UNCHANGED <<shards, forgotten>>
  BY <1>1, <1>2, <1>3, <1>4 DEF BaseInv, ShardsInv, Reaches, Remembers
<1>5. ASSUME NEW read \in BOOLEAN, shards' = Append(shards, Built(read)),
             forgotten' = IF read THEN forgotten
                          ELSE forgotten \cup {i \in Ids : /\ parts[i].lsn = 0
                                                         /\ Vectors(Newest)[i] > 0}
      PROVE  BaseInv'
  <2> DEFINE n == Len(shards)
  <2>1. /\ fold.lsn \in Nat
        /\ MarkIn(shards, n) <= fold.lsn /\ fold.lsn <= last_lsn
        /\ \A i \in Ids : parts[i].lsn > fold.lsn \/ FoldedIndex[i] = truth[i]
        /\ \E i \in Ids : parts[i].lsn >= fold.lsn
    BY <1>1 DEF BaseInv, FoldInv
  <2>2. /\ Built(read) \in Shard /\ Built(read).lsn = fold.lsn
        /\ Built(read).vecs = FoldedIndex /\ Built(read).names = FoldedSidecar(read)
    BY <1>1, BuiltIsShard
  <2>3. shards \in Seq(Shard) /\ n \in 0..n /\ Reaches(n) /\ Remembers(n)
    BY TwoNewest DEF BaseInv, ShardsInv
  <2>4. /\ shards' \in Seq(Shard) /\ PriorIn(shards') = n
        /\ VectorsIn(shards', n) = VectorsIn(shards, n)
        /\ NamesIn(shards', n) = NamesIn(shards, n)
        /\ MarkIn(shards', n) = MarkIn(shards, n)
        /\ VectorsIn(shards', Len(shards')) = FoldedIndex
        /\ NamesIn(shards', Len(shards')) = FoldedSidecar(read)
        /\ MarkIn(shards', Len(shards')) = fold.lsn
    BY <1>5, <2>2, <2>3, AppendShard
  <2>5. /\ forgotten \subseteq forgotten'
        /\ \A i \in Ids : i \notin forgotten' /\ ~ read
                          => parts[i].lsn > 0 \/ Vectors(Newest)[i] = 0
    <3>1. \A i \in Ids : parts[i].lsn \in Nat
      BY DEF BaseInv, StoreInv
    <3>2. \A i \in Ids : Vectors(Newest)[i] \in 0..MaxLsn
      BY <2>3, TwoNewest, ShardsRead DEF Dataset, Versions
    <3>3. \A i \in Ids : /\ parts[i].lsn > 0 \/ parts[i].lsn = 0
                         /\ Vectors(Newest)[i] > 0 \/ Vectors(Newest)[i] = 0
      BY <3>1, <3>2
    <3> QED
      BY <1>5, <3>3
  <2>6. \A i \in Ids : \/ parts[i].lsn > fold.lsn \/ FoldedIndex[i] = 0
                       \/ i \in forgotten' \/ FoldedSidecar(read)[i] = "own"
    <3>1. \A i \in Ids : /\ parts[i].lsn > fold.lsn \/ parts[i].lsn <= fold.lsn
                         /\ FoldedIndex[i] > 0 \/ FoldedIndex[i] = 0
      <4>1. \A i \in Ids : parts[i].lsn \in Nat
        BY DEF BaseInv, StoreInv
      <4>2. \A i \in Ids : FoldedIndex[i] \in 0..MaxLsn
        BY <1>1 DEF BaseInv, FoldInv, Dataset, Versions
      <4> QED
        BY <2>1, <4>1, <4>2
    <3> QED
      BY <1>1, <2>5, <3>1, AddShardRemembers
  <2> HIDE DEF n
  <2>7. /\ Reaches(Len(shards))' /\ Reaches(PriorIn(shards))'
        /\ Remembers(Len(shards))' /\ Remembers(PriorIn(shards))'
    BY <1>1, <2>1, <2>3, <2>4, <2>5, <2>6 DEF Reaches, Remembers
  <2>8. ShardsInv'
    BY <1>1, <2>1, <2>4, <2>7 DEF ShardsInv
  <2> QED
    BY <1>2, <1>3, <2>8 DEF BaseInv
<1> QED
  BY <1>4, <1>5, AddShardIs

\* The rows a trim drops are in both shards it keeps.
LEMMA TrimKeeps ==
  ASSUME BaseInv, recall_trim
  PROVE  BaseInv'
<1> DEFINE top == MarkIn(shards, Len(shards))
           low == MarkIn(shards, PriorIn(shards))
<1>1. /\ UNCHANGED <<last_lsn, truth, shards, forgotten>>
      /\ parts' = [i \in Ids |-> IF parts[i].lsn <= low THEN NoRow ELSE parts[i]]
  BY ShardsRead DEF recall_trim, shardVars
<1>2. /\ shards \in Seq(Shard) /\ top \in Nat /\ low \in Nat
      /\ low <= top /\ top <= last_lsn
      /\ Reaches(Len(shards)) /\ Reaches(PriorIn(shards))
      /\ Remembers(Len(shards)) /\ Remembers(PriorIn(shards))
  BY TwoNewest DEF BaseInv, ShardsInv
<1> HIDE DEF top, low
<1>3. \A i \in Ids : /\ parts[i].lsn \in Nat /\ parts[i].lsn <= last_lsn
                     /\ Version(parts[i]) \in {0, parts[i].lsn} /\ truth[i] <= last_lsn
                     /\ parts[i].lsn > 0 => truth[i] = Version(parts[i])
  BY DEF BaseInv, StoreInv
<1>4. \A i \in Ids : \/ parts[i].lsn > low /\ parts'[i] = parts[i]
                     \/ parts[i].lsn <= low /\ parts'[i].lsn = 0 /\ Version(parts'[i]) = 0
  <2> TAKE i \in Ids
  <2>1. parts[i].lsn > low \/ parts[i].lsn <= low
    BY <1>2, <1>3
  <2>2. parts[i].lsn > low => parts'[i] = parts[i]
    BY <1>1, <1>2, <1>3
  <2>3. parts[i].lsn <= low => parts'[i] = NoRow
    BY <1>1
  <2> QED
    BY <2>1, <2>2, <2>3, VersionOf
<1>5. last_lsn \in Nat /\ last_lsn \in 0..MaxLsn /\ truth \in Dataset
  BY DEF BaseInv, StoreInv
<1>6. StoreInv'
  <2>1. DOMAIN parts' = Ids
    BY <1>1
  <2>2. \A i \in Ids : /\ parts'[i].lsn \in 0..last_lsn
                       /\ Version(parts'[i]) \in {0, parts'[i].lsn}
                       /\ parts'[i].lsn > 0 => truth[i] = Version(parts'[i])
    BY <1>3, <1>4, <1>5
  <2> QED
    BY <1>1, <1>3, <1>5, <2>1, <2>2 DEF StoreInv
<1>7. ASSUME NEW g, MarkIn(shards, g) \in Nat, low <= MarkIn(shards, g),
             Reaches(g), Remembers(g)
      PROVE  Reaches(g)' /\ Remembers(g)'
  <2>1. /\ MarkIn(shards, g)' = MarkIn(shards, g)
        /\ VectorsIn(shards, g)' = VectorsIn(shards, g)
        /\ NamesIn(shards, g)' = NamesIn(shards, g)
    BY <1>1 DEF MarkIn, VectorsIn, NamesIn
  <2>2. ASSUME NEW i \in Ids
        PROVE  parts[i].lsn > MarkIn(shards, g) => parts'[i].lsn > MarkIn(shards, g)
    BY <1>2, <1>3, <1>4, <1>7
  <2> QED
    BY <1>1, <1>7, <2>1, <2>2 DEF Reaches, Remembers
<1>8. (\E i \in Ids : parts'[i].lsn > 0) => \E i \in Ids : parts'[i].lsn >= top
  <2> SUFFICES ASSUME NEW i \in Ids, parts'[i].lsn > 0
               PROVE  \E j \in Ids : parts'[j].lsn >= top
    OBVIOUS
  <2>1. parts[i].lsn > low /\ parts'[i] = parts[i]
    BY <1>4
  <2>2. PICK j \in Ids : parts[j].lsn >= top
    BY <1>2, <1>3, <2>1 DEF BaseInv, ShardsInv, top
  <2>3. CASE low < top
    BY <1>2, <1>3, <1>4, <2>2, <2>3
  <2>4. CASE low = top
    BY <1>2, <1>3, <2>1, <2>4
  <2> QED
    BY <1>2, <2>3, <2>4
<1>9. ShardsInv'
  <2>1. MarkIn(shards, Len(shards)) = top /\ MarkIn(shards, PriorIn(shards)) = low
    BY DEF top, low
  <2>2. /\ Reaches(Len(shards))' /\ Reaches(PriorIn(shards))'
        /\ Remembers(Len(shards))' /\ Remembers(PriorIn(shards))'
    BY <1>1, <1>2, <1>7, <2>1
  <2> QED
    BY <1>1, <1>2, <1>8, <2>1, <2>2 DEF ShardsInv
<1>10. FoldInv'
  BY DEF recall_trim, FoldInv, Idle
<1> QED
  BY <1>6, <1>9, <1>10 DEF BaseInv

\* A non-empty finite set of naturals has a largest element.
LEMMA LargestExists ==
  ASSUME NEW n \in Nat, NEW S \in SUBSET (0..n), S # {}
  PROVE  \E m \in S : \A x \in S : x <= m
<1> DEFINE key == [x \in S |-> x]
<1>1. IsFiniteSet(S)
  <2>1. IsFiniteSet(0..n)
    BY FS_Interval
  <2> QED
    BY <2>1, FS_Subset
<1>2. Sortable(S, key)
  BY <1>1 DEF Sortable
<1>3. Cardinality(S) \in Nat /\ Cardinality(S) # 0
  BY <1>1, FS_CardinalityType, FS_EmptySet
<1>4. PICK m \in S : Rank(S, key, m) = Cardinality(S)
  <2>1. Cardinality(S) \in 1..Cardinality(S)
    BY <1>3
  <2> QED
    BY <1>2, <2>1, RankTaken
<1>5. \A x \in S : Rank(S, key, x) <= Rank(S, key, m)
  BY <1>2, <1>4, RankType
<1>6. \A x \in S : key[x] <= key[m]
  BY <1>2, <1>5, RankOrders
<1> QED
  BY <1>6

\* What a fold takes with it is what the clients were last acknowledged.
LEMMA SnapshotKeeps ==
  ASSUME BaseInv, recall_snapshot_for_consolidation
  PROVE  BaseInv'
<1> DEFINE marks == {parts[i].lsn : i \in Resident}
           high == CHOOSE n \in marks : \A i \in Resident : parts[i].lsn <= n
           top == MarkIn(shards, Len(shards))
<1>1. UNCHANGED <<parts, last_lsn, truth, shards, forgotten>>
  BY DEF recall_snapshot_for_consolidation, storeVars, shardVars
<1>2. StoreInv' /\ ShardsInv'
  BY <1>1 DEF BaseInv, StoreInv, ShardsInv, Reaches, Remembers
<1>3. CASE Resident = {}
  <2>1. fold' = Idle
    BY <1>3 DEF recall_snapshot_for_consolidation
  <2> QED
    BY <1>2, <2>1 DEF BaseInv, FoldInv, Idle
<1>4. CASE Resident # {}
  <2>1. fold' = [pc |-> "snapped", rows |-> parts, lsn |-> high]
    BY <1>4 DEF recall_snapshot_for_consolidation
  <2>2. \A i \in Ids : /\ parts[i].lsn \in Nat /\ parts[i].lsn <= last_lsn
                       /\ Version(parts[i]) \in {0, parts[i].lsn}
                       /\ parts[i].lsn > 0 => truth[i] = Version(parts[i])
    BY DEF BaseInv, StoreInv
  <2>3. last_lsn \in Nat /\ truth \in Dataset /\ truth = [i \in Ids |-> truth[i]]
    BY DEF BaseInv, StoreInv, Dataset, Versions
  <2>4. marks \in SUBSET (0..last_lsn) /\ marks # {}
    BY <1>4, <2>2, <2>3 DEF Resident
  <2>5. \E n \in marks : \A x \in marks : x <= n
    BY <2>3, <2>4, LargestExists
  <2>6. \E n \in marks : \A i \in Resident : parts[i].lsn <= n
    BY <2>5
  <2>7. high \in marks /\ \A i \in Resident : parts[i].lsn <= high
    BY <2>6
  <2> HIDE DEF high
  <2>8. /\ high \in Nat /\ high <= last_lsn
        /\ \E i \in Ids : parts[i].lsn = high
    BY <2>2, <2>7 DEF Resident
  <2>9. shards \in Seq(Shard) /\ top \in Nat /\ top <= last_lsn /\ Reaches(Len(shards))
    BY TwoNewest DEF BaseInv, ShardsInv
  <2>10. top <= high
    <3>1. PICK i \in Ids : parts[i].lsn >= top
      BY <1>4 DEF BaseInv, ShardsInv, Resident
    <3>2. CASE i \in Resident
      BY <2>2, <2>7, <2>8, <2>9, <3>1, <3>2
    <3>3. CASE i \notin Resident
      BY <2>2, <2>8, <2>9, <3>1, <3>3 DEF Resident
    <3> QED
      BY <3>2, <3>3
  <2>11. FoldedIndex' = truth
    <3>1. FoldedIndex' = [i \in Ids |-> IF parts[i].lsn > 0 THEN Version(parts[i])
                                          ELSE VectorsIn(shards, Len(shards))[i]]
      BY <1>1, <2>1, ShardsRead DEF FoldedIndex, Newest, Vectors, VectorsIn
    <3>2. \A i \in Ids : (IF parts[i].lsn > 0 THEN Version(parts[i])
                          ELSE VectorsIn(shards, Len(shards))[i]) = truth[i]
      BY <2>2, <2>9 DEF Reaches
    <3> QED
      BY <2>3, <3>1, <3>2
  <2>12. fold'.lsn = high /\ fold'.rows = parts
    BY <2>1
  <2>13. FoldInv'
    <3>1. \E i \in Ids : parts[i].lsn >= high
      BY <2>8
    <3>2. \A i \in Ids : truth[i] <= high /\ (parts[i].lsn = 0 \/ parts[i].lsn > 0)
      <4> TAKE i \in Ids
      <4>1. CASE parts[i].lsn > 0
        <5>1. parts[i].lsn <= high
          BY <2>7, <4>1 DEF Resident
        <5> QED
          BY <2>2, <2>8, <4>1, <5>1
      <4>2. CASE parts[i].lsn = 0
        <5>1. VectorsIn(shards, Len(shards))[i] = truth[i]
          BY <2>9, <4>2 DEF Reaches
        <5>2. VectorsIn(shards, Len(shards))[i] <= top
          BY <2>9, TwoNewest, ShardType DEF Covers
        <5>3. truth[i] \in Nat
          BY <2>3 DEF Dataset, Versions
        <5> QED
          BY <2>8, <2>9, <2>10, <4>2, <5>1, <5>2, <5>3
      <4> QED
        BY <2>2, <4>1, <4>2
    <3> QED
      BY <1>1, <2>3, <2>8, <2>10, <2>11, <2>12, <3>1, <3>2 DEF FoldInv
  <2> QED
    BY <1>2, <2>13 DEF BaseInv
<1> QED
  BY <1>3, <1>4

\* The other steps of a fold, and every read.
LEMMA BaseUndisturbed ==
  ASSUME BaseInv, UNCHANGED <<parts, last_lsn, truth, shards, forgotten>>,
         fold' = fold \/ fold'.pc # "snapped"
  PROVE  BaseInv'
<1>1. StoreInv' /\ ShardsInv'
  BY DEF BaseInv, StoreInv, ShardsInv, Reaches, Remembers
<1>2. FoldInv'
  <2>1. CASE fold'.pc # "snapped"
    BY <2>1 DEF FoldInv
  <2>2. CASE fold' = fold
    <3>1. FoldedIndex' = FoldedIndex
      BY <2>2 DEF FoldedIndex, Vectors, Newest
    <3> QED
      BY <2>2, <3>1 DEF BaseInv, FoldInv
  <2> QED
    BY <2>1, <2>2
<1> QED
  BY <1>1, <1>2 DEF BaseInv

-----------------------------------------------------------------------------
(* The requests *)

\* A read knows the shard it resolved, and what its sidecar says once it has loaded it
\* whole.
ReadGood(q, list) ==
  /\ q.pc \in {"resolved", "loaded"} => /\ q.shard \in 0..Len(list)
                                        /\ q.what.kind \in {"get", "list", "query"}
  /\ q.pc \in {"resolved", "loaded"} /\ q.what.kind = "get" => q.what.id \in Ids
  /\ q.pc = "loaded" => /\ q.what.kind # "query"
                        /\ q.whole => q.names = NamesIn(list, q.shard)

GotGood(q) ==
  q.pc = "got" /\ q.timely => /\ q.answer.version = q.want
                              /\ q.answer.embedding => q.answer.version > 0

SteadyAt(what, lsn, at) == IF what.filter THEN lsn = what.since ELSE at <= what.since

ListingOf(vecs, filter) == ListedIds(Matching(Records(vecs), filter))

\* A walk is a record of these fields, of a page size and from a moment on ...
WalkRecord(what, lsn) ==
  /\ DOMAIN what = {"kind", "offset", "limit", "filter", "got", "exact", "since"}
  /\ what.kind = "list"
  /\ what.limit \in Nat \ {0} /\ what.since \in Int /\ what.since <= lsn

\* ... and, while it is exact, has got the ids before its offset.
Walked(what, offset, lsn, at, vecs) ==
  /\ WalkRecord(what, lsn)
  /\ offset \in Nat
  /\ what.exact /\ SteadyAt(what, lsn, at) =>
       /\ offset <= Len(ListingOf(vecs, what.filter))
       /\ what.got = SubSeq(ListingOf(vecs, what.filter), 1, offset)

WalkGood(q, lsn, at, vecs) ==
  /\ q.pc \in {"resolved", "loaded"} /\ q.what.kind = "list"
       => Walked(q.what, q.what.offset, lsn, at, vecs)
  /\ q.pc = "paged" => Walked(q.what, q.cursor.o, lsn, at, vecs)
  /\ q.pc = "listed" =>
       /\ WalkRecord(q.what, lsn)
       /\ q.what.exact /\ SteadyAt(q.what, lsn, at)
            => q.what.got = ListingOf(vecs, q.what.filter)

\* The scan of a timely query knows the ids the shard does not have as they are, above
\* its watermark, and has the nearest of them.
Scanned(q, scan, list) ==
  /\ q.want \in Dataset
  /\ \A i \in Ids :
       IF i \in scan.suppress
       THEN q.want[i] = 0 \/ q.want[i] > MarkIn(list, q.shard)
       ELSE q.want[i] = VectorsIn(list, q.shard)[i]
  /\ scan.matches = Nearest({e \in Matching(Records(q.want), q.what.filter) :
                               e.id \in scan.suppress},
                            q.what.top_k, q.what.near)

\* The hits are the nearest vectors of the shard under the names some sidecar had.
Searched(q, hits, list) ==
  \E names :
    /\ hits = Nearest(Matching(Named(VectorsIn(list, q.shard), names, Ids), q.what.filter),
                      q.what.top_k, q.what.near)
    /\ q.named => \A i \in Ids : VectorsIn(list, q.shard)[i] > 0 => names[i] = "own"

QueryFields == {"pc", "shard", "want", "timely", "what", "recall", "hits", "named"}

QueryGood(q, list) ==
  q.pc = "resolved" /\ q.what.kind = "query" =>
    /\ DOMAIN q = QueryFields
    /\ q.what.top_k \in Nat \ {0}
    /\ q.recall = <<>> \/ (\E scan : q.recall = <<scan>> /\ (q.timely => Scanned(q, scan, list)))
    /\ q.hits = <<>> \/ (\E hits : q.hits = <<hits>> /\ Searched(q, hits, list))

MatchedGood(q) ==
  q.pc = "matched" /\ q.timely =>
    LET live == Matching(Records(q.want), q.what.filter)
    IN  /\ \A e \in Range(q.matches) : e.id \in Ids \/ q.what.filter => e \in live
        /\ q.named /\ ~ q.hidden => q.matches = Nearest(live, q.what.top_k, q.what.near)

Good(q, list, lsn, at, vecs) ==
  /\ ReadGood(q, list) /\ GotGood(q) /\ WalkGood(q, lsn, at, vecs)
  /\ QueryGood(q, list) /\ MatchedGood(q)

RequestsInv ==
  /\ DOMAIN req = Readers
  /\ \A r \in Readers : Good(req[r], shards, last_lsn, reshaped, truth)

ReadsInv == BaseInv /\ RequestsInv

\* A shard is never changed once it is there.
Extends(more, list) ==
  /\ Len(list) \in Nat /\ Len(more) \in Nat /\ Len(list) <= Len(more)
  /\ \A g \in 0..Len(list) : /\ VectorsIn(more, g) = VectorsIn(list, g)
                            /\ NamesIn(more, g) = NamesIn(list, g)
                            /\ MarkIn(more, g) = MarkIn(list, g)

\* A new shard changes nothing for a read that has resolved an older one ...
LEMMA ReadGoodExtends ==
  ASSUME NEW list, NEW more, Extends(more, list), NEW q, ReadGood(q, list)
  PROVE  ReadGood(q, more)
<1>1. \A g \in 0..Len(list) : g \in 0..Len(more) /\ NamesIn(more, g) = NamesIn(list, g)
  BY DEF Extends
<1> QED
  BY <1>1 DEF ReadGood

\* ... nor for a query.
LEMMA QueryGoodExtends ==
  ASSUME NEW list, NEW more, Extends(more, list), NEW q, ReadGood(q, list), QueryGood(q, list)
  PROVE  QueryGood(q, more)
<1> SUFFICES ASSUME q.pc = "resolved", q.what.kind = "query" PROVE QueryGood(q, more)
  BY DEF QueryGood
<1>1. /\ VectorsIn(more, q.shard) = VectorsIn(list, q.shard)
      /\ MarkIn(more, q.shard) = MarkIn(list, q.shard)
  BY DEF Extends, ReadGood
<1>2. \A scan : Scanned(q, scan, list) => Scanned(q, scan, more)
  BY <1>1 DEF Scanned
<1>3. \A hits : Searched(q, hits, list) => Searched(q, hits, more)
  BY <1>1 DEF Searched
<1> QED
  BY <1>2, <1>3 DEF QueryGood

\* A walk that is still steady after a write was so before, over the same listing.
LEMMA WalkGoodLater ==
  ASSUME NEW lsn \in Int, NEW later \in Int, lsn <= later, NEW at, NEW at2,
         NEW vecs, NEW vecs2,
         \A what : /\ what.since \in Int /\ what.since <= lsn
                   /\ SteadyAt(what, later, at2)
                   => /\ SteadyAt(what, lsn, at)
                      /\ ListingOf(vecs2, what.filter) = ListingOf(vecs, what.filter),
         NEW q, WalkGood(q, lsn, at, vecs)
  PROVE  WalkGood(q, later, at2, vecs2)
<1>1. \A what : WalkRecord(what, lsn) => WalkRecord(what, later)
  BY DEF WalkRecord
<1>2. ASSUME NEW what, NEW offset, Walked(what, offset, lsn, at, vecs)
      PROVE  Walked(what, offset, later, at2, vecs2)
  BY <1>1, <1>2 DEF Walked, WalkRecord
<1>3. q.pc = "listed" =>
        /\ WalkRecord(q.what, later)
        /\ q.what.exact /\ SteadyAt(q.what, later, at2)
             => q.what.got = ListingOf(vecs2, q.what.filter)
  BY <1>1 DEF WalkGood, WalkRecord
<1> QED
  BY <1>2, <1>3 DEF WalkGood

\* Without a filter every live id is listed.
LEMMA AllListed ==
  ASSUME NEW vecs \in Versions, NEW filter, ~ filter
  PROVE  {e.id : e \in Matching(Records(vecs), filter)} = {i \in Ids : vecs[i] > 0}
<1>1. Matching(Records(vecs), filter) = Records(vecs)
  BY DEF Matching, metadata_matches_filter
<1>2. ASSUME NEW i \in Ids, vecs[i] > 0
      PROVE  \E e \in Records(vecs) : e.id = i
  <2>1. [id |-> i, version |-> vecs[i]] \in Records(vecs)
    BY <1>2 DEF Records
  <2> QED
    BY <2>1
<1>3. \A e \in Records(vecs) : e.id \in Ids /\ vecs[e.id] > 0
  BY RecordsAre
<1> QED
  BY <1>1, <1>2, <1>3

\* A write that leaves a walk steady was no write of a filtered walk, and changed no id of
\* an unfiltered one.
LEMMA WrittenSteady ==
  ASSUME StoreInv, NEW w, Written(w), NEW what, what.since \in Int, what.since <= last_lsn,
         SteadyAt(what, last_lsn', reshaped')
  PROVE  /\ SteadyAt(what, last_lsn, reshaped)
         /\ ListingOf(truth', what.filter) = ListingOf(truth, what.filter)
<1>1. last_lsn \in Nat /\ last_lsn' \in Nat /\ last_lsn < last_lsn'
  BY DEF StoreInv, Written
<1>2. ~ what.filter /\ reshaped' <= what.since
  BY <1>1 DEF SteadyAt
<1>3. reshaped' # last_lsn'
  BY <1>1, <1>2
<1>4. reshaped' = reshaped /\ \A i \in Ids : (truth'[i] > 0) = (truth[i] > 0)
  BY <1>3 DEF Written, Acknowledged
<1>5. SteadyAt(what, last_lsn, reshaped)
  BY <1>2, <1>4 DEF SteadyAt
<1>6. truth \in Versions /\ truth' \in Versions
  BY WrittenTruth DEF StoreInv, Dataset
<1>7. {i \in Ids : truth'[i] > 0} = {i \in Ids : truth[i] > 0}
  BY <1>4
<1>8. {e.id : e \in Matching(Records(truth'), what.filter)}
        = {e.id : e \in Matching(Records(truth), what.filter)}
  BY <1>2, <1>6, <1>7, AllListed
<1> QED
  BY <1>5, <1>8 DEF ListingOf, ListedIds

\* A write goes unnoticed by the requests under way, but for the walks it unsettles.
LEMMA WrittenRequests ==
  ASSUME StoreInv, ShardsInv, RequestsInv, NEW w, Written(w), UNCHANGED <<shards, req>>
  PROVE  RequestsInv'
<1>1. last_lsn \in Int /\ last_lsn' \in Int /\ last_lsn <= last_lsn'
  BY DEF StoreInv, Written
<1>2. \A what : /\ what.since \in Int /\ what.since <= last_lsn
                /\ SteadyAt(what, last_lsn', reshaped')
                => /\ SteadyAt(what, last_lsn, reshaped)
                   /\ ListingOf(truth', what.filter) = ListingOf(truth, what.filter)
  BY WrittenSteady
<1>3. ASSUME NEW q, Good(q, shards, last_lsn, reshaped, truth)
      PROVE  Good(q, shards, last_lsn', reshaped', truth')
  <2>1. WalkGood(q, last_lsn', reshaped', truth')
    BY <1>1, <1>2, <1>3, WalkGoodLater DEF Good
  <2> QED
    BY <1>3, <2>1 DEF Good
<1> QED
  BY <1>3 DEF RequestsInv

\* So does the rest of the store: folds, sweeps and trims.
LEMMA RequestsUndisturbed ==
  ASSUME RequestsInv, UNCHANGED <<last_lsn, reshaped, truth, req>>, Extends(shards', shards)
  PROVE  RequestsInv'
<1>1. ASSUME NEW q, Good(q, shards, last_lsn, reshaped, truth)
      PROVE  Good(q, shards', last_lsn, reshaped, truth)
  BY <1>1, ReadGoodExtends, QueryGoodExtends DEF Good
<1> QED
  BY <1>1 DEF RequestsInv

\* A list that has not grown.
LEMMA ExtendsSame ==
  ASSUME NEW list \in Seq(Shard)
  PROVE  Extends(list, list)
  BY TwoNewest DEF Extends

\* Writes, folds.
LEMMA WriteKeeps == ReadsInv /\ Write => ReadsInv'
<1> SUFFICES ASSUME ReadsInv, Write PROVE ReadsInv'
  OBVIOUS
<1>1. StoreInv /\ ShardsInv /\ FoldInv /\ RequestsInv
  BY DEF ReadsInv, BaseInv
<1>2. UNCHANGED <<shards, fold, req>> /\ \E w : Written(w)
  BY <1>1, WriteIs
<1>3. PICK w : Written(w)
  BY <1>2
<1> QED
  BY <1>1, <1>2, <1>3, WrittenStore, WrittenShards, WrittenFold, WrittenRequests
     DEF ReadsInv, BaseInv

\* Each step of a fold keeps the invariant, the failing ones too.
LEMMA FoldStepKeeps == ReadsInv /\ Consolidate => ReadsInv'
<1> SUFFICES ASSUME ReadsInv, Consolidate PROVE ReadsInv'
  OBVIOUS
<1>1. BaseInv /\ RequestsInv /\ shards \in Seq(Shard)
  BY DEF ReadsInv, BaseInv, ShardsInv
<1>2. UNCHANGED <<last_lsn, reshaped, truth, req>>
  BY DEF Consolidate, recall_idle_partitions, recall_snapshot_for_consolidation,
         add_shard, SweepSuperseded, recall_trim, FoldFails, storeVars
<1>3. Extends(shards', shards)
  <2>1. ASSUME fold.pc = "snapped", NEW read \in BOOLEAN,
               shards' = Append(shards, Built(read))
        PROVE  Extends(shards', shards)
    <3>1. Built(read) \in Shard
      BY <1>1, <2>1, BuiltIsShard
    <3>2. /\ Len(shards') = Len(shards) + 1 /\ Len(shards) \in Nat
          /\ \A g \in 0..Len(shards) : /\ VectorsIn(shards', g) = VectorsIn(shards, g)
                                       /\ NamesIn(shards', g) = NamesIn(shards, g)
                                       /\ MarkIn(shards', g) = MarkIn(shards, g)
      BY <1>1, <2>1, <3>1, AppendShard, TwoNewest
    <3> QED
      BY <3>2 DEF Extends
  <2>2. CASE UNCHANGED shards
    BY <1>1, <2>2, ExtendsSame
  <2>3. add_shard \/ UNCHANGED shards
    BY DEF Consolidate, recall_idle_partitions, recall_snapshot_for_consolidation,
           SweepSuperseded, recall_trim, FoldFails, shardVars
  <2> QED
    BY <2>1, <2>2, <2>3, AddShardIs
<1>4. BaseInv'
  <2>1. CASE recall_idle_partitions
    BY <1>1, <2>1, BaseUndisturbed DEF recall_idle_partitions, storeVars, shardVars
  <2>2. CASE SweepSuperseded
    BY <1>1, <2>2, BaseUndisturbed DEF SweepSuperseded, storeVars
  <2>3. CASE FoldFails
    BY <1>1, <2>3, BaseUndisturbed DEF FoldFails, storeVars, shardVars, Idle
  <2> QED
    BY <1>1, <2>1, <2>2, <2>3, SnapshotKeeps, AddShardKeeps, TrimKeeps DEF Consolidate
<1> QED
  BY <1>1, <1>2, <1>3, <1>4, RequestsUndisturbed DEF ReadsInv

\* A read moves one request and nothing else.
LEMMA ReadKeeps ==
  ASSUME ReadsInv, NEW r \in Readers, NEW next, Read(r, next),
         Good(next, shards, last_lsn, reshaped, truth)
  PROVE  ReadsInv'
<1>1. /\ UNCHANGED <<parts, last_lsn, truth, reshaped, forgotten, shards, fold>>
      /\ req' = [req EXCEPT ![r] = next] /\ DOMAIN req = Readers
  BY DEF Read, storeVars, shardVars, ReadsInv, RequestsInv
<1>2. BaseInv'
  BY <1>1, BaseUndisturbed DEF ReadsInv
<1>3. DOMAIN req' = Readers /\ \A u \in Readers : req'[u] = req[u] \/ req'[u] = next
  BY <1>1
<1>4. \A u \in Readers : Good(req[u], shards, last_lsn, reshaped, truth)
  BY DEF ReadsInv, RequestsInv
<1>5. RequestsInv'
  BY <1>1, <1>3, <1>4 DEF RequestsInv
<1> QED
  BY <1>2, <1>5 DEF ReadsInv

-----------------------------------------------------------------------------
(* Reads by id *)

\* Nothing is claimed of a client that waits for nothing.
LEMMA AtRest ==
  ASSUME NEW q, q.pc = "idle" \/ q.pc = "ephemeral", NEW list, NEW lsn, NEW at, NEW vecs
  PROVE  Good(q, list, lsn, at, vecs)
  BY DEF Good, ReadGood, GotGood, WalkGood, QueryGood, MatchedGood

\* The client turns away.
LEMMA FinishKeeps ==
  ASSUME ReadsInv, NEW r \in Readers, Finish(r)
  PROVE  ReadsInv'
<1>1. Read(r, Idle)
  BY DEF Finish
<1>2. Good(Idle, shards, last_lsn, reshaped, truth)
  BY AtRest DEF Idle
<1> QED
  BY <1>1, <1>2, ReadKeeps

\* GET /vectors/{id} resolves the newest shard.
LEMMA GetStarts ==
  ASSUME ReadsInv, NEW r \in Readers, NEW i \in Ids, NEW values,
         get_vector_endpoint(r, i, values)
  PROVE  ReadsInv'
<1> DEFINE next == Resolved([kind |-> "get", id |-> i, values |-> values])
<1>1. Read(r, next)
  BY DEF get_vector_endpoint
<1>2. /\ next.pc = "resolved" /\ next.shard = Newest
      /\ next.what.kind = "get" /\ next.what.id = i
  BY DEF Resolved
<1>3. Newest \in 0..Len(shards)
  BY ShardsRead, TwoNewest DEF ReadsInv, BaseInv, ShardsInv
<1> HIDE DEF next
<1>4. Good(next, shards, last_lsn, reshaped, truth)
  BY <1>2, <1>3 DEF Good, ReadGood, GotGood, WalkGood, QueryGood, MatchedGood
<1> QED
  BY <1>1, <1>4, ReadKeeps

\* What a fresh read finds above the watermark of its shard, or in it, is the truth; and
\* a vector that is in the shard, and that no fold forgot, has its name there.
LEMMA FreshRead ==
  ASSUME ReadsInv, NEW r \in Readers, req[r].pc \in {"resolved", "loaded"}, Fresh(r),
         NEW i \in Ids
  PROVE  /\ Above(r, i) => Version(parts[i]) = truth[i]
         /\ ~ Above(r, i) =>
              /\ VectorsIn(shards, req[r].shard)[i] = truth[i]
              /\ truth[i] > 0 /\ i \notin forgotten
                   => NamesIn(shards, req[r].shard)[i] = "own"
         /\ Above(r, i) /\ truth[i] > 0 => truth[i] > MarkIn(shards, req[r].shard)
<1> DEFINE g == req[r].shard
<1>1. g = Len(shards) \/ g = PriorIn(shards)
  BY ShardsRead DEF Fresh
<1>2. /\ shards \in Seq(Shard)
      /\ Reaches(Len(shards)) /\ Reaches(PriorIn(shards))
      /\ Remembers(Len(shards)) /\ Remembers(PriorIn(shards))
  BY DEF ReadsInv, BaseInv, ShardsInv
<1>3. MarkIn(shards, g) \in Nat /\ Reaches(g) /\ Remembers(g)
  BY <1>1, <1>2, TwoNewest
<1>4. Above(r, i) <=> parts[i].lsn > MarkIn(shards, g)
  BY ShardsRead DEF Above
<1>5. /\ parts[i].lsn \in Nat /\ Version(parts[i]) \in {0, parts[i].lsn}
      /\ parts[i].lsn > 0 => truth[i] = Version(parts[i])
  BY DEF ReadsInv, BaseInv, StoreInv
<1> HIDE DEF g
<1>6. /\ parts[i].lsn > MarkIn(shards, g) \/ VectorsIn(shards, g)[i] = truth[i]
      /\ \/ parts[i].lsn > MarkIn(shards, g) \/ VectorsIn(shards, g)[i] = 0
         \/ i \in forgotten \/ NamesIn(shards, g)[i] = "own"
  BY <1>3 DEF Reaches, Remembers
<1> QED
  BY <1>3, <1>4, <1>5, <1>6 DEF g

\* GET /vectors/{id} reads the memtable and answers.
LEMMA GetAnswered ==
  ASSUME ReadsInv, NEW r \in Readers, GetAnswer(r)
  PROVE  ReadsInv'
<1> DEFINE q == req[r]
           i == q.what.id
           answer == IF q.what.values THEN recall_get_vector_with_embedding(r, i)
                     ELSE [version |-> recall_get_vector(r, i), embedding |-> FALSE]
           next == [pc |-> "got", answer |-> answer, want |-> truth[i],
                    timely |-> q.whole /\ Fresh(r) /\ i \notin forgotten]
<1>1. q.pc = "loaded" /\ q.what.kind = "get" /\ Read(r, next)
  BY DEF GetAnswer
<1>2. /\ i \in Ids /\ q.shard \in 0..Len(shards)
      /\ q.whole => q.names = NamesIn(shards, q.shard)
  BY <1>1 DEF ReadsInv, RequestsInv, Good, ReadGood
<1>3. answer.version = recall_get_vector(r, i)
  BY DEF recall_get_vector_with_embedding
<1>4. answer.embedding => Above(r, i) /\ Version(parts[i]) > 0
  BY DEF recall_get_vector_with_embedding
<1>5. answer.embedding => answer.version > 0
  BY <1>3, <1>4 DEF recall_get_vector
<1>6. ASSUME q.whole, Fresh(r), i \notin forgotten
      PROVE  answer.version = truth[i]
  <2>1. CASE Above(r, i)
    BY <1>1, <1>2, <1>3, <1>6, <2>1, FreshRead DEF recall_get_vector
  <2>2. CASE ~ Above(r, i)
    <3>1. /\ VectorsIn(shards, q.shard)[i] = truth[i]
          /\ truth[i] > 0 => NamesIn(shards, q.shard)[i] = "own"
      BY <1>1, <1>2, <1>6, <2>2, FreshRead
    <3>2. /\ VectorsIn(shards, q.shard) \in Dataset
          /\ NamesIn(shards, q.shard) \in [Ids -> {"own", "hash", "none"}]
          /\ NamesIn(shards, q.shard)[i] = "hash" => VectorsIn(shards, q.shard)[i] > 0
      <4>1. shards \in Seq(Shard)
        BY DEF ReadsInv, BaseInv, ShardsInv
      <4> QED
        BY <1>2, <4>1, ShardType DEF Covers
    <3>3. truth[i] \in Nat /\ (truth[i] > 0 \/ truth[i] = 0)
      BY <1>2, <3>1, <3>2 DEF Dataset, Versions
    <3>4. q.names[i] = NamesIn(shards, q.shard)[i] /\ Vectors(q.shard)[i] = truth[i]
      BY <1>2, <1>6, <3>1, ShardsRead
    <3>5. Entry(r, i) = truth[i]
      BY <1>2, <3>1, <3>2, <3>3, <3>4 DEF Entry
    <3> QED
      BY <1>3, <2>2, <3>5 DEF recall_get_vector
  <2> QED
    BY <2>1, <2>2
<1>7. /\ next.pc = "got" /\ next.answer = answer /\ next.want = truth[i]
      /\ next.timely <=> q.whole /\ Fresh(r) /\ i \notin forgotten
  <2> HIDE DEF answer
  <2> QED
    OBVIOUS
<1> HIDE DEF next, answer
<1>8. Good(next, shards, last_lsn, reshaped, truth)
  BY <1>5, <1>6, <1>7 DEF Good, ReadGood, GotGood, WalkGood, QueryGood, MatchedGood
<1> QED
  BY <1>1, <1>8, ReadKeeps

\* The sidecar of the shard that was resolved, or an empty one in its place.
LEMMA SidecarLoaded ==
  ASSUME ReadsInv, NEW r \in Readers, read_shard_sidecar(r)
  PROVE  ReadsInv'
<1> DEFINE q == req[r]
<1>1. q.pc = "resolved" /\ q.what.kind # "query"
  BY DEF read_shard_sidecar
<1>2. Good(q, shards, last_lsn, reshaped, truth)
  BY DEF ReadsInv, RequestsInv
<1>3. ASSUME NEW names, NEW whole \in BOOLEAN, Read(r, Loaded(r, names, whole)),
             whole => names = NamesIn(shards, q.shard),
             q.what.kind # "query"
      PROVE  ReadsInv'
  <2> DEFINE next == Loaded(r, names, whole)
  <2>1. /\ next.pc = "loaded" /\ next.shard = q.shard /\ next.what = q.what
        /\ next.names = names /\ (next.whole <=> whole)
    BY <1>3 DEF Loaded
  <2> HIDE DEF next
  <2>2. ReadGood(next, shards)
    BY <1>1, <1>2, <1>3, <2>1 DEF Good, ReadGood
  <2>3. WalkGood(next, last_lsn, reshaped, truth)
    BY <1>1, <1>2, <2>1 DEF Good, WalkGood
  <2>4. Good(next, shards, last_lsn, reshaped, truth)
    BY <2>1, <2>2, <2>3 DEF Good, GotGood, QueryGood, MatchedGood
  <2> QED
    BY <1>3, <2>4, ReadKeeps DEF next
<1>4. q.what.kind # "query"
  BY <1>1
<1>5. CASE Read(r, Loaded(r, Names(q.shard), TRUE))
  BY <1>3, <1>4, <1>5, ShardsRead
<1>6. CASE Read(r, Loaded(r, NoNames, FALSE))
  BY <1>3, <1>4, <1>6
<1> QED
  BY <1>5, <1>6 DEF read_shard_sidecar

-----------------------------------------------------------------------------
(* Listings *)

\* A listing is a sequence of ids.
LEMMA ListingType ==
  ASSUME NEW vecs \in Versions, NEW filter
  PROVE  ListingOf(vecs, filter) \in Seq(Ids) /\ Len(ListingOf(vecs, filter)) \in Nat
<1>1. Matching(Records(vecs), filter) \in SUBSET Records(vecs)
  BY DEF Matching
<1> QED
  BY <1>1, RecordsListIds DEF ListingOf

\* A page has a size: 400 below 1, clamped above the maximum.
LEMMA PageLimitType ==
  ASSUME NEW limit \in Int, limit >= 1
  PROVE  PageLimit(limit) \in Nat \ {0}
  BY ReadsAssumption DEF PageLimit

\* The first page of a walk starts at offset 0.
LEMMA WalkStarts ==
  ASSUME ReadsInv, NEW r \in Readers, NEW limit \in Limits \cup {DefaultLimit}, NEW filter,
         list_vectors_first(r, limit, filter)
  PROVE  ReadsInv'
<1> DEFINE what == Walk(PageLimit(limit), filter)
           next == Resolved(what)
<1>1. limit >= 1 /\ Read(r, next)
  BY DEF list_vectors_first
<1>2. PageLimit(limit) \in Nat \ {0}
  BY <1>1, PageLimitType, ReadsAssumption
<1>3. /\ next.pc = "resolved" /\ next.shard = Newest /\ next.what = what
  BY DEF Resolved
<1>4. /\ DOMAIN what = {"kind", "offset", "limit", "filter", "got", "exact", "since"}
      /\ what.kind = "list" /\ what.offset = 0 /\ what.limit = PageLimit(limit)
      /\ what.got = <<>> /\ what.since = last_lsn
  BY DEF Walk
<1>5. Newest \in 0..Len(shards)
  BY ShardsRead, TwoNewest DEF ReadsInv, BaseInv, ShardsInv
<1> HIDE DEF next, what
<1>6. last_lsn \in Int /\ truth \in Versions
  BY DEF ReadsInv, BaseInv, StoreInv, Dataset
<1>7. ListingOf(truth, what.filter) \in Seq(Ids) /\ Len(ListingOf(truth, what.filter)) \in Nat
  BY <1>6, ListingType
<1>8. SubSeq(ListingOf(truth, what.filter), 1, 0) = <<>>
  BY SubSeqEmpty
<1>9. Walked(what, 0, last_lsn, reshaped, truth)
  BY <1>2, <1>4, <1>6, <1>7, <1>8 DEF Walked, WalkRecord
<1>10. Good(next, shards, last_lsn, reshaped, truth)
  BY <1>3, <1>4, <1>5, <1>9 DEF Good, ReadGood, GotGood, WalkGood, QueryGood, MatchedGood
<1> QED
  BY <1>1, <1>10, ReadKeeps

\* The next page starts where the cursor of the one before says.
LEMMA WalkGoesOn ==
  ASSUME ReadsInv, NEW r \in Readers, list_vectors_next(r)
  PROVE  ReadsInv'
<1> DEFINE old == req[r].what
           what == [old EXCEPT !.offset = req[r].cursor.o]
           next == Resolved(what)
<1>1. req[r].pc = "paged" /\ Read(r, next)
  BY DEF list_vectors_next, _decode_cursor
<1>2. Walked(old, req[r].cursor.o, last_lsn, reshaped, truth)
  BY <1>1 DEF ReadsInv, RequestsInv, Good, WalkGood
<1>3. /\ DOMAIN what = DOMAIN old /\ what.kind = old.kind /\ what.limit = old.limit
      /\ what.filter = old.filter /\ what.got = old.got /\ what.exact = old.exact
      /\ what.since = old.since /\ what.offset = req[r].cursor.o
  BY <1>2 DEF Walked, WalkRecord
<1>4. next.pc = "resolved" /\ next.shard = Newest /\ next.what = what
  BY DEF Resolved
<1>5. Newest \in 0..Len(shards)
  BY ShardsRead, TwoNewest DEF ReadsInv, BaseInv, ShardsInv
<1> HIDE DEF next, what, old
<1>6. Walked(what, what.offset, last_lsn, reshaped, truth) /\ what.kind = "list"
  BY <1>2, <1>3 DEF Walked, WalkRecord, SteadyAt
<1>7. Good(next, shards, last_lsn, reshaped, truth)
  BY <1>4, <1>5, <1>6 DEF Good, ReadGood, GotGood, WalkGood, QueryGood, MatchedGood
<1> QED
  BY <1>1, <1>7, ReadKeeps

\* What a fresh read lists of the memtable is the live records of the ids it
\* suppresses ...
LEMMA HotIsLive ==
  ASSUME ReadsInv, NEW r \in Readers, req[r].pc \in {"resolved", "loaded"}, Fresh(r)
  PROVE  recall_list_rows(r).live
           = {e \in Records(truth) : e.id \in recall_list_rows(r).suppress}
<1> DEFINE rows == recall_list_rows(r)
           known == {i \in Ids : Above(r, i)}
           hot == [i \in Ids |-> IF i \in known THEN Version(parts[i]) ELSE 0]
<1>1. rows.suppress = known /\ rows.live = Records(hot)
  BY DEF recall_list_rows
<1>2. truth \in Versions
  BY DEF ReadsInv, BaseInv, StoreInv, Dataset
<1>3. \A i \in Ids : hot[i] = IF i \in known THEN truth[i] ELSE 0
  BY FreshRead
<1>4. hot \in Versions
  <2>1. \A i \in Ids : hot[i] \in 0..MaxLsn
    BY <1>2, <1>3, ReadsAssumption DEF Versions
  <2> QED
    BY <2>1 DEF Versions
<1> HIDE DEF rows, hot, known
<1>5. ASSUME NEW e \in Records(hot)
      PROVE  e \in Records(truth) /\ e.id \in known
  <2>1. PICK i \in Ids : hot[i] > 0 /\ e = [id |-> i, version |-> hot[i]]
    BY <1>4, RecordsAre
  <2>2. i \in known /\ hot[i] = truth[i] /\ e.id = i
    BY <1>3, <2>1
  <2> QED
    BY <1>2, <2>1, <2>2, RecordsAre
<1>6. ASSUME NEW e \in Records(truth), e.id \in known
      PROVE  e \in Records(hot)
  <2>1. PICK i \in Ids : truth[i] > 0 /\ e = [id |-> i, version |-> truth[i]]
    BY <1>2, RecordsAre
  <2>2. hot[i] = truth[i]
    BY <1>3, <1>6, <2>1
  <2> QED
    BY <1>4, <2>1, <2>2, RecordsAre
<1>7. Records(hot) = {e \in Records(truth) : e.id \in known}
  BY <1>5, <1>6
<1> QED
  BY <1>1, <1>7 DEF rows

\* ... and its shard has the others.
LEMMA ColdIsLive ==
  ASSUME ReadsInv, NEW r \in Readers, req[r].pc \in {"resolved", "loaded"}, Fresh(r),
         NEW i \in Ids, i \notin recall_list_rows(r).suppress
  PROVE  VectorsIn(shards, req[r].shard)[i] = truth[i]
<1>1. ~ Above(r, i)
  BY DEF recall_list_rows
<1> QED
  BY <1>1, FreshRead

\* So a whole sidecar, while no id is forgotten and none in it stands under a hash, and
\* the memtable's rows join to exactly the live records.
LEMMA JoinIsLive ==
  ASSUME ReadsInv, NEW r \in Readers, req[r].pc = "loaded", req[r].whole, Fresh(r),
         forgotten = {}, \A i \in Ids : req[r].names[i] # "hash"
  PROVE  {e \in SidecarRecords(r) : e.id \notin recall_list_rows(r).suppress}
           \cup recall_list_rows(r).live = Records(truth)
<1> DEFINE cold == VectorsIn(shards, req[r].shard)
           names == NamesIn(shards, req[r].shard)
           known == recall_list_rows(r).suppress
           live == recall_list_rows(r).live
           S == {i \in Ids : names[i] # "none"}
<1>1. req[r].names = names /\ req[r].shard \in 0..Len(shards)
  BY DEF ReadsInv, RequestsInv, Good, ReadGood
<1>2. /\ cold \in Dataset /\ names \in [Ids -> {"own", "hash", "none"}]
      /\ truth \in Versions
  BY <1>1, ShardType DEF ReadsInv, BaseInv, StoreInv, ShardsInv, Dataset
<1>3. SidecarRecords(r) = Named(cold, names, S)
  BY <1>1, ShardsRead DEF SidecarRecords
<1>4. \A i \in S : names[i] = "own"
  BY <1>1, <1>2
<1>5. \A i \in Ids : i \notin known =>
        cold[i] = truth[i] /\ (truth[i] > 0 => i \in S)
  <2> SUFFICES ASSUME NEW i \in Ids, i \notin known
               PROVE  cold[i] = truth[i] /\ (truth[i] > 0 => i \in S)
    OBVIOUS
  <2>1. ~ Above(r, i)
    BY DEF recall_list_rows
  <2>2. cold[i] = truth[i] /\ (truth[i] > 0 => names[i] = "own")
    BY <2>1, FreshRead
  <2> QED
    BY <2>2
<1>6. live = {e \in Records(truth) : e.id \in known}
  BY HotIsLive
<1> HIDE DEF cold, names, known, live
<1>7. \A e : e \in Named(cold, names, S) <=>
        \E i \in S : cold[i] > 0 /\ e = [id |-> i, version |-> cold[i]]
  <2>1. cold \in Versions /\ S \in SUBSET Ids
    BY <1>2 DEF Dataset
  <2>2. \A e : e \in Named(cold, names, S) <=>
          \E i \in S : /\ cold[i] > 0
                      /\ e = [id |-> IF names[i] = "own" THEN i ELSE Hash(i),
                              version |-> cold[i]]
    BY <2>1, NamedAre
  <2> QED
    BY <1>4, <2>2
<1>8. ASSUME NEW e, e.id \notin known
      PROVE  e \in Named(cold, names, S) <=> e \in Records(truth)
  <2>1. ASSUME e \in Named(cold, names, S) PROVE e \in Records(truth)
    <3>1. PICK i \in S : cold[i] > 0 /\ e = [id |-> i, version |-> cold[i]]
      BY <1>7, <2>1
    <3>2. e.id = i /\ i \in Ids
      BY <3>1
    <3>3. cold[i] = truth[i]
      BY <1>5, <1>8, <3>2
    <3> QED
      BY <1>2, <3>1, <3>2, <3>3, RecordsAre
  <2>2. ASSUME e \in Records(truth) PROVE e \in Named(cold, names, S)
    <3>1. PICK i \in Ids : truth[i] > 0 /\ e = [id |-> i, version |-> truth[i]]
      BY <1>2, <2>2, RecordsAre
    <3>2. e.id = i
      BY <3>1
    <3>3. cold[i] = truth[i] /\ i \in S
      BY <1>5, <1>8, <3>1, <3>2
    <3> QED
      BY <1>7, <3>1, <3>3
  <2> QED
    BY <2>1, <2>2
<1>9. {e \in Named(cold, names, S) : e.id \notin known} \cup live = Records(truth)
  BY <1>6, <1>8
<1> QED
  BY <1>3, <1>9 DEF known, live

\* A page that leaves an exact walk exact.
Exact(r) == /\ req[r].what.exact /\ req[r].whole /\ Fresh(r)
            /\ forgotten = {} /\ \A i \in Ids : req[r].names[i] # "hash"

\* Such a page takes the walk from the first ids of the listing to the ones up to the
\* end of the page.
LEMMA PageListed ==
  ASSUME ReadsInv, NEW r \in Readers, ListAnswer(r)
  PROVE  ReadsInv'
<1>1. req[r].pc = "loaded" /\ req[r].what.kind = "list"
  BY Zenon DEF ListAnswer
<1> DEFINE q == req[r]
           what == q.what
           records == SortedRecords(r)
           end == what.offset + what.limit
           last == IF end < Len(records) THEN end ELSE Len(records)
           page == SubSeq(records, what.offset + 1, last)
           ids == PageIds(page)
           after == [what EXCEPT !.got = @ \o ids,
                                 !.exact = /\ @ /\ q.whole /\ Fresh(r)
                                           /\ forgotten = {}
                                           /\ \A i \in Ids : q.names[i] # "hash"]
           paged == [pc |-> "paged", what |-> after, cursor |-> _encode_cursor(end)]
           listed == [pc |-> "listed", what |-> after]
           all == ListingOf(truth, what.filter)
<1>2. IF end < Len(records) THEN Read(r, paged) ELSE Read(r, listed)
  BY DEF ListAnswer, PageIds
<1>3. Walked(what, what.offset, last_lsn, reshaped, truth)
  BY <1>1 DEF ReadsInv, RequestsInv, Good, WalkGood
<1>4. truth \in Versions
  BY DEF ReadsInv, BaseInv, StoreInv, Dataset
<1>5. all \in Seq(Ids) /\ Len(all) \in Nat
  BY <1>4, ListingType
<1>6. what.offset \in Nat /\ what.limit \in Nat /\ end \in Nat /\ what.offset <= end
  BY <1>3 DEF Walked, WalkRecord
<1>7. /\ WalkRecord(after, last_lsn) /\ after.filter = what.filter
      /\ after.since = what.since /\ after.got = what.got \o ids
      /\ after.exact => Exact(r)
  <2>1. WalkRecord(what, last_lsn)
    BY <1>3 DEF Walked
  <2>2. /\ DOMAIN after = DOMAIN what /\ after.kind = what.kind /\ after.limit = what.limit
        /\ after.filter = what.filter /\ after.since = what.since
        /\ after.got = what.got \o ids
    <3> HIDE DEF ids
    <3> QED
      BY <2>1 DEF WalkRecord
  <2>3. after.exact <=> Exact(r)
    <3> HIDE DEF ids
    <3> QED
      BY <2>1 DEF WalkRecord, Exact
  <2> HIDE DEF after
  <2> QED
    BY <2>1, <2>2, <2>3 DEF WalkRecord
<1> HIDE DEF after
<1>8. ASSUME after.exact, SteadyAt(after, last_lsn, reshaped)
      PROVE  /\ Len(records) = Len(all)
             /\ last <= Len(all) /\ after.got = SubSeq(all, 1, last)
  <2> DEFINE R == Matching(Records(truth), what.filter)
             sorted == InOrder(R, ById)
             listing == ListedIds(R)
  <2>1. records = sorted
    BY <1>1, <1>7, <1>8, JoinIsLive DEF SortedRecords, Exact
  <2>2. all = listing
    BY DEF ListingOf
  <2>3. R \in SUBSET Records(truth)
    BY DEF Matching
  <2> HIDE DEF R
  <2>4. /\ sorted \in Seq(R) /\ Len(sorted) = Len(listing)
        /\ \A k \in 1..Len(listing) : sorted[k].id = listing[k]
    BY <1>4, <2>3, RecordsListIds
  <2> HIDE DEF sorted, listing, records, all
  <2>5. /\ records \in Seq(R) /\ Len(records) = Len(all)
        /\ \A k \in 1..Len(all) : records[k].id = all[k]
    BY <2>1, <2>2, <2>4
  <2>6. /\ what.offset <= Len(all)
        /\ what.got = SubSeq(all, 1, what.offset)
    BY <1>3, <1>7, <1>8 DEF Walked, SteadyAt, all, Exact
  <2>7. last \in what.offset..Len(all)
    <3>1. Len(records) = Len(all) /\ what.offset <= Len(all) /\ Len(all) \in Nat
      BY <1>5, <2>5, <2>6
    <3> QED
      BY <1>6, <3>1
  <2> HIDE DEF last
  <2>8. SubSeq(all, 1, what.offset) \o ids = SubSeq(all, 1, last)
    BY <1>5, <1>6, <2>5, <2>7, PageExtends
  <2>9. after.got = SubSeq(all, 1, what.offset) \o ids
    BY <1>7, <2>6
  <2> HIDE DEF ids
  <2>10. last <= Len(all)
    BY <1>5, <1>6, <2>7
  <2> QED
    BY <2>5, <2>8, <2>9, <2>10
<1>9. CASE end < Len(records)
  <2> HIDE DEF records, all
  <2>1. paged.pc = "paged" /\ paged.what = after /\ paged.cursor.o = end
    BY DEF _encode_cursor
  <2>2. Walked(after, end, last_lsn, reshaped, truth)
    BY <1>6, <1>7, <1>8, <1>9 DEF Walked, all
  <2> HIDE DEF paged
  <2>3. Good(paged, shards, last_lsn, reshaped, truth)
    BY <2>1, <2>2 DEF Good, ReadGood, GotGood, WalkGood, QueryGood, MatchedGood
  <2> QED
    BY <1>2, <1>9, <2>3, ReadKeeps
<1>10. CASE ~ (end < Len(records))
  <2> HIDE DEF records, all
  <2>1. listed.pc = "listed" /\ listed.what = after
    OBVIOUS
  <2>2. after.exact /\ SteadyAt(after, last_lsn, reshaped) => after.got = all
    <3>1. HAVE after.exact /\ SteadyAt(after, last_lsn, reshaped)
    <3>2. Len(records) = Len(all) /\ after.got = SubSeq(all, 1, last)
      <4> HIDE DEF last, end, page, ids, what, q
      <4> QED
        BY <1>8, <3>1, Zenon
    <3>3. last = Len(records)
      <4> HIDE DEF end
      <4> QED
        BY <1>10, Zenon
    <3> QED
      <4> HIDE DEF last
      <4> QED
        BY <1>5, <3>2, <3>3, SubSeqFull
  <2> HIDE DEF listed
  <2>3. Good(listed, shards, last_lsn, reshaped, truth)
    BY <1>7, <2>1, <2>2 DEF Good, ReadGood, GotGood, WalkGood, QueryGood, MatchedGood, all
  <2> QED
    BY <1>2, <1>10, <2>3, ReadKeeps
<1> QED
  BY <1>9, <1>10, Zenon

-----------------------------------------------------------------------------
(* Queries *)

\* POST /query with a valid top_k resolves the newest shard.
LEMMA QueryStarts ==
  ASSUME ReadsInv, NEW r \in Readers, NEW top_k \in TopKs, NEW filter, NEW near,
         run_query(r, top_k, filter, near)
  PROVE  ReadsInv'
<1> DEFINE what == [kind |-> "query", top_k |-> top_k, filter |-> filter, near |-> near]
           next == [pc |-> "resolved", shard |-> Newest, want |-> Nothing, timely |-> FALSE,
                    what |-> what, recall |-> <<>>, hits |-> <<>>, named |-> FALSE]
<1>1. top_k >= 1 /\ Read(r, next)
  BY DEF run_query, validate_query_body
<1>2. top_k \in Nat \ {0}
  BY <1>1, ReadsAssumption
<1>3. Newest \in 0..Len(shards)
  BY ShardsRead, TwoNewest DEF ReadsInv, BaseInv, ShardsInv
<1>4. what.kind = "query" /\ what.top_k = top_k
  OBVIOUS
<1> HIDE DEF what
<1>5. /\ next.pc = "resolved" /\ next.shard = Newest /\ next.what = what
      /\ next.recall = <<>> /\ next.hits = <<>> /\ DOMAIN next = QueryFields
  BY DEF QueryFields
<1> HIDE DEF next
<1>6. Good(next, shards, last_lsn, reshaped, truth)
  BY <1>2, <1>3, <1>4, <1>5 DEF Good, ReadGood, GotGood, WalkGood, QueryGood, MatchedGood
<1> QED
  BY <1>1, <1>6, ReadKeeps

\* The scan of a query whose shard is fresh.
LEMMA QueryScanned ==
  ASSUME ReadsInv, NEW r \in Readers, recall_search(r)
  PROVE  ReadsInv'
<1> DEFINE q == req[r]
           what == q.what
           rows == recall_list_rows(r)
           found == [suppress |-> rows.suppress,
                     matches |-> Nearest(Matching(rows.live, what.filter),
                                         what.top_k, what.near)]
           next == [q EXCEPT !.recall = <<found>>, !.want = truth, !.timely = Fresh(r)]
<1>1. /\ q.pc = "resolved" /\ what.kind = "query" /\ q.recall = <<>>
      /\ Read(r, next)
  BY DEF recall_search
<1>2. ReadGood(q, shards) /\ QueryGood(q, shards)
  BY DEF ReadsInv, RequestsInv, Good
<1>3. DOMAIN q = QueryFields
  BY <1>1, <1>2 DEF QueryGood
<1>4. found.suppress = rows.suppress
      /\ found.matches = Nearest(Matching(rows.live, what.filter), what.top_k, what.near)
  OBVIOUS
<1> HIDE DEF rows, found
<1>5. /\ DOMAIN next = QueryFields /\ next.pc = q.pc /\ next.shard = q.shard
      /\ next.what = q.what /\ next.hits = q.hits /\ next.named = q.named
      /\ next.recall = <<found>> /\ next.want = truth
      /\ next.timely <=> Fresh(r)
  BY <1>3 DEF QueryFields
<1> HIDE DEF next
<1>6. ASSUME Fresh(r) PROVE Scanned(next, found, shards)
  <2>1. truth \in Dataset
    BY DEF ReadsInv, BaseInv, StoreInv
  <2>2. \A i \in Ids : IF i \in found.suppress
                       THEN truth[i] = 0 \/ truth[i] > MarkIn(shards, q.shard)
                       ELSE truth[i] = VectorsIn(shards, q.shard)[i]
    <3> TAKE i \in Ids
    <3>1. i \in found.suppress <=> Above(r, i)
      BY <1>4 DEF rows, recall_list_rows
    <3>2. truth[i] = 0 \/ truth[i] > 0
      BY <2>1 DEF Dataset, Versions
    <3> QED
      BY <1>1, <1>6, <3>1, <3>2, FreshRead
  <2>3. rows.live = {e \in Records(truth) : e.id \in rows.suppress}
    BY <1>1, <1>6, HotIsLive DEF rows
  <2>4. Matching(rows.live, what.filter)
          = {e \in Matching(Records(truth), what.filter) : e.id \in found.suppress}
    BY <1>4, <2>3 DEF Matching
  <2> QED
    BY <1>4, <1>5, <2>1, <2>2, <2>4 DEF Scanned
<1>7. ReadGood(next, shards) /\ QueryGood(next, shards)
  <2>1. \A hits : Searched(q, hits, shards) => Searched(next, hits, shards)
    BY <1>5 DEF Searched
  <2>2. ReadGood(next, shards)
    BY <1>1, <1>2, <1>5 DEF ReadGood
  <2>3. QueryGood(next, shards)
    BY <1>1, <1>2, <1>5, <1>6, <2>1 DEF QueryGood
  <2> QED
    BY <2>2, <2>3
<1>8. Good(next, shards, last_lsn, reshaped, truth)
  BY <1>1, <1>5, <1>7 DEF Good, GotGood, WalkGood, MatchedGood
<1> QED
  BY <1>1, <1>8, ReadKeeps DEF next

\* The search of its shard meanwhile.
LEMMA QuerySearched ==
  ASSUME ReadsInv, NEW r \in Readers, _search_consolidated_shard(r)
  PROVE  ReadsInv'
<1> DEFINE q == req[r]
           all(names) == \A i \in Ids : Vectors(q.shard)[i] > 0 => names[i] = "own"
           next(names) == [q EXCEPT !.hits = <<_run_faiss_search(r, names)>>,
                                    !.named = all(names)]
<1>1. q.pc = "resolved" /\ q.what.kind = "query" /\ q.hits = <<>>
  BY DEF _search_consolidated_shard
<1>2. CASE Read(r, Idle)
  <2>1. Good(Idle, shards, last_lsn, reshaped, truth)
    BY AtRest DEF Idle
  <2> QED
    BY <1>2, <2>1, ReadKeeps
<1>3. ASSUME NEW names, Read(r, next(names))
      PROVE  ReadsInv'
  <2> DEFINE hits == _run_faiss_search(r, names)
             to == next(names)
  <2>1. ReadGood(q, shards) /\ QueryGood(q, shards)
    BY DEF ReadsInv, RequestsInv, Good
  <2>2. DOMAIN q = QueryFields
    BY <1>1, <2>1 DEF QueryGood
  <2>3. hits = Nearest(Matching(Named(VectorsIn(shards, q.shard), names, Ids),
                                q.what.filter),
                       q.what.top_k, q.what.near)
    BY ShardsRead DEF _run_faiss_search
  <2>4. all(names) <=> \A i \in Ids : VectorsIn(shards, q.shard)[i] > 0 => names[i] = "own"
    BY ShardsRead
  <2> HIDE DEF hits, all
  <2>5. /\ DOMAIN to = QueryFields /\ to.pc = q.pc /\ to.shard = q.shard
        /\ to.what = q.what /\ to.recall = q.recall /\ to.want = q.want
        /\ to.timely = q.timely /\ (to.named <=> all(names))
        /\ to.hits = <<hits>>
    BY <2>2 DEF QueryFields, hits
  <2> HIDE DEF to
  <2>6. \A scan : Scanned(q, scan, shards) => Scanned(to, scan, shards)
    BY <2>5 DEF Scanned
  <2>7. Searched(to, hits, shards)
    BY <2>3, <2>4, <2>5 DEF Searched
  <2>8. ReadGood(to, shards)
    BY <1>1, <2>1, <2>5 DEF ReadGood
  <2>9. QueryGood(to, shards)
    BY <1>1, <2>1, <2>5, <2>6, <2>7 DEF QueryGood
  <2>10. Good(to, shards, last_lsn, reshaped, truth)
    BY <1>1, <2>5, <2>8, <2>9 DEF Good, GotGood, WalkGood, MatchedGood
  <2> QED
    BY <1>3, <2>10, ReadKeeps DEF to
<1> HIDE DEF next
<1> QED
  BY <1>2, <1>3 DEF _search_consolidated_shard, _consolidated_error_response, next

\* The merge of both halves, or an ephemeral job when there is neither.
LEMMA QueryAnswered ==
  ASSUME ReadsInv, NEW r \in Readers, QueryAnswer(r)
  PROVE  ReadsInv'
<1> DEFINE q == req[r]
           what == q.what
           scan == Head(q.recall)
           hits == Head(q.hits)
           merged == _merge_recall_and_consolidated(scan, hits, what.top_k, what.near)
           hidden == \E e \in Range(hits) : e.id \in scan.suppress
           next == [pc |-> "matched", what |-> what, want |-> q.want, timely |-> q.timely,
                    named |-> q.named, hidden |-> hidden, matches |-> merged]
           cold == VectorsIn(shards, q.shard)
<1>1. /\ q.pc = "resolved" /\ what.kind = "query" /\ q.recall # <<>> /\ q.hits # <<>>
      /\ Read(r, [pc |-> "ephemeral"]) \/ Read(r, next)
  BY DEF QueryAnswer
<1>2. CASE Read(r, [pc |-> "ephemeral"])
  <2>1. Good([pc |-> "ephemeral"], shards, last_lsn, reshaped, truth)
    BY AtRest
  <2> QED
    BY <1>2, <2>1, ReadKeeps
<1>3. CASE Read(r, next)
  <2>1. ReadGood(q, shards) /\ QueryGood(q, shards)
    BY DEF ReadsInv, RequestsInv, Good
  <2>2. what.top_k \in Nat \ {0}
    BY <1>1, <2>1 DEF QueryGood
  <2>3. q.timely => Scanned(q, scan, shards)
    <3>1. PICK found : q.recall = <<found>> /\ (q.timely => Scanned(q, found, shards))
      BY <1>1, <2>1 DEF QueryGood
    <3>2. scan = found
      BY <3>1
    <3> QED
      BY <3>1, <3>2
  <2>4. Searched(q, hits, shards)
    <3>1. PICK found : q.hits = <<found>> /\ Searched(q, found, shards)
      BY <1>1, <2>1 DEF QueryGood
    <3>2. hits = found
      BY <3>1
    <3> QED
      BY <3>1, <3>2
  <2>5. /\ cold \in Versions /\ Distinct(cold)
        /\ MarkIn(shards, q.shard) \in Int
        /\ \A i \in Ids : cold[i] <= MarkIn(shards, q.shard) /\ cold[i] \in Int
    <3>1. shards \in Seq(Shard) /\ q.shard \in 0..Len(shards)
      BY <1>1, <2>1 DEF ReadsInv, BaseInv, ShardsInv, ReadGood
    <3>2. /\ cold \in Dataset /\ MarkIn(shards, q.shard) \in Nat
          /\ Covers(MarkIn(shards, q.shard), cold, NamesIn(shards, q.shard))
      BY <3>1, ShardType
    <3> HIDE DEF cold
    <3> QED
      BY <3>2, ReadsAssumption DEF Dataset, Versions, Covers
  <2> HIDE DEF scan, hits, merged, cold
  <2>6. ASSUME q.timely
        PROVE  /\ \A e \in Range(merged) :
                    e.id \in Ids \/ what.filter
                      => e \in Matching(Records(q.want), what.filter)
               /\ q.named /\ ~ hidden
                    => merged = Nearest(Matching(Records(q.want), what.filter),
                                        what.top_k, what.near)
    <3>1. /\ q.want \in Versions /\ Distinct(q.want)
          /\ \A i \in Ids : i \notin scan.suppress => q.want[i] = cold[i]
          /\ scan.matches = Nearest({e \in Matching(Records(q.want), what.filter) :
                                       e.id \in scan.suppress},
                                    what.top_k, what.near)
      BY <2>3, <2>6 DEF Scanned, Dataset, cold
    <3>2. \A i, j \in Ids : i \in scan.suppress /\ q.want[i] > 0 => q.want[i] # cold[j]
      <4> SUFFICES ASSUME NEW i \in Ids, NEW j \in Ids, i \in scan.suppress, q.want[i] > 0
                   PROVE  q.want[i] # cold[j]
        OBVIOUS
      <4>1. q.want[i] \in Int /\ (q.want[i] = 0 \/ q.want[i] > MarkIn(shards, q.shard))
        BY <2>3, <2>6 DEF Scanned, Dataset, Versions
      <4> QED
        BY <2>5, <4>1
    <3>3. PICK names :
            /\ hits = Nearest(Matching(Named(cold, names, Ids), what.filter),
                              what.top_k, what.near)
            /\ q.named => \A i \in Ids : cold[i] > 0 => names[i] = "own"
      BY <2>4 DEF Searched, cold
    <3> DEFINE want == q.want
               k == what.top_k
               filter == what.filter
               near == what.near
               live == Matching(Records(want), filter)
    <3>4. /\ want \in Versions /\ Distinct(want) /\ cold \in Versions /\ Distinct(cold)
          /\ \A i \in Ids : i \notin scan.suppress => want[i] = cold[i]
          /\ \A i, j \in Ids : i \in scan.suppress /\ want[i] > 0 => want[i] # cold[j]
          /\ k \in Nat \ {0}
          /\ scan.matches = Nearest({e \in live : e.id \in scan.suppress}, k, near)
          /\ hits = Nearest(Matching(Named(cold, names, Ids), filter), k, near)
      BY <2>2, <2>5, <3>1, <3>2, <3>3
    <3>5. merged = _merge_recall_and_consolidated(scan, hits, k, near)
      BY DEF merged
    <3> HIDE DEF want, k, filter, near
    <3>6. /\ \A e \in Range(merged) : e.id \in Ids \/ filter => e \in live
          /\ (\A i \in Ids : cold[i] > 0 => names[i] = "own") /\ ~ hidden
               => merged = Nearest(live, k, near)
      BY <3>4, <3>5, MergeIsLive
    <3> QED
      BY <3>3, <3>6 DEF want, k, filter, near
  <2> HIDE DEF hidden
  <2>7. /\ next.pc = "matched" /\ next.what = what /\ next.want = q.want
        /\ next.timely = q.timely /\ (next.hidden <=> hidden) /\ next.matches = merged
        /\ next.named = q.named
    OBVIOUS
  <2> HIDE DEF next
  <2>8. MatchedGood(next)
    BY <2>6, <2>7 DEF MatchedGood
  <2>9. Good(next, shards, last_lsn, reshaped, truth)
    BY <2>7, <2>8 DEF Good, ReadGood, GotGood, WalkGood, QueryGood
  <2> QED
    BY <1>3, <2>9, ReadKeeps DEF next, hidden
<1> QED
  BY <1>1, <1>2, <1>3

-----------------------------------------------------------------------------
(* The theorems *)

\* The invariant holds of the empty dataset ...
LEMMA ReadsStart == Init => ReadsInv
<1> SUFFICES ASSUME Init PROVE ReadsInv
  OBVIOUS
<1>1. parts = [i \in Ids |-> NoRow] /\ last_lsn = 0 /\ truth = Nothing /\ shards = <<>>
      /\ fold.pc = "idle" /\ req = [r \in Readers |-> Idle]
  BY DEF Init, NoRows, Idle
<1>2. \A i \in Ids : parts[i].lsn = 0 /\ Version(parts[i]) = 0 /\ truth[i] = 0
  BY <1>1, VersionOf, NothingIsDataset
<1>3. StoreInv
  BY <1>1, <1>2, NothingIsDataset, ReadsAssumption DEF StoreInv
<1>4. shards \in Seq(Shard) /\ Len(shards) = 0
  BY <1>1, EmptySeq
<1>5. ShardsInv
  BY <1>1, <1>2, <1>4, NothingIsDataset
     DEF ShardsInv, MarkIn, PriorIn, Reaches, Remembers, VectorsIn
<1>6. FoldInv
  BY <1>1 DEF FoldInv
<1>7. RequestsInv
  <2>1. \A r \in Readers : req[r].pc = "idle"
    BY <1>1 DEF Idle
  <2> QED
    BY <1>1, <2>1, AtRest DEF RequestsInv
<1> QED
  BY <1>3, <1>5, <1>6, <1>7 DEF ReadsInv, BaseInv

\* ... in every step of a read by id or of a listing, ...
LEMMA CrudKeeps ==
  ASSUME ReadsInv, NEW r \in Readers, Crud(r)
  PROVE  ReadsInv'
  BY GetStarts, WalkStarts, WalkGoesOn, SidecarLoaded, GetAnswered, PageListed DEF Crud

\* ... in every step of a query, ...
LEMMA QueryKeeps ==
  ASSUME ReadsInv, NEW r \in Readers, Query(r)
  PROVE  ReadsInv'
  BY QueryStarts, QueryScanned, QuerySearched, QueryAnswered DEF Query

\* ... and so in every step.
LEMMA ReadsKept == ReadsInv /\ [Next]_vars => ReadsInv'
<1> SUFFICES ASSUME ReadsInv, [Next]_vars PROVE ReadsInv'
  OBVIOUS
<1>1. CASE Write
  BY <1>1, WriteKeeps
<1>2. CASE Consolidate
  BY <1>2, FoldStepKeeps
<1>3. ASSUME NEW r \in Readers, Crud(r) \/ Query(r) \/ Finish(r)
      PROVE  ReadsInv'
  BY <1>3, CrudKeeps, QueryKeeps, FinishKeeps
<1>4. CASE UNCHANGED vars
  <2>1. UNCHANGED <<parts, last_lsn, truth, reshaped, forgotten, shards, fold, req>>
    BY <1>4 DEF vars, storeVars, shardVars
  <2>2. BaseInv'
    BY <2>1, BaseUndisturbed DEF ReadsInv
  <2>3. RequestsInv'
    BY <2>1, RequestsUndisturbed, ExtendsSame DEF ReadsInv, BaseInv, ShardsInv
  <2> QED
    BY <2>2, <2>3 DEF ReadsInv
<1> QED
  BY <1>1, <1>2, <1>3, <1>4 DEF Next

\* The invariant says of an answered read what GetReadsTruth does,
LEMMA InvReadsTruth == ReadsInv => GetReadsTruth
  BY DEF ReadsInv, RequestsInv, Good, GotGood, GetReadsTruth

\* of a walk that its ids are a prefix of the listing,
LEMMA InvWalks == ReadsInv => WalkIsExact
<1> SUFFICES ASSUME ReadsInv, NEW r \in Readers, req[r].pc \in {"paged", "listed"},
                    req[r].what.exact, Steady(req[r].what)
             PROVE  /\ IsPrefix(req[r].what.got, Listing(req[r].what.filter))
                    /\ req[r].pc = "listed" => req[r].what.got = Listing(req[r].what.filter)
  BY DEF WalkIsExact
<1> DEFINE what == req[r].what
           all == ListingOf(truth, what.filter)
<1>1. WalkGood(req[r], last_lsn, reshaped, truth)
  BY DEF ReadsInv, RequestsInv, Good
<1>2. SteadyAt(what, last_lsn, reshaped)
  BY DEF Steady, SteadyAt
<1>3. all = Listing(what.filter)
  BY DEF Listing, ListingOf, ListedIds
<1>4. truth \in Versions
  BY DEF ReadsInv, BaseInv, StoreInv, Dataset
<1>5. all \in Seq(Ids) /\ Len(all) \in Nat
  BY <1>4, ListingType
<1>6. req[r].pc = "paged" => /\ req[r].cursor.o \in Nat /\ req[r].cursor.o <= Len(all)
                             /\ what.got = SubSeq(all, 1, req[r].cursor.o)
  BY <1>1, <1>2 DEF WalkGood, Walked
<1>7. req[r].pc = "listed" => what.got = all
  BY <1>1, <1>2 DEF WalkGood
<1>8. ASSUME NEW n \in 0..Len(all) PROVE IsPrefix(SubSeq(all, 1, n), all)
  <2> DEFINE s == SubSeq(all, 1, n)
  <2> HIDE DEF all
  <2>1. SubSeq(all, 0 + 1, n) \in Seq(Ids) /\ SubSeq(all, 0 + 1, n) \in [1..(n - 0) -> Ids]
    BY <1>5, SubSeqIs
  <2>2. s \in Seq(Ids) /\ s \in [1..n -> Ids]
    BY <1>5, <2>1
  <2>3. Len(s) = n
    BY <1>5, <2>2, LenProperties
  <2>4. SubSeq(s, 1, Len(s)) = s
    BY <2>2, SubSeqFull
  <2> QED
    BY <1>5, <2>3, <2>4 DEF IsPrefix
<1>9. SubSeq(all, 1, Len(all)) = all
  BY <1>5, SubSeqFull
<1> HIDE DEF all
<1>10. IsPrefix(what.got, all)
  <2>1. CASE req[r].pc = "paged"
    <3>1. req[r].cursor.o \in 0..Len(all)
      BY <1>5, <1>6, <2>1
    <3> QED
      BY <1>6, <1>8, <2>1, <3>1
  <2>2. CASE req[r].pc = "listed"
    <3>1. Len(all) \in 0..Len(all)
      BY <1>5
    <3> QED
      BY <1>7, <1>8, <1>9, <2>2, <3>1
  <2> QED
    BY <2>1, <2>2
<1> QED
  BY <1>3, <1>7, <1>10

\* and of an answered query what MatchesAreLive does.
LEMMA InvMatches == ReadsInv => MatchesAreLive
  BY DEF ReadsInv, RequestsInv, Good, MatchedGood, MatchesAreLive

\* Memtable, shards, the fold and the requests under way fit together in every state.
THEOREM ReadsInvariant == Spec => []ReadsInv
  BY ReadsStart, ReadsKept, PTL DEF Spec

\* A read by id whose shard was superseded at most once answers with the last
\* acknowledged write of its id, unless it could not read its sidecar or a fold that
\* could not has forgotten the id: get_vector_endpoint, recall_get_vector.
THEOREM ReadsByIdAreTrue == Spec => []GetReadsTruth
<1>1. ReadsInv => GetReadsTruth
  BY InvReadsTruth
<1> QED
  BY <1>1, ReadsInvariant, PTL

\* The pages of an undisturbed walk are the sorted live ids, each once, whatever folds,
\* sweeps and trims move between them, while sidecars are read and no id is forgotten:
\* list_vectors_endpoint and its cursor.
THEOREM WalksAreExact == Spec => []WalkIsExact
<1>1. ReadsInv => WalkIsExact
  BY InvWalks
<1> QED
  BY <1>1, ReadsInvariant, PTL

\* Whatever sidecars could not be read, a timely query returns live vectors under their
\* clients' ids and under any filter, and the top_k nearest of them if each vector of the
\* shard had its name and recall hides no hit: scan, search and merge of run_query.
THEOREM MatchesLive == Spec => []MatchesAreLive
<1>1. ReadsInv => MatchesAreLive
  BY InvMatches
<1> QED
  BY <1>1, ReadsInvariant, PTL

=============================================================================
