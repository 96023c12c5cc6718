--------------------------- MODULE ReliableQueue ---------------------------
(***************************************************************************)
(* One topic of adapters/queue/queue.py on Redis, its workers, and the     *)
(* reapers of adapters/queue/reaper.py.                                    *)
(*                                                                         *)
(* A message is on the waiting list, on the processing list, on the        *)
(* dead-letter list, or in the hands of a process that has taken it off    *)
(* one list (LREM) and not yet pushed it on another: Redis executes each   *)
(* command atomically, and nothing joins two of them.  A process may die   *)
(* between any two commands; a worker that dies restarts.                  *)
(***************************************************************************)
EXTENDS Integers, Sequences, FiniteSets

CONSTANTS
  Msgs,            \* messages (each is published once, with a fresh _msg_id)
  Workers,         \* consumers of the topic
  Reapers,         \* processes that host a reaper thread
  None,            \* no message, no lock holder
  MaxAttempts,     \* QUEUE_MAX_ATTEMPTS
  TopicReclaimed,  \* whether the topic is one of RECLAIMED_TOPICS
  MaxCrashes,      \* bound: process deaths
  MaxAged          \* bound: stamps that outlive the reclaim timeout although no worker died

ASSUME QueueAssumption ==
  /\ None \notin Msgs \cup Reapers
  /\ Workers \cap Reapers = {}
  /\ IsFiniteSet(Workers) /\ IsFiniteSet(Reapers)
  /\ MaxAttempts \in Nat \ {0} /\ MaxCrashes \in Nat
  /\ MaxAged \in Nat
  /\ TopicReclaimed \in BOOLEAN

VARIABLES
  unpublished, \* messages no producer has published yet
  waiting,     \* list <topic>, left end first
  processing,  \* list <topic>:processing: how many entries of each message
  dlq,         \* list <topic>:dlq: how many entries of each message
  attempts,    \* hash <topic>:attempts
  stamp,       \* hash <topic>:received: "none", "fresh" or "old" (over the timeout)
  wpc, wmsg,   \* where each worker is, and with which message
  rpc, rmsg,   \* where each reaper is, and with which message
  todo,        \* the processing entries a reaper's tick has still to look at
  due,         \* the messages whose stamp is over the timeout at the tick's `now`
  reaper_lock, \* key reaper:lock
  acked,       \* history: messages whose handler succeeded
  starts,      \* history: how often a handler was started with a message none had completed
  lost,        \* history: messages that died in a process's hands
  crashes,     \* history: deaths so far
  aged         \* history: stamps that aged under a live worker or off the processing list

queueVars  == <<waiting, processing, dlq, attempts, stamp>>
workerVars == <<wpc, wmsg>>
reaperVars == <<rpc, rmsg, todo, due, reaper_lock>>
histVars   == <<acked, starts, lost, crashes, aged>>
vars == <<unpublished, queueVars, workerVars, reaperVars, histVars>>

Init ==
  /\ unpublished = Msgs
  /\ waiting = <<>>
  /\ processing = [m \in Msgs |-> 0] /\ dlq = [m \in Msgs |-> 0]
  /\ attempts = [m \in Msgs |-> 0] /\ stamp = [m \in Msgs |-> "none"]
  /\ wpc = [w \in Workers |-> "idle"] /\ wmsg = [w \in Workers |-> None]
  /\ rpc = [p \in Reapers |-> "idle"] /\ rmsg = [p \in Reapers |-> None]
  /\ todo = [p \in Reapers |-> {}] /\ due = [p \in Reapers |-> {}]
  /\ reaper_lock = None
  /\ acked = {} /\ starts = [m \in Msgs |-> 0] /\ lost = {} /\ crashes = 0
  /\ aged = 0

-----------------------------------------------------------------------------
(* The lists *)

\* LREM <topic>:processing 1 raw, which says whether it found the entry.
Listed(m) == processing[m] > 0

Lrem(m) == processing' = [processing EXCEPT ![m] = IF @ > 0 THEN @ - 1 ELSE 0]

\* Mutant: the cap lets one more delivery through.
ExhaustedLate(m) == attempts[m] > MaxAttempts

Exhausted(m) == attempts[m] >= MaxAttempts

DeadLetter(m) ==
  /\ dlq' = [dlq EXCEPT ![m] = @ + 1]
  /\ UNCHANGED waiting

\* RPUSH: a message that comes back goes to the end consumers reach last.
Requeue(m) ==
  /\ waiting' = Append(waiting, m)
  /\ UNCHANGED dlq

-----------------------------------------------------------------------------
(* Producers and workers *)

\* LPUSH: the newest message is at the end consumers take from.
publish(m) ==
  /\ m \in unpublished
  /\ unpublished' = unpublished \ {m}
  /\ waiting' = <<m>> \o waiting
  /\ UNCHANGED <<processing, dlq, attempts, stamp, workerVars, reaperVars, histVars>>

\* LMOVE LEFT RIGHT.
redis_take(w) ==
  /\ wpc[w] = "idle"
  /\ waiting # <<>>
  /\ waiting' = Tail(waiting)
  /\ processing' = [processing EXCEPT ![Head(waiting)] = @ + 1]
  /\ wpc' = [wpc EXCEPT ![w] = "taken"]
  /\ wmsg' = [wmsg EXCEPT ![w] = Head(waiting)]
  /\ UNCHANGED <<unpublished, dlq, attempts, stamp, reaperVars, histVars>>

\* Mutant: the message is acknowledged when its handler starts.
AckOnTake(w) ==
  /\ wpc[w] = "taken"
  /\ Lrem(wmsg[w])
  /\ wpc' = [wpc EXCEPT ![w] = "acking"]
  /\ UNCHANGED <<unpublished, waiting, dlq, attempts, stamp, wmsg, reaperVars, histVars>>

\* One MULTI/EXEC bumps the attempt count and stamps the delivery; the handler runs.
consume(w) ==
  /\ wpc[w] = "taken"
  /\ attempts' = [attempts EXCEPT ![wmsg[w]] = @ + 1]
  /\ stamp' = [stamp EXCEPT ![wmsg[w]] = "fresh"]
  /\ starts' = [starts EXCEPT ![wmsg[w]] = IF wmsg[w] \in acked THEN @ ELSE @ + 1]
  /\ wpc' = [wpc EXCEPT ![w] = "running"]
  /\ UNCHANGED <<unpublished, waiting, processing, dlq, wmsg, reaperVars,
                 acked, lost, crashes, aged>>

\* The handler succeeded.  ack removes the entry, whoever's it is by now ...
ack(w) ==
  /\ wpc[w] = "running"
  /\ Lrem(wmsg[w])
  /\ acked' = acked \cup {wmsg[w]}
  /\ wpc' = [wpc EXCEPT ![w] = "acking"]
  /\ UNCHANGED <<unpublished, waiting, dlq, attempts, stamp, wmsg, reaperVars,
                 starts, lost, crashes, aged>>

\* ... and clears the two hashes.
ack_clear(w) ==
  /\ wpc[w] = "acking"
  /\ attempts' = [attempts EXCEPT ![wmsg[w]] = 0]
  /\ stamp' = [stamp EXCEPT ![wmsg[w]] = "none"]
  /\ wpc' = [wpc EXCEPT ![w] = "idle"]
  /\ wmsg' = [wmsg EXCEPT ![w] = None]
  /\ UNCHANGED <<unpublished, waiting, processing, dlq, reaperVars, histVars>>

\* Mutant: nack pushes the message back whether or not LREM found it.
NackBlindly(w) ==
  /\ wpc[w] = "running"
  /\ Lrem(wmsg[w])
  /\ wpc' = [wpc EXCEPT ![w] = "removed"]
  /\ UNCHANGED <<unpublished, waiting, dlq, attempts, stamp, wmsg, reaperVars, histVars>>

\* The handler failed or was skipped.  If LREM finds nothing, another path owns the
\* message and nack leaves it alone.
nack(w) ==
  /\ wpc[w] = "running"
  /\ Lrem(wmsg[w])
  /\ IF Listed(wmsg[w])
     THEN wpc' = [wpc EXCEPT ![w] = "removed"] /\ UNCHANGED wmsg
     ELSE /\ wpc' = [wpc EXCEPT ![w] = "idle"]
          /\ wmsg' = [wmsg EXCEPT ![w] = None]
  /\ UNCHANGED <<unpublished, waiting, dlq, attempts, stamp, reaperVars, histVars>>

nack_push(w) ==
  /\ wpc[w] = "removed"
  /\ LET m == wmsg[w] IN
     /\ IF Exhausted(m) THEN DeadLetter(m) ELSE Requeue(m)
     /\ attempts' = [attempts EXCEPT ![m] = IF Exhausted(m) THEN 0 ELSE @]
     /\ stamp' = [stamp EXCEPT ![m] = "none"]
  /\ wpc' = [wpc EXCEPT ![w] = "idle"]
  /\ wmsg' = [wmsg EXCEPT ![w] = None]
  /\ UNCHANGED <<unpublished, processing, reaperVars, histVars>>

-----------------------------------------------------------------------------
(* The reaper *)

\* A stamp grows older than QUEUE_RECLAIM_TIMEOUT: of a delivery whose worker is dead,
\* of one whose worker is only slow, or a stamp left on a message that is queued again.
\* A tick under way compares with the time it began, so for that tick it is fresh.
Age(m) ==
  /\ stamp[m] = "fresh"
  /\ stamp' = [stamp EXCEPT ![m] = "old"]
  /\ due' = [p \in Reapers |-> due[p] \ {m}]
  /\ \/ Listed(m) /\ (\A w \in Workers : wmsg[w] # m) /\ UNCHANGED aged
     \/ /\ Listed(m) /\ (\E w \in Workers : wmsg[w] = m)
        /\ aged < MaxAged /\ aged' = aged + 1
     \/ ~ Listed(m) /\ aged < MaxAged /\ aged' = aged + 1
  /\ UNCHANGED <<unpublished, waiting, processing, dlq, attempts, workerVars,
                 rpc, rmsg, todo, reaper_lock, acked, starts, lost, crashes>>

\* Mutant: the lock carries no TTL.
LockForever == FALSE /\ UNCHANGED vars

\* The lock's TTL runs out, whether or not its holder's tick is over.
LockExpires ==
  /\ reaper_lock # None
  /\ reaper_lock' = None
  /\ UNCHANGED <<unpublished, queueVars, workerVars, rpc, rmsg, todo, due, histVars>>

\* A tick begins with SET NX on the lock and LRANGE of the processing list.
reap_once(p) ==
  /\ TopicReclaimed
  /\ rpc[p] = "idle"
  /\ reaper_lock = None
  /\ \E m \in Msgs : Listed(m)
  /\ reaper_lock' = p
  /\ rpc' = [rpc EXCEPT ![p] = "tick"]
  /\ todo' = [todo EXCEPT ![p] = {m \in Msgs : Listed(m)}]
  /\ due' = [due EXCEPT ![p] = {m \in Msgs : stamp[m] = "old"}]
  /\ UNCHANGED <<unpublished, queueVars, workerVars, rmsg, histVars>>

\* HGET of the stamp: an entry without one is stamped now and left, a fresh one is
\* left, an old one is judged stale.
Inspect(p, m) ==
  /\ rpc[p] = "tick"
  /\ m \in todo[p]
  /\ todo' = [todo EXCEPT ![p] = @ \ {m}]
  /\ stamp' = [stamp EXCEPT ![m] = IF @ = "none" THEN "fresh" ELSE @]
  /\ IF stamp[m] = "old" /\ m \in due[p]
     THEN rpc' = [rpc EXCEPT ![p] = "judged"] /\ rmsg' = [rmsg EXCEPT ![p] = m]
     ELSE UNCHANGED <<rpc, rmsg>>
  /\ UNCHANGED <<unpublished, waiting, processing, dlq, attempts, workerVars, due,
                 reaper_lock, histVars>>

\* LREM: the loser of a race with an ack, a nack or another reaper finds nothing.
Reclaim(p) ==
  /\ rpc[p] = "judged"
  /\ Lrem(rmsg[p])
  /\ IF Listed(rmsg[p])
     THEN rpc' = [rpc EXCEPT ![p] = "removed"] /\ UNCHANGED rmsg
     ELSE /\ rpc' = [rpc EXCEPT ![p] = "tick"]
          /\ rmsg' = [rmsg EXCEPT ![p] = None]
  /\ UNCHANGED <<unpublished, waiting, dlq, attempts, stamp, workerVars, todo, due, reaper_lock, histVars>>

ReclaimPush(p) ==
  /\ rpc[p] = "removed"
  /\ LET m == rmsg[p] IN
     /\ IF Exhausted(m) THEN DeadLetter(m) ELSE Requeue(m)
     /\ attempts' = [attempts EXCEPT ![m] = IF Exhausted(m) THEN 0 ELSE @]
  /\ rpc' = [rpc EXCEPT ![p] = "pushed"]
  /\ UNCHANGED <<unpublished, processing, stamp, workerVars, rmsg, todo, due, reaper_lock, histVars>>

\* The stamp goes last, when another worker may have taken the message again.
ReclaimClear(p) ==
  /\ rpc[p] = "pushed"
  /\ stamp' = [stamp EXCEPT ![rmsg[p]] = "none"]
  /\ rpc' = [rpc EXCEPT ![p] = "tick"]
  /\ rmsg' = [rmsg EXCEPT ![p] = None]
  /\ UNCHANGED <<unpublished, waiting, processing, dlq, attempts, workerVars, todo, due, reaper_lock, histVars>>

\* The tick is over: compare-and-delete of the lock.
release_reaper_lock(p) ==
  /\ rpc[p] = "tick"
  /\ todo[p] = {}
  /\ rpc' = [rpc EXCEPT ![p] = "idle"]
  /\ due' = [due EXCEPT ![p] = {}]
  /\ reaper_lock' = IF reaper_lock = p THEN None ELSE reaper_lock
  /\ UNCHANGED <<unpublished, queueVars, workerVars, rmsg, todo, histVars>>

-----------------------------------------------------------------------------
(* Deaths *)

Die == crashes < MaxCrashes /\ crashes' = crashes + 1

WorkerDies(w) ==
  /\ wpc[w] # "idle"
  /\ Die
  /\ lost' = IF wpc[w] = "removed" THEN lost \cup {wmsg[w]} ELSE lost
  /\ wpc' = [wpc EXCEPT ![w] = "idle"]
  /\ wmsg' = [wmsg EXCEPT ![w] = None]
  /\ UNCHANGED <<unpublished, queueVars, reaperVars, acked, starts, aged>>

\* The lock stays behind until its TTL runs out.
ReaperDies(p) ==
  /\ rpc[p] # "idle"
  /\ Die
  /\ lost' = IF rpc[p] = "removed" THEN lost \cup {rmsg[p]} ELSE lost
  /\ rpc' = [rpc EXCEPT ![p] = "idle"]
  /\ rmsg' = [rmsg EXCEPT ![p] = None]
  /\ todo' = [todo EXCEPT ![p] = {}]
  /\ due' = [due EXCEPT ![p] = {}]
  /\ UNCHANGED <<unpublished, queueVars, workerVars, reaper_lock, acked, starts, aged>>

-----------------------------------------------------------------------------

Work(w) == \/ redis_take(w) \/ consume(w)
           \/ ack(w) \/ ack_clear(w) \/ nack(w) \/ nack_push(w)

Reap(p) == \/ reap_once(p) \/ (\E m \in Msgs : Inspect(p, m))
           \/ Reclaim(p) \/ ReclaimPush(p) \/ ReclaimClear(p) \/ release_reaper_lock(p)

Next ==
  \/ \E m \in Msgs : publish(m) \/ Age(m)
  \/ \E w \in Workers : Work(w) \/ WorkerDies(w)
  \/ LockExpires
  \/ \E p \in Reapers : Reap(p) \/ ReaperDies(p)

Spec == Init /\ [][Next]_vars

\* A worker that lives keeps polling and its handler returns; a reaper keeps ticking;
\* clocks advance.  Nobody owes a publish, and nobody owes a death.
Fairness ==
  /\ \A w \in Workers : WF_vars(Work(w))
  /\ \A p \in Reapers : WF_vars(Reap(p))
  /\ \A m \in Msgs : WF_vars(Age(m))
  /\ WF_vars(LockExpires)

FairSpec == Spec /\ Fairness

-----------------------------------------------------------------------------
(* Properties *)

\* Every variable stays in its domain.
TypeOK ==
  /\ unpublished \subseteq Msgs /\ acked \subseteq Msgs /\ lost \subseteq Msgs
  /\ waiting \in Seq(Msgs)
  /\ processing \in [Msgs -> Nat] /\ dlq \in [Msgs -> Nat]
  /\ attempts \in [Msgs -> Nat] /\ starts \in [Msgs -> Nat]
  /\ stamp \in [Msgs -> {"none", "fresh", "old"}]
  /\ wpc \in [Workers -> {"idle", "taken", "running", "acking", "removed"}]
  /\ wmsg \in [Workers -> Msgs \cup {None}]
  /\ \A w \in Workers : wpc[w] = "idle" <=> wmsg[w] = None
  /\ rpc \in [Reapers -> {"idle", "tick", "judged", "removed", "pushed"}]
  /\ rmsg \in [Reapers -> Msgs \cup {None}]
  /\ \A p \in Reapers : rpc[p] \in {"idle", "tick"} <=> rmsg[p] = None
  /\ todo \in [Reapers -> SUBSET Msgs] /\ due \in [Reapers -> SUBSET Msgs]
  /\ reaper_lock \in Reapers \cup {None}
  /\ crashes \in Nat /\ aged \in Nat

\* The places a message can be counted in.
OnWaiting(m) == {k \in 1..Len(waiting) : waiting[k] = m}
InHands(m)   == {w \in Workers : wpc[w] = "removed" /\ wmsg[w] = m}
                \cup {p \in Reapers : rpc[p] = "removed" /\ rmsg[p] = m}

Copies(m) == Cardinality(OnWaiting(m)) + processing[m] + dlq[m] + Cardinality(InHands(m))

\* A message never has two copies, although acks, nacks and reclaims of a slow
\* worker's delivery race with each other and with the next delivery: redelivery
\* is repeated, never parallel queueing.
OneCopy == \A m \in Msgs : Copies(m) <= 1

\* At-least-once, with its one exception: a published message whose handler has not
\* succeeded is in Redis or in somebody's hands, or died in them.
NoSilentLoss ==
  \A m \in Msgs \ (unpublished \cup acked \cup lost) : Copies(m) = 1

\* A message that no handler ever completes is dead-lettered: handlers start it at
\* most QUEUE_MAX_ATTEMPTS times, plus once per worker that had taken it and not yet
\* counted its attempt when it was last put back.
PoisonIsBounded ==
  \A m \in Msgs \ acked : starts[m] <= MaxAttempts + Cardinality(Workers)

\* Nothing stays on the waiting or the processing list for ever, although workers
\* and reapers die holding messages and the reaper lock: whatever has been published
\* is acked, dead-lettered or lost in the end.
QueueDrains == <>[](waiting = <<>> /\ \A m \in Msgs : ~ Listed(m))
=============================================================================
