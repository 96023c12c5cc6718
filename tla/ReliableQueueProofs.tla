------------------------ MODULE ReliableQueueProofs ------------------------
(***************************************************************************)
(* Proofs about ReliableQueue for every set of messages, any finite number *)
(* of workers and reapers, and every bound on deaths and early timeouts.   *)
(*                                                                         *)
(* OneCopy and NoSilentLoss count copies.  The induction is on places      *)
(* instead: a message is in exactly one of the five places below, and only *)
(* a message that is unpublished, acked or lost is nowhere.                *)
(***************************************************************************)
EXTENDS ReliableQueue, SequenceTheorems, FiniteSetTheorems, TLAPS

In(x, q) == \E k \in 1..Len(q) : q[k] = x
NoDup(q) == \A k, l \in 1..Len(q) : q[k] = q[l] => k = l

Waits(m) == In(m, waiting)

Nowhere(m)   == ~Waits(m) /\ processing[m] = 0 /\ dlq[m] = 0 /\ InHands(m) = {}
AtWaiting(m) == Waits(m) /\ processing[m] = 0 /\ dlq[m] = 0 /\ InHands(m) = {}
AtWork(m)    == ~Waits(m) /\ processing[m] = 1 /\ dlq[m] = 0 /\ InHands(m) = {}
AtDlq(m)     == ~Waits(m) /\ processing[m] = 0 /\ dlq[m] = 1 /\ InHands(m) = {}
AtHands(m)   == /\ ~Waits(m) /\ processing[m] = 0 /\ dlq[m] = 0
                /\ \E h : InHands(m) = {h}

\* A message is in one of the places, and once.
PlaceInv ==
  /\ NoDup(waiting)
  /\ \A m \in Msgs : Nowhere(m) \/ AtWaiting(m) \/ AtWork(m) \/ AtDlq(m) \/ AtHands(m)

\* Nobody knows of a message before it is published.
FreshInv ==
  /\ \A m \in unpublished : Nowhere(m) /\ starts[m] = 0 /\ attempts[m] = 0
  /\ \A w \in Workers : wmsg[w] \notin unpublished
  /\ \A p \in Reapers : rmsg[p] \notin unpublished /\ todo[p] \cap unpublished = {}

\* A published message that was neither acked nor lost is in some place.
KeptInv ==
  /\ \A m \in Msgs \ (unpublished \cup acked \cup lost) : ~Nowhere(m)
  /\ \A w \in Workers : wpc[w] = "acking" => wmsg[w] \in acked

\* The workers that have taken a message and not yet counted the attempt.
Takers(m) == {w \in Workers : wpc[w] = "taken" /\ wmsg[w] = m}

\* What may still be started, on top of what was: a message goes back on the waiting
\* list only while its attempts are below the cap.
AttemptsOf(m) ==
  /\ dlq[m] = 0 => attempts[m] = starts[m]
  /\ starts[m] + Cardinality(Takers(m)) <= MaxAttempts + Cardinality(Workers)
  /\ Waits(m) => starts[m] + Cardinality(Takers(m)) < MaxAttempts + Cardinality(Workers)

AttemptInv == \A m \in Msgs \ acked : AttemptsOf(m)

QueueInv == TypeOK /\ PlaceInv /\ FreshInv /\ KeptInv /\ AttemptInv

-----------------------------------------------------------------------------
(* Lists *)

\* LPUSH adds its message at the left end and disturbs no other.
LEMMA PushLeft ==
  ASSUME NEW S, NEW q \in Seq(S), NEW m \in S
  PROVE  /\ <<m>> \o q \in Seq(S)
         /\ \A x : In(x, <<m>> \o q) <=> x = m \/ In(x, q)
         /\ NoDup(q) /\ ~In(m, q) => NoDup(<<m>> \o q)
<1> DEFINE r == <<m>> \o q
<1>1. <<m>> \in Seq(S) /\ Len(<<m>>) = 1 /\ <<m>>[1] = m
  OBVIOUS
<1>2. /\ r \in Seq(S) /\ Len(r) = 1 + Len(q) /\ Len(q) \in Nat
      /\ \A i \in 1..Len(r) : r[i] = IF i <= 1 THEN <<m>>[i] ELSE q[i - 1]
  BY <1>1, ConcatProperties, LenProperties
<1>3. r[1] = m /\ \A i \in 2..Len(r) : r[i] = q[i - 1]
  BY <1>1, <1>2
<1> HIDE DEF r
<1>4. ASSUME NEW x
      PROVE  In(x, r) <=> x = m \/ In(x, q)
  <2>1. In(x, r) => x = m \/ In(x, q)
    <3>1. SUFFICES ASSUME NEW k \in 1..Len(r), r[k] = x
                   PROVE  x = m \/ In(x, q)
      BY DEF In
    <3>2. CASE k = 1
      BY <3>1, <3>2, <1>3
    <3>3. CASE k # 1
      <4>1. k - 1 \in 1..Len(q) /\ q[k - 1] = x
        BY <3>1, <3>3, <1>2, <1>3
      <4>2. QED BY <4>1 DEF In
    <3>4. QED BY <3>2, <3>3
  <2>2. x = m => In(x, r)
    BY <1>2, <1>3 DEF In
  <2>3. In(x, q) => In(x, r)
    <3>1. SUFFICES ASSUME NEW k \in 1..Len(q), q[k] = x
                   PROVE  In(x, r)
      BY DEF In
    <3>2. k + 1 \in 1..Len(r) /\ r[k + 1] = x
      BY <3>1, <1>2, <1>3
    <3>3. QED BY <3>2 DEF In
  <2>4. QED BY <2>1, <2>2, <2>3
<1>5. ASSUME NoDup(q), ~In(m, q)
      PROVE  NoDup(r)
  <2>1. SUFFICES ASSUME NEW k \in 1..Len(r), NEW l \in 1..Len(r), r[k] = r[l]
                 PROVE  k = l
    BY DEF NoDup
  <2>2. \A i \in 1..Len(q) : q[i] # m
    BY <1>5 DEF In
  <2>3. \A i \in 1..Len(r) : i # 1 => i - 1 \in 1..Len(q) /\ r[i] = q[i - 1]
    BY <1>2, <1>3
  <2>4. k # 1 /\ l # 1 => k = l
    BY <2>1, <2>3, <1>5 DEF NoDup
  <2>5. QED BY <2>1, <2>2, <2>3, <2>4, <1>3
<1>6. QED BY <1>2, <1>4, <1>5 DEF r

\* RPUSH adds its message at the right end and disturbs no other.
LEMMA PushRight ==
  ASSUME NEW S, NEW q \in Seq(S), NEW m \in S
  PROVE  /\ Append(q, m) \in Seq(S)
         /\ \A x : In(x, Append(q, m)) <=> x = m \/ In(x, q)
         /\ NoDup(q) /\ ~In(m, q) => NoDup(Append(q, m))
<1> DEFINE r == Append(q, m)
<1>1. /\ r \in Seq(S) /\ Len(r) = Len(q) + 1 /\ Len(q) \in Nat
      /\ \A i \in 1..Len(q) : r[i] = q[i]
      /\ r[Len(q) + 1] = m
  BY AppendProperties, LenProperties
<1> HIDE DEF r
<1>2. \A i \in 1..Len(r) : i = Len(q) + 1 \/ i \in 1..Len(q)
  BY <1>1
<1>3. \A i \in 1..Len(q) : i \in 1..Len(r)
  BY <1>1
<1>4. Len(q) + 1 \in 1..Len(r)
  BY <1>1
<1>5. ASSUME NEW x
      PROVE  In(x, r) <=> x = m \/ In(x, q)
  BY <1>1, <1>2, <1>3, <1>4 DEF In
<1>6. ASSUME NoDup(q), ~In(m, q)
      PROVE  NoDup(r)
  BY <1>1, <1>2, <1>6 DEF NoDup, In
<1>7. QED BY <1>1, <1>5, <1>6 DEF r

\* LMOVE takes the left end, which nothing else on a list without repetitions equals.
LEMMA TakeLeft ==
  ASSUME NEW S, NEW q \in Seq(S), q # <<>>
  PROVE  /\ Head(q) \in S /\ Tail(q) \in Seq(S) /\ In(Head(q), q)
         /\ NoDup(q) => /\ NoDup(Tail(q))
                        /\ \A x : In(x, Tail(q)) <=> In(x, q) /\ x # Head(q)
<1> DEFINE r == Tail(q)
           h == Head(q)
<1>1. /\ h \in S /\ r \in Seq(S) /\ Len(r) = Len(q) - 1 /\ Len(q) \in Nat
      /\ \A i \in 1..Len(r) : r[i] = q[i + 1]
  BY HeadTailProperties, LenProperties
<1>2. Len(q) > 0
  BY EmptySeq, LenProperties
<1>3. h = q[1]
  BY <1>2
<1> HIDE DEF r, h
<1>4. 1 \in 1..Len(q)
  BY <1>1, <1>2
<1>5. \A i \in 1..Len(r) : i + 1 \in 1..Len(q) /\ i + 1 # 1
  BY <1>1
<1>6. \A i \in 1..Len(q) : i # 1 => i - 1 \in 1..Len(r) /\ r[i - 1] = q[i]
  BY <1>1
<1>7. ASSUME NoDup(q)
      PROVE  NoDup(r) /\ \A x : In(x, r) <=> In(x, q) /\ x # h
  <2>1. NoDup(r)
    <3>1. SUFFICES ASSUME NEW k \in 1..Len(r), NEW l \in 1..Len(r), r[k] = r[l]
                   PROVE  k = l
      BY DEF NoDup
    <3>2. k + 1 = l + 1
      BY <3>1, <1>1, <1>5, <1>7 DEF NoDup
    <3>3. QED BY <3>2
  <2>2. ASSUME NEW x
        PROVE  In(x, r) <=> In(x, q) /\ x # h
    <3>1. In(x, r) => In(x, q) /\ x # h
      <4>1. SUFFICES ASSUME NEW k \in 1..Len(r), r[k] = x
                     PROVE  In(x, q) /\ x # h
        BY DEF In
      <4>2. k + 1 \in 1..Len(q) /\ q[k + 1] = x /\ k + 1 # 1
        BY <4>1, <1>1, <1>5
      <4>3. x # h
        BY <4>2, <1>3, <1>4, <1>7 DEF NoDup
      <4>4. QED BY <4>2, <4>3 DEF In
    <3>2. In(x, q) /\ x # h => In(x, r)
      BY <1>3, <1>6 DEF In
    <3>3. QED BY <3>1, <3>2
  <2>3. QED BY <2>1, <2>2
<1>8. QED BY <1>1, <1>3, <1>4, <1>7 DEF r, h, In

-----------------------------------------------------------------------------
(* Types *)

\* The parts of TypeOK.
ListType ==
  /\ unpublished \subseteq Msgs /\ acked \subseteq Msgs /\ lost \subseteq Msgs
  /\ waiting \in Seq(Msgs)
  /\ processing \in [Msgs -> Nat] /\ dlq \in [Msgs -> Nat]
HashType ==
  /\ attempts \in [Msgs -> Nat] /\ starts \in [Msgs -> Nat]
  /\ stamp \in [Msgs -> {"none", "fresh", "old"}]
  /\ crashes \in Nat /\ aged \in Nat
WorkerType ==
  /\ wpc \in [Workers -> {"idle", "taken", "running", "acking", "removed"}]
  /\ wmsg \in [Workers -> Msgs \cup {None}]
  /\ \A w \in Workers : wpc[w] = "idle" <=> wmsg[w] = None
ReaperType ==
  /\ rpc \in [Reapers -> {"idle", "tick", "judged", "removed", "pushed"}]
  /\ rmsg \in [Reapers -> Msgs \cup {None}]
  /\ \A p \in Reapers : rpc[p] \in {"idle", "tick"} <=> rmsg[p] = None
TickType ==
  /\ todo \in [Reapers -> SUBSET Msgs] /\ due \in [Reapers -> SUBSET Msgs]
  /\ reaper_lock \in Reapers \cup {None}

\* TypeOK is the conjunction of its parts.
LEMMA TypeParts == TypeOK <=> ListType /\ HashType /\ WorkerType /\ ReaperType /\ TickType
BY DEF TypeOK, ListType, HashType, WorkerType, ReaperType, TickType

\* Every variable stays in its domain, and a process has a message in its hands
\* exactly where its program counter says so.
LEMMA TypeStep ==
  ASSUME TypeOK, [Next]_vars
  PROVE  TypeOK'
<1> USE QueueAssumption
<1>1. ASSUME NEW m \in Msgs, publish(m)
      PROVE  TypeOK'
  BY <1>1, PushLeft DEF TypeOK, publish, workerVars, reaperVars, histVars
<1>2. ASSUME NEW m \in Msgs, Age(m)
      PROVE  TypeOK'
  BY <1>2 DEF TypeOK, Age, workerVars
<1>3. ASSUME NEW w \in Workers, redis_take(w)
      PROVE  TypeOK'
  <2>1. Head(waiting) \in Msgs /\ Tail(waiting) \in Seq(Msgs)
    BY <1>3, TakeLeft DEF TypeOK, redis_take
  <2>2. None \notin Msgs /\ Head(waiting) # None
    BY <2>1
  <2>3. ListType'
    BY <1>3, <2>1, <2>2, TypeParts DEF ListType, redis_take, reaperVars, histVars
  <2>4. HashType'
    BY <1>3, <2>1, <2>2, TypeParts DEF HashType, redis_take, reaperVars, histVars
  <2>5. WorkerType'
    BY <1>3, <2>1, <2>2, TypeParts DEF WorkerType, redis_take, reaperVars, histVars
  <2>6. ReaperType'
    BY <1>3, <2>1, <2>2, TypeParts DEF ReaperType, redis_take, reaperVars, histVars
  <2>7. TickType'
    BY <1>3, <2>1, <2>2, TypeParts DEF TickType, redis_take, reaperVars, histVars
  <2>8. QED BY <2>3, <2>4, <2>5, <2>6, <2>7 DEF TypeOK, ListType, HashType, WorkerType, ReaperType, TickType
<1>4. ASSUME NEW w \in Workers, consume(w)
      PROVE  TypeOK'
  BY <1>4 DEF TypeOK, consume, reaperVars
<1>5. ASSUME NEW w \in Workers, ack(w)
      PROVE  TypeOK'
  BY <1>5 DEF TypeOK, ack, Lrem, reaperVars
<1>6. ASSUME NEW w \in Workers, ack_clear(w)
      PROVE  TypeOK'
  BY <1>6 DEF TypeOK, ack_clear, reaperVars, histVars
<1>7. ASSUME NEW w \in Workers, nack(w)
      PROVE  TypeOK'
  <2>1. ListType'
    <3>1. wmsg[w] \in Msgs
      BY <1>7, TypeParts DEF WorkerType, nack
    <3>2. processing' \in [Msgs -> Nat]
      BY <1>7, <3>1, TypeParts DEF ListType, nack, Lrem
    <3>3. QED BY <1>7, <3>2, TypeParts DEF ListType, nack, reaperVars, histVars
  <2>2. HashType'
    BY <1>7, TypeParts DEF HashType, nack, Lrem, reaperVars, histVars
  <2>3. WorkerType'
    BY <1>7, TypeParts DEF WorkerType, nack, Lrem, reaperVars, histVars
  <2>4. ReaperType'
    BY <1>7, TypeParts DEF ReaperType, nack, Lrem, reaperVars, histVars
  <2>5. TickType'
    BY <1>7, TypeParts DEF TickType, nack, Lrem, reaperVars, histVars
  <2>6. QED BY <2>1, <2>2, <2>3, <2>4, <2>5 DEF TypeOK, ListType, HashType, WorkerType, ReaperType, TickType
<1>8. ASSUME NEW w \in Workers, nack_push(w)
      PROVE  TypeOK'
  <2>1. wmsg[w] \in Msgs
    BY <1>8 DEF TypeOK, nack_push
  <2>2. Append(waiting, wmsg[w]) \in Seq(Msgs)
    BY <2>1, PushRight DEF TypeOK
  <2>3. ListType'
    <3>1. dlq' \in [Msgs -> Nat]
      <4>1. dlq' = dlq \/ dlq' = [dlq EXCEPT ![wmsg[w]] = @ + 1]
        BY <1>8 DEF nack_push, Requeue, DeadLetter
      <4>2. QED BY <4>1, <2>1, TypeParts DEF ListType
    <3>2. waiting' \in Seq(Msgs)
      <4>1. waiting' = waiting \/ waiting' = Append(waiting, wmsg[w])
        BY <1>8 DEF nack_push, Requeue, DeadLetter
      <4>2. QED BY <4>1, <2>2, TypeParts DEF ListType
    <3>3. QED BY <1>8, <3>1, <3>2, TypeParts DEF ListType, nack_push, reaperVars, histVars
  <2>4. HashType'
    BY <1>8, <2>1, <2>2, TypeParts DEF HashType, nack_push, Requeue, DeadLetter, reaperVars, histVars
  <2>5. WorkerType'
    BY <1>8, <2>1, <2>2, TypeParts DEF WorkerType, nack_push, Requeue, DeadLetter, reaperVars, histVars
  <2>6. ReaperType'
    BY <1>8, <2>1, <2>2, TypeParts DEF ReaperType, nack_push, Requeue, DeadLetter, reaperVars, histVars
  <2>7. TickType'
    BY <1>8, <2>1, <2>2, TypeParts DEF TickType, nack_push, Requeue, DeadLetter, reaperVars, histVars
  <2>8. QED BY <2>3, <2>4, <2>5, <2>6, <2>7 DEF TypeOK, ListType, HashType, WorkerType, ReaperType, TickType
<1>9. ASSUME LockExpires
      PROVE  TypeOK'
  BY <1>9 DEF TypeOK, LockExpires, queueVars, workerVars, histVars
<1>10. ASSUME NEW p \in Reapers, reap_once(p)
       PROVE  TypeOK'
  BY <1>10 DEF TypeOK, reap_once, queueVars, workerVars, histVars
<1>11. ASSUME NEW p \in Reapers, NEW m \in Msgs, Inspect(p, m)
       PROVE  TypeOK'
  <2>1. ListType'
    BY <1>11, TypeParts DEF ListType, Inspect, workerVars, histVars
  <2>2. HashType'
    BY <1>11, TypeParts DEF HashType, Inspect, workerVars, histVars
  <2>3. WorkerType'
    BY <1>11, TypeParts DEF WorkerType, Inspect, workerVars, histVars
  <2>4. ReaperType'
    BY <1>11, TypeParts DEF ReaperType, Inspect, workerVars, histVars
  <2>5. TickType'
    BY <1>11, TypeParts DEF TickType, Inspect, workerVars, histVars
  <2>6. QED BY <2>1, <2>2, <2>3, <2>4, <2>5 DEF TypeOK, ListType, HashType, WorkerType, ReaperType, TickType
<1>12. ASSUME NEW p \in Reapers, Reclaim(p)
       PROVE  TypeOK'
  <2>1. ListType'
    <3>1. rmsg[p] \in Msgs
      BY <1>12, TypeParts DEF ReaperType, Reclaim
    <3>2. processing' \in [Msgs -> Nat]
      BY <1>12, <3>1, TypeParts DEF ListType, Reclaim, Lrem
    <3>3. QED BY <1>12, <3>2, TypeParts DEF ListType, Reclaim, workerVars, histVars
  <2>2. HashType'
    BY <1>12, TypeParts DEF HashType, Reclaim, Lrem, workerVars, histVars
  <2>3. WorkerType'
    BY <1>12, TypeParts DEF WorkerType, Reclaim, Lrem, workerVars, histVars
  <2>4. ReaperType'
    BY <1>12, TypeParts DEF ReaperType, Reclaim, Lrem, workerVars, histVars
  <2>5. TickType'
    BY <1>12, TypeParts DEF TickType, Reclaim, Lrem, workerVars, histVars
  <2>6. QED BY <2>1, <2>2, <2>3, <2>4, <2>5 DEF TypeOK, ListType, HashType, WorkerType, ReaperType, TickType
<1>13. ASSUME NEW p \in Reapers, ReclaimPush(p)
       PROVE  TypeOK'
  <2>1. rmsg[p] \in Msgs
    BY <1>13 DEF TypeOK, ReclaimPush
  <2>2. Append(waiting, rmsg[p]) \in Seq(Msgs)
    BY <2>1, PushRight DEF TypeOK
  <2>3. ListType'
    <3>1. dlq' \in [Msgs -> Nat]
      <4>1. dlq' = dlq \/ dlq' = [dlq EXCEPT ![rmsg[p]] = @ + 1]
        BY <1>13 DEF ReclaimPush, Requeue, DeadLetter
      <4>2. QED BY <4>1, <2>1, TypeParts DEF ListType
    <3>2. waiting' \in Seq(Msgs)
      <4>1. waiting' = waiting \/ waiting' = Append(waiting, rmsg[p])
        BY <1>13 DEF ReclaimPush, Requeue, DeadLetter
      <4>2. QED BY <4>1, <2>2, TypeParts DEF ListType
    <3>3. QED BY <1>13, <3>1, <3>2, TypeParts DEF ListType, ReclaimPush, workerVars, histVars
  <2>4. HashType'
    BY <1>13, <2>1, <2>2, TypeParts DEF HashType, ReclaimPush, Requeue, DeadLetter, workerVars, histVars
  <2>5. WorkerType'
    BY <1>13, <2>1, <2>2, TypeParts DEF WorkerType, ReclaimPush, Requeue, DeadLetter, workerVars, histVars
  <2>6. ReaperType'
    BY <1>13, <2>1, <2>2, TypeParts DEF ReaperType, ReclaimPush, Requeue, DeadLetter, workerVars, histVars
  <2>7. TickType'
    BY <1>13, <2>1, <2>2, TypeParts DEF TickType, ReclaimPush, Requeue, DeadLetter, workerVars, histVars
  <2>8. QED BY <2>3, <2>4, <2>5, <2>6, <2>7 DEF TypeOK, ListType, HashType, WorkerType, ReaperType, TickType
<1>14. ASSUME NEW p \in Reapers, ReclaimClear(p)
       PROVE  TypeOK'
  BY <1>14 DEF TypeOK, ReclaimClear, workerVars, histVars
<1>15. ASSUME NEW p \in Reapers, release_reaper_lock(p)
       PROVE  TypeOK'
  BY <1>15 DEF TypeOK, release_reaper_lock, queueVars, workerVars, histVars
<1>16. ASSUME NEW w \in Workers, WorkerDies(w)
       PROVE  TypeOK'
  BY <1>16 DEF TypeOK, WorkerDies, Die, queueVars, reaperVars
<1>17. ASSUME NEW p \in Reapers, ReaperDies(p)
       PROVE  TypeOK'
  BY <1>17 DEF TypeOK, ReaperDies, Die, queueVars, workerVars
<1>18. CASE UNCHANGED vars
  BY <1>18 DEF TypeOK, vars, queueVars, workerVars, reaperVars, histVars
<1>19. QED
  BY <1>1, <1>2, <1>3, <1>4, <1>5, <1>6, <1>7, <1>8, <1>9, <1>10, <1>11, <1>12,
     <1>13, <1>14, <1>15, <1>16, <1>17, <1>18 DEF Next, Work, Reap

-----------------------------------------------------------------------------
(* Hands *)

\* A worker whose LREM found the entry has the message in its hands, and no other.
LEMMA WorkerGrabs ==
  ASSUME WorkerType, NEW w \in Workers, NEW m, wmsg[w] = m,
         wpc' = [wpc EXCEPT ![w] = "removed"], wmsg' = [wmsg EXCEPT ![w] = m],
         UNCHANGED <<rpc, rmsg>>
  PROVE  /\ \A y : y # m => InHands(y)' = InHands(y)
         /\ InHands(m)' = InHands(m) \cup {w}
<1>1. wpc'[w] = "removed" /\ wmsg'[w] = m
  BY DEF WorkerType
<1>2. \A v \in Workers : v # w => wpc'[v] = wpc[v] /\ wmsg'[v] = wmsg[v]
  BY DEF WorkerType
<1>3. \A y : y # m => InHands(y)' = InHands(y)
  BY <1>1, <1>2 DEF InHands
<1>4. InHands(m)' = InHands(m) \cup {w}
  BY <1>1, <1>2 DEF InHands
<1>5. QED BY <1>3, <1>4

\* A worker that goes where it has no message in its hands.
LEMMA WorkerLetsGo ==
  ASSUME WorkerType, NEW w \in Workers, NEW a, NEW b,
         wpc' = [wpc EXCEPT ![w] = a], wmsg' = [wmsg EXCEPT ![w] = b],
         UNCHANGED <<rpc, rmsg>>, a # "removed", NEW m, wmsg[w] = m
  PROVE  /\ \A y : y # m => InHands(y)' = InHands(y)
         /\ wpc[w] # "removed" => InHands(m)' = InHands(m)
         /\ wpc[w] = "removed" => w \in InHands(m) /\ InHands(m)' = InHands(m) \ {w}
<1>1. wpc'[w] # "removed"
  BY DEF WorkerType
<1>2. \A v \in Workers : v # w => wpc'[v] = wpc[v] /\ wmsg'[v] = wmsg[v]
  BY DEF WorkerType
<1>3. \A y : y # m => InHands(y)' = InHands(y)
  BY <1>1, <1>2 DEF InHands
<1>4. wpc[w] # "removed" => InHands(m)' = InHands(m)
  BY <1>1, <1>2 DEF InHands
<1>5. ASSUME wpc[w] = "removed"
      PROVE  w \in InHands(m) /\ InHands(m)' = InHands(m) \ {w}
  <2>1. w \notin Reapers
    BY QueueAssumption
  <2>2. QED BY <1>1, <1>2, <1>5, <2>1 DEF InHands
<1>6. QED BY <1>3, <1>4, <1>5

\* A reaper whose LREM found the entry has the message in its hands, and no other.
LEMMA ReaperGrabs ==
  ASSUME ReaperType, NEW p \in Reapers, NEW m, rmsg[p] = m,
         rpc' = [rpc EXCEPT ![p] = "removed"], rmsg' = [rmsg EXCEPT ![p] = m],
         UNCHANGED <<wpc, wmsg>>
  PROVE  /\ \A y : y # m => InHands(y)' = InHands(y)
         /\ InHands(m)' = InHands(m) \cup {p}
<1>1. rpc'[p] = "removed" /\ rmsg'[p] = m
  BY DEF ReaperType
<1>2. \A v \in Reapers : v # p => rpc'[v] = rpc[v] /\ rmsg'[v] = rmsg[v]
  BY DEF ReaperType
<1>3. \A y : y # m => InHands(y)' = InHands(y)
  BY <1>1, <1>2 DEF InHands
<1>4. InHands(m)' = InHands(m) \cup {p}
  BY <1>1, <1>2 DEF InHands
<1>5. QED BY <1>3, <1>4

\* A reaper that goes where it has no message in its hands.
LEMMA ReaperLetsGo ==
  ASSUME ReaperType, NEW p \in Reapers, NEW a, NEW b,
         rpc' = [rpc EXCEPT ![p] = a], rmsg' = [rmsg EXCEPT ![p] = b],
         UNCHANGED <<wpc, wmsg>>, a # "removed", NEW m, rmsg[p] = m
  PROVE  /\ \A y : y # m => InHands(y)' = InHands(y)
         /\ rpc[p] # "removed" => InHands(m)' = InHands(m)
         /\ rpc[p] = "removed" => p \in InHands(m) /\ InHands(m)' = InHands(m) \ {p}
<1>1. rpc'[p] # "removed"
  BY DEF ReaperType
<1>2. \A v \in Reapers : v # p => rpc'[v] = rpc[v] /\ rmsg'[v] = rmsg[v]
  BY DEF ReaperType
<1>3. \A y : y # m => InHands(y)' = InHands(y)
  BY <1>1, <1>2 DEF InHands
<1>4. rpc[p] # "removed" => InHands(m)' = InHands(m)
  BY <1>1, <1>2 DEF InHands
<1>5. ASSUME rpc[p] = "removed"
      PROVE  p \in InHands(m) /\ InHands(m)' = InHands(m) \ {p}
  <2>1. p \notin Workers
    BY QueueAssumption
  <2>2. QED BY <1>1, <1>2, <1>5, <2>1 DEF InHands
<1>6. QED BY <1>3, <1>4, <1>5

-----------------------------------------------------------------------------
(* Places *)

\* A step that leaves a message where it is.
Stays(x) ==
  /\ Waits(x)' <=> Waits(x)
  /\ processing'[x] = processing[x] /\ dlq'[x] = dlq[x]
  /\ InHands(x)' = InHands(x)
  /\ x \in unpublished' <=> x \in unpublished

\* A step that ends with a published message in a place, or with one nobody owes any more.
Settles(x) ==
  /\ x \notin unpublished'
  /\ \/ AtWaiting(x)' \/ AtWork(x)' \/ AtDlq(x)' \/ AtHands(x)'
     \/ Nowhere(x)' /\ x \in acked' \cup lost'

\* What a step does to the places: it repeats nothing on the waiting list, and
\* every message stays or settles.
PlaceEffect ==
  /\ NoDup(waiting')
  /\ \A x \in Msgs : Stays(x) \/ Settles(x)
  /\ acked \subseteq acked' /\ lost \subseteq lost'

\* Such a step keeps the places.
LEMMA PlacesKept ==
  ASSUME PlaceInv, PlaceEffect
  PROVE  PlaceInv'
<1>1. ASSUME NEW x \in Msgs
      PROVE  Nowhere(x)' \/ AtWaiting(x)' \/ AtWork(x)' \/ AtDlq(x)' \/ AtHands(x)'
  <2>1. CASE Settles(x)
    BY <2>1 DEF Settles
  <2>2. CASE Stays(x)
    <3>1. Nowhere(x) \/ AtWaiting(x) \/ AtWork(x) \/ AtDlq(x) \/ AtHands(x)
      BY DEF PlaceInv
    <3>2. QED BY <2>2, <3>1 DEF Stays, Nowhere, AtWaiting, AtWork, AtDlq, AtHands
  <2>3. QED BY <2>1, <2>2 DEF PlaceEffect
<1>2. QED BY <1>1 DEF PlaceInv, PlaceEffect

\* Messages no producer has published stay nowhere, and published ones somewhere.
LEMMA OwedKept ==
  ASSUME PlaceEffect, NEW x \in Msgs,
         x \in unpublished => Nowhere(x),
         x \notin unpublished \cup acked \cup lost => ~Nowhere(x)
  PROVE  /\ x \in unpublished' => Nowhere(x)'
         /\ x \notin unpublished' \cup acked' \cup lost' => ~Nowhere(x)'
<1>1. CASE Stays(x)
  BY <1>1 DEF PlaceEffect, Stays, Nowhere
<1>2. CASE Settles(x)
  BY <1>2 DEF PlaceEffect, Settles, Nowhere, AtWaiting, AtWork, AtDlq, AtHands
<1>3. QED BY <1>1, <1>2 DEF PlaceEffect

\* Messages whose place the step has no hand in.
LEMMA NothingMoves ==
  ASSUME PlaceInv, UNCHANGED <<unpublished, waiting, processing, dlq>>,
         \A x : InHands(x)' = InHands(x),
         acked \subseteq acked', lost \subseteq lost'
  PROVE  PlaceEffect
BY DEF PlaceInv, PlaceEffect, Stays, Waits

\* LREM of an entry of the processing list takes away the only one.
LEMMA LremEffect ==
  ASSUME ListType, NEW m \in Msgs, Lrem(m)
  PROVE  /\ processing'[m] = IF processing[m] > 0 THEN processing[m] - 1 ELSE 0
         /\ \A x \in Msgs : x # m => processing'[x] = processing[x]
         /\ processing[m] = 0 => processing' = processing
<1>1. /\ processing'[m] = IF processing[m] > 0 THEN processing[m] - 1 ELSE 0
      /\ \A x \in Msgs : x # m => processing'[x] = processing[x]
      /\ DOMAIN processing' = Msgs /\ processing' = [x \in Msgs |-> processing'[x]]
  BY DEF ListType, Lrem
<1>2. processing[m] = 0 => \A x \in Msgs : processing'[x] = processing[x]
  BY <1>1
<1>3. processing = [x \in Msgs |-> processing[x]]
  BY DEF ListType
<1>4. QED BY <1>1, <1>2, <1>3

\* A producer's message appears on the waiting list.
LEMMA PublishEffect ==
  ASSUME TypeOK, PlaceInv, FreshInv, NEW m \in Msgs, publish(m)
  PROVE  PlaceEffect
<1>1. Nowhere(m)
  BY DEF publish, FreshInv
<1>2. /\ \A x : In(x, waiting') <=> x = m \/ In(x, waiting)
      /\ NoDup(waiting) /\ ~In(m, waiting) => NoDup(waiting')
  BY PushLeft DEF TypeOK, publish
<1>3. UNCHANGED <<processing, dlq, wpc, wmsg, rpc, rmsg, acked, lost>>
  BY DEF publish, workerVars, reaperVars, histVars
<1>4. \A x : InHands(x)' = InHands(x)
  BY <1>3 DEF InHands
<1>5. NoDup(waiting')
  BY <1>1, <1>2 DEF PlaceInv, Nowhere, Waits
<1>6. Settles(m)
  BY <1>1, <1>2, <1>3, <1>4 DEF publish, Settles, AtWaiting, Nowhere, Waits
<1>7. \A x \in Msgs : x # m => Stays(x)
  BY <1>2, <1>3, <1>4 DEF publish, Stays, Waits
<1>8. QED BY <1>3, <1>5, <1>6, <1>7 DEF PlaceEffect

\* LMOVE: from the waiting to the processing list.
LEMMA TakeEffect ==
  ASSUME TypeOK, PlaceInv, FreshInv, NEW w \in Workers, redis_take(w)
  PROVE  /\ PlaceEffect
         /\ \A x \in Msgs : x # Head(waiting) => Stays(x)
         /\ \A m : m = Head(waiting) => m \in Msgs /\ AtWaiting(m) /\ AtWork(m)'
<1> DEFINE m == Head(waiting)
<1>1. /\ m \in Msgs /\ In(m, waiting) /\ NoDup(waiting')
      /\ \A x : In(x, waiting') <=> In(x, waiting) /\ x # m
  BY TakeLeft DEF TypeOK, redis_take, PlaceInv
<1>2. UNCHANGED <<unpublished, dlq, rpc, rmsg, acked, lost>>
  BY DEF redis_take, reaperVars, histVars
<1>3. \A x \in Msgs : processing'[x] = IF x = m THEN processing[x] + 1 ELSE processing[x]
  BY <1>1 DEF TypeOK, redis_take
<1>4. \A x \in Msgs : InHands(x)' = InHands(x)
  BY QueueAssumption DEF redis_take, reaperVars, InHands, TypeOK
<1> HIDE DEF m
<1>5. ASSUME NEW n, n = m
      PROVE  n \in Msgs /\ AtWaiting(n) /\ AtWork(n)' /\ n \notin unpublished
  <2>1. AtWaiting(n)
    BY <1>1, <1>5 DEF PlaceInv, Waits, Nowhere, AtWaiting, AtWork, AtDlq, AtHands
  <2>2. n \notin unpublished
    BY <2>1 DEF FreshInv, Nowhere, AtWaiting
  <2>3. QED BY <1>1, <1>2, <1>3, <1>4, <1>5, <2>1, <2>2 DEF AtWaiting, AtWork, Waits
<1>6. \A x \in Msgs : x # m => Stays(x)
  BY <1>1, <1>2, <1>3, <1>4 DEF Stays, Waits
<1>7. \A n : n = m => Settles(n)
  BY <1>2, <1>5 DEF Settles
<1>8. QED BY <1>1, <1>2, <1>5, <1>6, <1>7 DEF PlaceEffect, m

\* ack: off the processing list, if the entry is still there; the message is acked.
LEMMA AckEffect ==
  ASSUME TypeOK, PlaceInv, FreshInv, NEW w \in Workers, ack(w)
  PROVE  PlaceEffect
<1>1. PICK m \in Msgs : m = wmsg[w]
  BY DEF TypeOK, ack
<1>2. UNCHANGED <<unpublished, waiting, dlq, rpc, rmsg, wmsg, lost>> /\ acked' = acked \cup {m}
  BY <1>1 DEF ack, reaperVars
<1>3. \A x \in Msgs : InHands(x)' = InHands(x)
  BY QueueAssumption DEF ack, reaperVars, InHands, TypeOK
<1>4. /\ processing'[m] = IF processing[m] > 0 THEN processing[m] - 1 ELSE 0
      /\ \A x \in Msgs : x # m => processing'[x] = processing[x]
      /\ processing[m] \in Nat
  BY <1>1, LremEffect, TypeParts DEF ack, ListType
<1>5. \A x \in Msgs : x # m => Stays(x)
  BY <1>2, <1>3, <1>4 DEF Stays, Waits
<1>6. Stays(m) \/ Settles(m)
  <2>1. CASE processing[m] = 0
    BY <1>2, <1>3, <1>4, <2>1 DEF Stays, Waits
  <2>2. CASE processing[m] # 0
    <3>1. AtWork(m)
      BY <2>2 DEF PlaceInv, Nowhere, AtWaiting, AtWork, AtDlq, AtHands
    <3>2. Nowhere(m)'
      BY <1>2, <1>3, <1>4, <3>1 DEF AtWork, Nowhere, Waits
    <3>3. m \notin unpublished
      BY <1>1 DEF FreshInv
    <3>4. QED BY <1>2, <3>2, <3>3 DEF Settles
  <2>3. QED BY <2>1, <2>2
<1>7. QED BY <1>2, <1>5, <1>6 DEF PlaceEffect, PlaceInv

\* nack: off the processing list and into the worker's hands, or nothing.
LEMMA NackEffect ==
  ASSUME TypeOK, PlaceInv, FreshInv, NEW w \in Workers, nack(w)
  PROVE  PlaceEffect
<1>1. PICK m \in Msgs : m = wmsg[w]
  BY DEF TypeOK, nack
<1>2. UNCHANGED <<unpublished, waiting, dlq, rpc, rmsg, acked, lost>>
  BY DEF nack, reaperVars, histVars
<1>3. /\ processing'[m] = IF processing[m] > 0 THEN processing[m] - 1 ELSE 0
      /\ \A x \in Msgs : x # m => processing'[x] = processing[x]
      /\ processing[m] \in Nat
  BY <1>1, LremEffect, TypeParts DEF nack, ListType
<1>4. CASE Listed(m)
  <2>1. /\ \A x : x # m => InHands(x)' = InHands(x)
        /\ InHands(m)' = InHands(m) \cup {w}
    <3>1. wpc' = [wpc EXCEPT ![w] = "removed"] /\ wmsg' = [wmsg EXCEPT ![w] = m]
      BY <1>1, <1>4 DEF nack, TypeOK
    <3>2. QED BY <1>1, <1>2, <3>1, WorkerGrabs, TypeParts
  <2>2. \A x \in Msgs : x # m => Stays(x)
    BY <1>2, <1>3, <2>1 DEF Stays, Waits
  <2>3. AtWork(m)
    BY <1>3, <1>4 DEF PlaceInv, Listed, Nowhere, AtWaiting, AtWork, AtDlq, AtHands
  <2>4. AtHands(m)'
    <3>1. InHands(m)' = {w}
      BY <2>1, <2>3 DEF AtWork
    <3>2. QED BY <1>2, <1>3, <2>3, <3>1 DEF AtWork, AtHands, Waits
  <2>5. Settles(m)
    BY <1>1, <1>2, <2>4 DEF FreshInv, Settles
  <2>6. QED BY <1>2, <2>2, <2>5 DEF PlaceEffect, PlaceInv
<1>5. CASE ~Listed(m)
  <2>1. /\ \A x : x # m => InHands(x)' = InHands(x)
        /\ InHands(m)' = InHands(m)
    <3>1. wpc' = [wpc EXCEPT ![w] = "idle"] /\ wmsg' = [wmsg EXCEPT ![w] = None]
      BY <1>1, <1>5 DEF nack
    <3>2. wpc[w] # "removed"
      BY DEF nack
    <3>3. QED BY <1>1, <1>2, <3>1, <3>2, WorkerLetsGo, TypeParts
  <2>2. \A x \in Msgs : processing'[x] = processing[x]
    BY <1>3, <1>5 DEF Listed
  <2>3. \A x \in Msgs : Stays(x)
    BY <1>2, <2>1, <2>2 DEF Stays, Waits
  <2>4. QED BY <1>2, <2>3 DEF PlaceEffect, PlaceInv
<1>6. QED BY <1>4, <1>5

\* A reclaim does the same for a reaper.
LEMMA ReclaimEffect ==
  ASSUME TypeOK, PlaceInv, FreshInv, NEW p \in Reapers, Reclaim(p)
  PROVE  PlaceEffect
<1>1. PICK m \in Msgs : m = rmsg[p]
  BY DEF TypeOK, Reclaim
<1>2. UNCHANGED <<unpublished, waiting, dlq, wpc, wmsg, acked, lost>>
  BY DEF Reclaim, workerVars, histVars
<1>3. /\ processing'[m] = IF processing[m] > 0 THEN processing[m] - 1 ELSE 0
      /\ \A x \in Msgs : x # m => processing'[x] = processing[x]
      /\ processing[m] \in Nat
  BY <1>1, LremEffect, TypeParts DEF Reclaim, ListType
<1>4. CASE Listed(m)
  <2>1. /\ \A x : x # m => InHands(x)' = InHands(x)
        /\ InHands(m)' = InHands(m) \cup {p}
    <3>1. rpc' = [rpc EXCEPT ![p] = "removed"] /\ rmsg' = [rmsg EXCEPT ![p] = m]
      BY <1>1, <1>4 DEF Reclaim, TypeOK
    <3>2. QED BY <1>1, <1>2, <3>1, ReaperGrabs, TypeParts
  <2>2. \A x \in Msgs : x # m => Stays(x)
    BY <1>2, <1>3, <2>1 DEF Stays, Waits
  <2>3. AtWork(m)
    BY <1>3, <1>4 DEF PlaceInv, Listed, Nowhere, AtWaiting, AtWork, AtDlq, AtHands
  <2>4. AtHands(m)'
    <3>1. InHands(m)' = {p}
      BY <2>1, <2>3 DEF AtWork
    <3>2. ~Waits(m)' /\ processing'[m] = 0 /\ dlq'[m] = 0
      BY <1>2, <1>3, <2>3 DEF AtWork, Waits
    <3>3. \E h : InHands(m)' = {h}
      BY ONLY <3>1
    <3>4. QED BY ONLY <3>2, <3>3 DEF AtHands
  <2>5. Settles(m)
    BY <1>1, <1>2, <2>4 DEF FreshInv, Settles
  <2>6. QED BY <1>2, <2>2, <2>5 DEF PlaceEffect, PlaceInv
<1>5. CASE ~Listed(m)
  <2>1. /\ \A x : x # m => InHands(x)' = InHands(x)
        /\ InHands(m)' = InHands(m)
    <3>1. rpc' = [rpc EXCEPT ![p] = "tick"] /\ rmsg' = [rmsg EXCEPT ![p] = None]
      BY <1>1, <1>5 DEF Reclaim
    <3>2. rpc[p] # "removed"
      BY DEF Reclaim
    <3>3. QED BY <1>1, <1>2, <3>1, <3>2, ReaperLetsGo, TypeParts
  <2>2. \A x \in Msgs : processing'[x] = processing[x]
    BY <1>3, <1>5 DEF Listed
  <2>3. \A x \in Msgs : Stays(x)
    BY <1>2, <2>1, <2>2 DEF Stays, Waits
  <2>4. QED BY <1>2, <2>3 DEF PlaceEffect, PlaceInv
<1>6. QED BY <1>4, <1>5

\* A push: out of somebody's hands, on the waiting or on the dead-letter list.
LEMMA PushEffect ==
  ASSUME TypeOK, PlaceInv, NEW m \in Msgs \ unpublished, NEW h \in InHands(m),
         IF Exhausted(m) THEN DeadLetter(m) ELSE Requeue(m),
         UNCHANGED <<unpublished, processing, acked, lost>>,
         \A x : x # m => InHands(x)' = InHands(x), InHands(m)' = InHands(m) \ {h}
  PROVE  PlaceEffect /\ AtHands(m) /\ (Waits(m)' => ~Exhausted(m)) /\ \A x \in Msgs : x # m => Stays(x)
<1>1. AtHands(m) /\ InHands(m)' = {}
  BY DEF PlaceInv, Nowhere, AtWaiting, AtWork, AtDlq, AtHands
<1>2. CASE Exhausted(m)
  <2>1. waiting' = waiting /\ dlq' = [dlq EXCEPT ![m] = @ + 1]
    BY <1>2 DEF DeadLetter
  <2>2. \A x \in Msgs : dlq'[x] = IF x = m THEN dlq[x] + 1 ELSE dlq[x]
    BY <2>1 DEF TypeOK
  <2>3. \A x \in Msgs : x # m => Stays(x)
    BY <2>1, <2>2 DEF Stays, Waits
  <2>4. AtDlq(m)'
    BY <1>1, <2>1, <2>2 DEF AtHands, AtDlq, Waits
  <2>5. QED BY <1>1, <2>1, <2>3, <2>4 DEF PlaceEffect, PlaceInv, Settles, AtDlq
<1>3. CASE ~Exhausted(m)
  <2>1. waiting' = Append(waiting, m) /\ dlq' = dlq
    BY <1>3 DEF Requeue
  <2>2. ~In(m, waiting)
    BY <1>1 DEF AtHands, Waits
  <2>3. /\ \A x : In(x, waiting') <=> x = m \/ In(x, waiting)
        /\ NoDup(waiting')
    BY <2>1, <2>2, PushRight DEF TypeOK, PlaceInv
  <2>4. \A x \in Msgs : x # m => Stays(x)
    BY <2>1, <2>3 DEF Stays, Waits
  <2>5. AtWaiting(m)'
    BY <1>1, <2>1, <2>3 DEF AtHands, AtWaiting, Waits
  <2>6. QED BY <1>1, <1>3, <2>3, <2>4, <2>5 DEF PlaceEffect, Settles
<1>4. QED BY <1>2, <1>3

\* nack's push ...
LEMMA NackPushEffect ==
  ASSUME TypeOK, PlaceInv, FreshInv, NEW w \in Workers, nack_push(w)
  PROVE  /\ PlaceEffect
         /\ \A m : m = wmsg[w] => /\ m \in Msgs /\ AtHands(m) /\ (Waits(m)' => ~Exhausted(m))
                                  /\ \A x \in Msgs : x # m => Stays(x)
<1>1. PICK m \in Msgs : m = wmsg[w]
  BY DEF TypeOK, nack_push
<1>2. /\ \A x : x # m => InHands(x)' = InHands(x)
      /\ w \in InHands(m) /\ InHands(m)' = InHands(m) \ {w}
  <2>1. UNCHANGED <<rpc, rmsg>> /\ wpc[w] = "removed"
    BY DEF nack_push, reaperVars
  <2>2. wpc' = [wpc EXCEPT ![w] = "idle"] /\ wmsg' = [wmsg EXCEPT ![w] = None]
    BY DEF nack_push
  <2>3. QED BY <1>1, <2>1, <2>2, WorkerLetsGo, TypeParts
<1>3. m \notin unpublished
  BY <1>1 DEF FreshInv
<1>4. UNCHANGED <<unpublished, processing, acked, lost>>
  BY DEF nack_push, histVars
<1>5. IF Exhausted(m) THEN DeadLetter(m) ELSE Requeue(m)
  BY <1>1 DEF nack_push
<1>6. QED BY <1>1, <1>2, <1>3, <1>4, <1>5, PushEffect

\* ... and the reaper's.
LEMMA ReclaimPushEffect ==
  ASSUME TypeOK, PlaceInv, FreshInv, NEW p \in Reapers, ReclaimPush(p)
  PROVE  /\ PlaceEffect
         /\ \A m : m = rmsg[p] => /\ m \in Msgs /\ AtHands(m) /\ (Waits(m)' => ~Exhausted(m))
                                  /\ \A x \in Msgs : x # m => Stays(x)
<1>1. PICK m \in Msgs : m = rmsg[p]
  BY DEF TypeOK, ReclaimPush
<1>2. /\ \A x : x # m => InHands(x)' = InHands(x)
      /\ p \in InHands(m) /\ InHands(m)' = InHands(m) \ {p}
  <2>1. UNCHANGED <<wpc, wmsg>> /\ rpc[p] = "removed"
    BY DEF ReclaimPush, workerVars
  <2>2. rpc' = [rpc EXCEPT ![p] = "pushed"] /\ rmsg' = [rmsg EXCEPT ![p] = m]
    BY <1>1 DEF ReclaimPush, TypeOK
  <2>3. QED BY <1>1, <2>1, <2>2, ReaperLetsGo, TypeParts
<1>3. m \notin unpublished
  BY <1>1 DEF FreshInv
<1>4. UNCHANGED <<unpublished, processing, acked, lost>>
  BY DEF ReclaimPush, histVars
<1>5. IF Exhausted(m) THEN DeadLetter(m) ELSE Requeue(m)
  BY <1>1 DEF ReclaimPush
<1>6. QED BY <1>1, <1>2, <1>3, <1>4, <1>5, PushEffect

\* A message that is in the hands of a process when it dies is lost; any other stays.
LEMMA DropEffect ==
  ASSUME TypeOK, PlaceInv, FreshInv, NEW m \in Msgs \ unpublished, NEW h \in InHands(m),
         UNCHANGED <<unpublished, waiting, processing, dlq, acked>>, lost' = lost \cup {m},
         \A x : x # m => InHands(x)' = InHands(x), InHands(m)' = InHands(m) \ {h}
  PROVE  PlaceEffect
<1>1. AtHands(m) /\ InHands(m)' = {}
  BY DEF PlaceInv, Nowhere, AtWaiting, AtWork, AtDlq, AtHands
<1>2. Settles(m)
  BY <1>1 DEF Settles, AtHands, Nowhere, Waits
<1>3. \A x \in Msgs : x # m => Stays(x)
  BY DEF Stays, Waits
<1>4. QED BY <1>2, <1>3 DEF PlaceEffect, PlaceInv

\* A worker dies.
LEMMA WorkerDiesEffect ==
  ASSUME TypeOK, PlaceInv, FreshInv, NEW w \in Workers, WorkerDies(w)
  PROVE  PlaceEffect
<1>1. PICK m \in Msgs : m = wmsg[w]
  BY DEF TypeOK, WorkerDies
<1>2. UNCHANGED <<unpublished, waiting, processing, dlq, acked, rpc, rmsg>>
  BY DEF WorkerDies, queueVars, reaperVars
<1>3. wpc' = [wpc EXCEPT ![w] = "idle"] /\ wmsg' = [wmsg EXCEPT ![w] = None]
  BY DEF WorkerDies
<1>4. CASE wpc[w] = "removed"
  <2>1. /\ \A x : x # m => InHands(x)' = InHands(x)
        /\ w \in InHands(m) /\ InHands(m)' = InHands(m) \ {w}
    BY <1>1, <1>2, <1>3, <1>4, WorkerLetsGo, TypeParts
  <2>2. m \notin unpublished /\ lost' = lost \cup {m}
    BY <1>1, <1>4 DEF FreshInv, WorkerDies
  <2>3. QED BY <1>2, <2>1, <2>2, DropEffect
<1>5. CASE wpc[w] # "removed"
  <2>1. \A x : InHands(x)' = InHands(x)
    BY <1>1, <1>2, <1>3, <1>5, WorkerLetsGo, TypeParts
  <2>2. lost' = lost
    BY <1>5 DEF WorkerDies
  <2>3. QED BY <1>2, <2>1, <2>2, NothingMoves
<1>6. QED BY <1>4, <1>5

\* A reaper dies.
LEMMA ReaperDiesEffect ==
  ASSUME TypeOK, PlaceInv, FreshInv, NEW p \in Reapers, ReaperDies(p)
  PROVE  PlaceEffect
<1>1. UNCHANGED <<unpublished, waiting, processing, dlq, acked, wpc, wmsg>>
  BY DEF ReaperDies, queueVars, workerVars
<1>2. rpc' = [rpc EXCEPT ![p] = "idle"] /\ rmsg' = [rmsg EXCEPT ![p] = None]
  BY DEF ReaperDies
<1>3. CASE rpc[p] = "removed"
  <2>1. PICK m \in Msgs : m = rmsg[p]
    BY <1>3 DEF TypeOK
  <2>2. /\ \A x : x # m => InHands(x)' = InHands(x)
        /\ p \in InHands(m) /\ InHands(m)' = InHands(m) \ {p}
    BY <2>1, <1>1, <1>2, <1>3, ReaperLetsGo, TypeParts
  <2>3. m \notin unpublished /\ lost' = lost \cup {m}
    BY <2>1, <1>3 DEF FreshInv, ReaperDies
  <2>4. QED BY <1>1, <2>2, <2>3, DropEffect
<1>4. CASE rpc[p] # "removed"
  <2>1. \A x : InHands(x)' = InHands(x)
    <3>1. PICK m : m = rmsg[p]
      OBVIOUS
    <3>2. QED BY <3>1, <1>1, <1>2, <1>4, ReaperLetsGo, TypeParts
  <2>2. lost' = lost
    BY <1>4 DEF ReaperDies
  <2>3. QED BY <1>1, <2>1, <2>2, NothingMoves
<1>5. QED BY <1>3, <1>4

\* Every step leaves or settles every message.
LEMMA PlaceStep ==
  ASSUME TypeOK, PlaceInv, FreshInv, Next
  PROVE  PlaceEffect
<1>1. ASSUME NEW m \in Msgs, Age(m)
      PROVE  PlaceEffect
  <2>1. UNCHANGED <<unpublished, waiting, processing, dlq, wpc, wmsg, rpc, rmsg, acked, lost>>
    BY <1>1 DEF Age, workerVars
  <2>2. QED BY <2>1, NothingMoves DEF InHands
<1>2. ASSUME NEW w \in Workers, consume(w)
      PROVE  PlaceEffect
  <2>1. UNCHANGED <<unpublished, waiting, processing, dlq, rpc, rmsg, acked, lost>>
    BY <1>2 DEF consume, reaperVars
  <2>2. PICK m : m = wmsg[w]
    OBVIOUS
  <2>3. /\ wpc' = [wpc EXCEPT ![w] = "running"] /\ wmsg' = [wmsg EXCEPT ![w] = m]
        /\ wpc[w] # "removed"
    BY <1>2, <2>2 DEF consume, TypeOK
  <2>4. QED BY <2>1, <2>2, <2>3, WorkerLetsGo, TypeParts, NothingMoves
<1>3. ASSUME NEW w \in Workers, ack_clear(w)
      PROVE  PlaceEffect
  <2>1. UNCHANGED <<unpublished, waiting, processing, dlq, rpc, rmsg, acked, lost>>
    BY <1>3 DEF ack_clear, reaperVars, histVars
  <2>2. PICK m : m = wmsg[w]
    OBVIOUS
  <2>3. /\ wpc' = [wpc EXCEPT ![w] = "idle"] /\ wmsg' = [wmsg EXCEPT ![w] = None]
        /\ wpc[w] # "removed"
    BY <1>3 DEF ack_clear
  <2>4. QED BY <2>1, <2>2, <2>3, WorkerLetsGo, TypeParts, NothingMoves
<1>4. ASSUME LockExpires
      PROVE  PlaceEffect
  <2>1. UNCHANGED <<unpublished, waiting, processing, dlq, wpc, wmsg, rpc, rmsg, acked, lost>>
    BY <1>4 DEF LockExpires, queueVars, workerVars, histVars
  <2>2. QED BY <2>1, NothingMoves DEF InHands
<1>5. ASSUME NEW p \in Reapers, reap_once(p) \/ release_reaper_lock(p)
      PROVE  PlaceEffect
  <2>1. UNCHANGED <<unpublished, waiting, processing, dlq, wpc, wmsg, acked, lost>>
    BY <1>5 DEF reap_once, release_reaper_lock, queueVars, workerVars, histVars
  <2>2. PICK m : m = rmsg[p]
    OBVIOUS
  <2>3. \E a \in {"tick", "idle"} : rpc' = [rpc EXCEPT ![p] = a]
    BY <1>5 DEF reap_once, release_reaper_lock
  <2>4. rmsg' = [rmsg EXCEPT ![p] = m] /\ rpc[p] # "removed"
    BY <1>5, <2>2 DEF reap_once, release_reaper_lock, TypeOK
  <2>5. PICK a \in {"tick", "idle"} : rpc' = [rpc EXCEPT ![p] = a]
    BY <2>3
  <2>6. a # "removed"
    OBVIOUS
  <2>7. QED BY <2>1, <2>2, <2>4, <2>5, <2>6, ReaperLetsGo, TypeParts, NothingMoves
<1>6. ASSUME NEW p \in Reapers, NEW m \in Msgs, Inspect(p, m)
      PROVE  PlaceEffect
  <2>1. UNCHANGED <<unpublished, waiting, processing, dlq, wpc, wmsg, acked, lost>>
    BY <1>6 DEF Inspect, workerVars, histVars
  <2>2. PICK n : n = rmsg[p]
    OBVIOUS
  <2>3. rpc[p] # "removed"
    BY <1>6 DEF Inspect
  <2>4. CASE UNCHANGED <<rpc, rmsg>>
    BY <2>1, <2>4, NothingMoves DEF InHands
  <2>5. CASE rpc' = [rpc EXCEPT ![p] = "judged"] /\ rmsg' = [rmsg EXCEPT ![p] = m]
    BY <2>1, <2>2, <2>3, <2>5, ReaperLetsGo, TypeParts, NothingMoves
  <2>6. QED BY <1>6, <2>4, <2>5 DEF Inspect
<1>7. ASSUME NEW p \in Reapers, ReclaimClear(p)
      PROVE  PlaceEffect
  <2>1. UNCHANGED <<unpublished, waiting, processing, dlq, wpc, wmsg, acked, lost>>
    BY <1>7 DEF ReclaimClear, workerVars, histVars
  <2>2. PICK m : m = rmsg[p]
    OBVIOUS
  <2>3. /\ rpc' = [rpc EXCEPT ![p] = "tick"] /\ rmsg' = [rmsg EXCEPT ![p] = None]
        /\ rpc[p] # "removed"
    BY <1>7 DEF ReclaimClear
  <2>4. QED BY <2>1, <2>2, <2>3, ReaperLetsGo, TypeParts, NothingMoves
<1>8. QED
  BY <1>1, <1>2, <1>3, <1>4, <1>5, <1>6, <1>7, PublishEffect, TakeEffect, AckEffect, NackEffect,
     NackPushEffect, ReclaimEffect, ReclaimPushEffect, WorkerDiesEffect, ReaperDiesEffect
     DEF Next, Work, Reap

-----------------------------------------------------------------------------
(* Attempts *)

\* At most every worker has taken a message.
LEMMA TakersBounded ==
  ASSUME NEW m
  PROVE  /\ IsFiniteSet(Takers(m)) /\ Cardinality(Takers(m)) \in Nat
         /\ Cardinality(Workers) \in Nat /\ Cardinality(Takers(m)) <= Cardinality(Workers)
BY QueueAssumption, FS_Subset, FS_CardinalityType DEF Takers

\* The same after a step.
LEMMA TakersBoundedNext ==
  ASSUME NEW m
  PROVE  /\ IsFiniteSet(Takers(m)') /\ Cardinality(Takers(m)') \in Nat
         /\ Cardinality(Takers(m)') <= Cardinality(Workers)
BY QueueAssumption, FS_Subset, FS_CardinalityType DEF Takers

\* A message keeps its bound through a step that starts no handler on it, takes it
\* from no list and puts it on none.
LEMMA AttemptsKept ==
  ASSUME TypeOK, NEW x \in Msgs, AttemptsOf(x),
         starts'[x] = starts[x], Takers(x)' \subseteq Takers(x), Waits(x)' => Waits(x),
         dlq'[x] = 0 => dlq[x] = 0 /\ attempts'[x] = attempts[x]
  PROVE  AttemptsOf(x)'
<1>1. Cardinality(Takers(x)') <= Cardinality(Takers(x))
  BY TakersBounded, FS_Subset
<1>2. starts[x] \in Nat /\ MaxAttempts \in Nat
  BY QueueAssumption DEF TypeOK
<1>3. QED BY <1>1, <1>2, TakersBounded, TakersBoundedNext DEF AttemptsOf

\* Steps that move no worker into "taken", push nothing and count nothing.
LEMMA AttemptFrame ==
  ASSUME TypeOK, AttemptInv, UNCHANGED <<attempts, starts, dlq>>, acked \subseteq acked',
         \A x \in Msgs : (Waits(x)' => Waits(x)) /\ Takers(x)' \subseteq Takers(x)
  PROVE  AttemptInv'
BY AttemptsKept DEF AttemptInv

\* A push: only a message that is not exhausted goes back on the waiting list.
LEMMA PushAttempts ==
  ASSUME TypeOK, TypeOK', AttemptInv, NEW m \in Msgs, AtHands(m),
         Waits(m)' => ~Exhausted(m), \A x \in Msgs : x # m => Stays(x),
         UNCHANGED <<starts, acked>>,
         IF Exhausted(m) THEN DeadLetter(m) ELSE Requeue(m),
         attempts' = [attempts EXCEPT ![m] = IF Exhausted(m) THEN 0 ELSE @],
         \A x : Takers(x)' \subseteq Takers(x)
  PROVE  AttemptInv'
<1>1. ASSUME NEW x \in Msgs \ acked, x # m
      PROVE  AttemptsOf(x)'
  <2>1. attempts'[x] = attempts[x]
    BY <1>1 DEF TypeOK
  <2>2. QED BY <1>1, <2>1, AttemptsKept DEF AttemptInv, Stays
<1>2. ASSUME m \notin acked, Exhausted(m)
      PROVE  AttemptsOf(m)'
  <2>1. dlq'[m] # 0
    BY <1>2 DEF TypeOK, DeadLetter
  <2>2. ~Waits(m)'
    BY <1>2
  <2>3. QED BY <1>2, <2>1, <2>2, AttemptsKept DEF AttemptInv
<1>3. ASSUME m \notin acked, ~Exhausted(m)
      PROVE  AttemptsOf(m)'
  <2>1. dlq'[m] = dlq[m] /\ attempts'[m] = attempts[m] /\ dlq[m] = 0
    BY <1>3 DEF TypeOK, Requeue, AtHands
  <2>2. attempts[m] = starts[m] /\ starts[m] < MaxAttempts
    <3>1. attempts[m] = starts[m] /\ starts[m] \in Nat
      BY <1>3, <2>1 DEF AttemptInv, AttemptsOf, TypeOK
    <3>2. QED BY <1>3, <3>1, QueueAssumption DEF Exhausted
  <2>3. starts[m] + Cardinality(Takers(m)') < MaxAttempts + Cardinality(Workers)
    <3>1. starts[m] \in Nat /\ MaxAttempts \in Nat
      BY QueueAssumption DEF TypeOK
    <3>2. QED BY <2>2, <3>1, TakersBounded, TakersBoundedNext
  <2>4. starts[m] + Cardinality(Takers(m)') <= MaxAttempts + Cardinality(Workers)
    <3>1. starts[m] \in Nat /\ MaxAttempts \in Nat
      BY QueueAssumption DEF TypeOK
    <3>2. Cardinality(Takers(m)') \in Nat /\ Cardinality(Workers) \in Nat
      BY TakersBounded, TakersBoundedNext
    <3>3. QED BY <2>3, <3>1, <3>2
  <2>5. QED BY <2>1, <2>2, <2>3, <2>4 DEF AttemptsOf
<1>4. QED BY <1>1, <1>2, <1>3 DEF AttemptInv

\* No step starts a message more often than the bound allows.
LEMMA AttemptStep ==
  ASSUME TypeOK, TypeOK', PlaceInv, FreshInv, KeptInv, AttemptInv, Next
  PROVE  AttemptInv'
<1>1. ASSUME NEW m \in Msgs, publish(m)
      PROVE  AttemptInv'
  <2>1. UNCHANGED <<attempts, starts, dlq, wpc, wmsg, acked>>
    BY <1>1 DEF publish, workerVars, histVars
  <2>2. \A x : In(x, waiting') <=> x = m \/ In(x, waiting)
    BY <1>1, PushLeft DEF TypeOK, publish
  <2>3. \A x : Takers(x)' = Takers(x)
    BY <2>1 DEF Takers
  <2>4. ASSUME NEW x \in Msgs \ acked, x # m
        PROVE  AttemptsOf(x)'
    BY <2>1, <2>2, <2>3, <2>4, AttemptsKept DEF AttemptInv, Waits
  <2>5. ASSUME m \notin acked
        PROVE  AttemptsOf(m)'
    <3>1. starts[m] = 0 /\ attempts[m] = 0
      BY <1>1 DEF publish, FreshInv
    <3>2. 0 + Cardinality(Takers(m)) < MaxAttempts + Cardinality(Workers)
      BY TakersBounded, QueueAssumption
    <3>3. QED BY <2>1, <2>3, <2>5, <3>1, <3>2 DEF AttemptInv, AttemptsOf
  <2>6. QED BY <2>1, <2>4, <2>5 DEF AttemptInv
<1>2. ASSUME NEW w \in Workers, redis_take(w)
      PROVE  AttemptInv'
  <2>1. PICK m \in Msgs : m = Head(waiting) /\ AtWaiting(m) /\ AtWork(m)'
    BY <1>2, TakeEffect
  <2>2. UNCHANGED <<attempts, starts, dlq, acked>>
    BY <1>2 DEF redis_take, histVars
  <2>0. \A v \in Workers : /\ wpc'[v] = IF v = w THEN "taken" ELSE wpc[v]
                           /\ wmsg'[v] = IF v = w THEN m ELSE wmsg[v]
    BY <1>2, <2>1 DEF redis_take, TypeOK
  <2>3. Takers(m)' = Takers(m) \cup {w}
    BY ONLY <2>0, w \in Workers DEF Takers
  <2>4. \A x : x # m => Takers(x)' \subseteq Takers(x)
    BY ONLY <2>0 DEF Takers
  <2>5. ASSUME NEW x \in Msgs \ acked, x # m
        PROVE  AttemptsOf(x)'
    BY <1>2, <2>1, <2>2, <2>4, <2>5, TakeEffect, AttemptsKept DEF AttemptInv, Stays
  <2>6. ASSUME m \notin acked
        PROVE  AttemptsOf(m)'
    <3>1. Cardinality(Takers(m)') <= Cardinality(Takers(m)) + 1
      <4>1. IsFiniteSet(Takers(m)) /\ Cardinality(Takers(m)) \in Nat
        BY TakersBounded
      <4>2. Cardinality(Takers(m) \cup {w})
              = IF w \in Takers(m) THEN Cardinality(Takers(m)) ELSE Cardinality(Takers(m)) + 1
        BY <4>1, FS_AddElement
      <4>3. QED BY <2>3, <4>1, <4>2
    <3>2. starts[m] + Cardinality(Takers(m)) < MaxAttempts + Cardinality(Workers)
      BY <2>1, <2>6 DEF AttemptInv, AttemptsOf, AtWaiting
    <3>3. starts[m] \in Nat /\ MaxAttempts \in Nat
      BY QueueAssumption DEF TypeOK
    <3>4. starts[m] + Cardinality(Takers(m)') <= MaxAttempts + Cardinality(Workers)
      BY <3>1, <3>2, <3>3, TakersBounded, TakersBoundedNext
    <3>5. ~Waits(m)'
      BY <2>1 DEF AtWork
    <3>6. QED BY <2>2, <2>6, <3>4, <3>5 DEF AttemptInv, AttemptsOf
  <2>7. QED BY <2>2, <2>5, <2>6 DEF AttemptInv
<1>3. ASSUME NEW w \in Workers, consume(w)
      PROVE  AttemptInv'
  <2>1. PICK m \in Msgs : m = wmsg[w]
    BY <1>3 DEF consume, TypeOK
  <2>2. UNCHANGED <<dlq, waiting, acked>>
    BY <1>3 DEF consume
  <2>3. Takers(m)' = Takers(m) \ {w} /\ w \in Takers(m)
    BY <1>3, <2>1 DEF consume, Takers, TypeOK
  <2>4. \A x : Takers(x)' \subseteq Takers(x)
    BY <1>3, <2>1 DEF consume, Takers, TypeOK
  <2>5. ASSUME NEW x \in Msgs \ acked, x # m
        PROVE  AttemptsOf(x)'
    <3>1. starts'[x] = starts[x] /\ attempts'[x] = attempts[x]
      BY <1>3, <2>1, <2>5 DEF consume, TypeOK
    <3>2. QED BY <2>2, <2>4, <2>5, <3>1, AttemptsKept DEF AttemptInv, Waits
  <2>6. ASSUME m \notin acked
        PROVE  AttemptsOf(m)'
    <3>1. starts'[m] = starts[m] + 1 /\ attempts'[m] = attempts[m] + 1
      BY <1>3, <2>1, <2>6 DEF consume, TypeOK
    <3>2. Cardinality(Takers(m)') = Cardinality(Takers(m)) - 1
      BY <2>3, TakersBounded, FS_RemoveElement
    <3>3. starts[m] \in Nat /\ MaxAttempts \in Nat
      BY QueueAssumption DEF TypeOK
    <3>4. starts'[m] + Cardinality(Takers(m)') = starts[m] + Cardinality(Takers(m))
      BY <3>1, <3>2, <3>3, TakersBounded
    <3>5. QED BY <2>2, <2>6, <3>1, <3>4 DEF AttemptInv, AttemptsOf, Waits
  <2>7. QED BY <2>2, <2>5, <2>6 DEF AttemptInv
<1>4. ASSUME NEW w \in Workers, ack(w)
      PROVE  AttemptInv'
  <2>1. UNCHANGED <<attempts, starts, dlq, waiting>> /\ acked \subseteq acked'
    BY <1>4 DEF ack
  <2>2. \A x : Takers(x)' \subseteq Takers(x)
    BY <1>4 DEF ack, Takers, TypeOK
  <2>3. QED BY <2>1, <2>2, AttemptFrame DEF Waits
<1>5. ASSUME NEW w \in Workers, ack_clear(w)
      PROVE  AttemptInv'
  <2>1. UNCHANGED <<starts, dlq, waiting, acked>>
    BY <1>5 DEF ack_clear, histVars
  <2>2. \A x : Takers(x)' \subseteq Takers(x)
    BY <1>5 DEF ack_clear, Takers, TypeOK
  <2>3. wmsg[w] \in acked
    BY <1>5 DEF ack_clear, KeptInv
  <2>4. \A x \in Msgs \ acked : attempts'[x] = attempts[x]
    BY <1>5, <2>3 DEF ack_clear, TypeOK
  <2>5. QED BY <2>1, <2>2, <2>4, AttemptsKept DEF AttemptInv, Waits
<1>6. ASSUME NEW w \in Workers, nack(w)
      PROVE  AttemptInv'
  <2>1. UNCHANGED <<attempts, starts, dlq, waiting, acked>>
    BY <1>6 DEF nack, histVars
  <2>2. \A x : Takers(x)' \subseteq Takers(x)
    BY <1>6 DEF nack, Takers, TypeOK
  <2>3. QED BY <2>1, <2>2, AttemptFrame DEF Waits
<1>7. ASSUME NEW w \in Workers, nack_push(w)
      PROVE  AttemptInv'
  <2>1. PICK m \in Msgs : m = wmsg[w]
    BY <1>7 DEF TypeOK, nack_push
  <2>2. UNCHANGED <<starts, acked>>
    BY <1>7 DEF nack_push, histVars
  <2>3. \A x : Takers(x)' \subseteq Takers(x)
    BY <1>7 DEF nack_push, Takers, TypeOK
  <2>4. /\ IF Exhausted(m) THEN DeadLetter(m) ELSE Requeue(m)
        /\ attempts' = [attempts EXCEPT ![m] = IF Exhausted(m) THEN 0 ELSE @]
    BY <1>7, <2>1 DEF nack_push
  <2>5. AtHands(m) /\ (Waits(m)' => ~Exhausted(m)) /\ \A x \in Msgs : x # m => Stays(x)
    BY <1>7, <2>1, NackPushEffect
  <2>6. QED BY <2>2, <2>3, <2>4, <2>5, PushAttempts
<1>8. ASSUME NEW p \in Reapers, ReclaimPush(p)
      PROVE  AttemptInv'
  <2>1. PICK m \in Msgs : m = rmsg[p]
    BY <1>8 DEF TypeOK, ReclaimPush
  <2>2. UNCHANGED <<starts, acked, wpc, wmsg>>
    BY <1>8 DEF ReclaimPush, workerVars, histVars
  <2>3. \A x : Takers(x)' \subseteq Takers(x)
    BY <2>2 DEF Takers
  <2>4. /\ IF Exhausted(m) THEN DeadLetter(m) ELSE Requeue(m)
        /\ attempts' = [attempts EXCEPT ![m] = IF Exhausted(m) THEN 0 ELSE @]
    BY <1>8, <2>1 DEF ReclaimPush
  <2>5. AtHands(m) /\ (Waits(m)' => ~Exhausted(m)) /\ \A x \in Msgs : x # m => Stays(x)
    BY <1>8, <2>1, ReclaimPushEffect
  <2>6. QED BY <2>2, <2>3, <2>4, <2>5, PushAttempts
<1>9. ASSUME NEW w \in Workers, WorkerDies(w)
      PROVE  AttemptInv'
  <2>1. UNCHANGED <<attempts, starts, dlq, waiting, acked>>
    BY <1>9 DEF WorkerDies, queueVars
  <2>2. \A x : Takers(x)' \subseteq Takers(x)
    BY <1>9 DEF WorkerDies, Takers, TypeOK
  <2>3. QED BY <2>1, <2>2, AttemptFrame DEF Waits
<1>10. ASSUME NEW p \in Reapers,
              \/ reap_once(p) \/ (\E m \in Msgs : Inspect(p, m)) \/ Reclaim(p)
              \/ ReclaimClear(p) \/ release_reaper_lock(p) \/ ReaperDies(p)
       PROVE  AttemptInv'
  <2>1. UNCHANGED <<attempts, starts, dlq, waiting, acked, wpc, wmsg>>
    BY <1>10 DEF reap_once, Inspect, Reclaim, ReclaimClear, release_reaper_lock, ReaperDies,
                 queueVars, workerVars, histVars
  <2>2. QED BY <2>1, AttemptFrame DEF Waits, Takers
<1>11. ASSUME LockExpires \/ \E m \in Msgs : Age(m)
       PROVE  AttemptInv'
  <2>1. UNCHANGED <<attempts, starts, dlq, waiting, acked, wpc, wmsg>>
    BY <1>11 DEF LockExpires, Age, queueVars, workerVars, histVars
  <2>2. QED BY <2>1, AttemptFrame DEF Waits, Takers
<1>12. QED BY <1>1, <1>2, <1>3, <1>4, <1>5, <1>6, <1>7, <1>8, <1>9, <1>10, <1>11 DEF Next, Work, Reap

-----------------------------------------------------------------------------
(* What is known of an unpublished message, and what is owed to a published one *)

\* The hashes know nothing of an unpublished message, and no process has it.
FreshCounts == \A m \in unpublished : starts[m] = 0 /\ attempts[m] = 0
FreshHands ==
  /\ \A w \in Workers : wmsg[w] \notin unpublished
  /\ \A p \in Reapers : rmsg[p] \notin unpublished /\ todo[p] \cap unpublished = {}

\* Attempts and starts are counted for messages in a process's hands only.
LEMMA CountStep ==
  ASSUME TypeOK, FreshInv, Next
  PROVE  FreshCounts' /\ unpublished' \subseteq unpublished
<1> USE DEF FreshInv, FreshCounts
<1>1. ASSUME NEW w \in Workers, consume(w) \/ ack_clear(w) \/ nack_push(w)
      PROVE  FreshCounts' /\ unpublished' \subseteq unpublished
  <2>1. unpublished' = unpublished /\ wmsg[w] \notin unpublished
    BY <1>1 DEF consume, ack_clear, nack_push
  <2>2. \A x \in Msgs : x # wmsg[w] => starts'[x] = starts[x] /\ attempts'[x] = attempts[x]
    BY <1>1 DEF consume, ack_clear, nack_push, histVars, TypeOK
  <2>3. QED BY <2>1, <2>2 DEF TypeOK
<1>2. ASSUME NEW p \in Reapers, ReclaimPush(p)
      PROVE  FreshCounts' /\ unpublished' \subseteq unpublished
  <2>1. unpublished' = unpublished /\ rmsg[p] \notin unpublished
    BY <1>2 DEF ReclaimPush
  <2>2. \A x \in Msgs : x # rmsg[p] => starts'[x] = starts[x] /\ attempts'[x] = attempts[x]
    BY <1>2 DEF ReclaimPush, histVars, TypeOK
  <2>3. QED BY <2>1, <2>2 DEF TypeOK
<1>3. ASSUME UNCHANGED <<attempts, starts>>, unpublished' \subseteq unpublished
      PROVE  FreshCounts' /\ unpublished' \subseteq unpublished
  BY <1>3
<1>4. ASSUME NEW m \in Msgs, publish(m) \/ Age(m)
      PROVE  UNCHANGED <<attempts, starts>> /\ unpublished' \subseteq unpublished
  BY <1>4 DEF publish, Age, histVars
<1>5. ASSUME NEW w \in Workers, redis_take(w) \/ ack(w) \/ nack(w) \/ WorkerDies(w)
      PROVE  UNCHANGED <<attempts, starts>> /\ unpublished' \subseteq unpublished
  BY <1>5 DEF redis_take, ack, nack, WorkerDies, queueVars, histVars
<1>6. ASSUME NEW p \in Reapers,
             \/ reap_once(p) \/ (\E m \in Msgs : Inspect(p, m)) \/ Reclaim(p)
             \/ ReclaimClear(p) \/ release_reaper_lock(p) \/ ReaperDies(p)
      PROVE  UNCHANGED <<attempts, starts>> /\ unpublished' \subseteq unpublished
  BY <1>6 DEF reap_once, Inspect, Reclaim, ReclaimClear, release_reaper_lock, ReaperDies,
              queueVars, histVars
<1>7. ASSUME LockExpires
      PROVE  UNCHANGED <<attempts, starts>> /\ unpublished' \subseteq unpublished
  BY <1>7 DEF LockExpires, queueVars, histVars
<1>8. QED BY <1>1, <1>2, <1>3, <1>4, <1>5, <1>6, <1>7 DEF Next, Work, Reap

\* Processes get messages from the lists only, and messages get there by publish.
LEMMA HandStep ==
  ASSUME TypeOK, PlaceInv, FreshInv, Next
  PROVE  FreshHands'
<1>1. FreshHands
  BY DEF FreshInv, FreshHands
<1>2. unpublished' \subseteq unpublished
  BY CountStep
<1>3. ASSUME UNCHANGED <<wmsg, rmsg, todo>>
      PROVE  FreshHands'
  BY <1>1, <1>2, <1>3 DEF FreshHands
<1>4. ASSUME NEW w \in Workers, redis_take(w)
      PROVE  FreshHands'
  <2>1. Head(waiting) \notin unpublished
    <3>1. PICK m \in Msgs : m = Head(waiting) /\ AtWaiting(m)
      BY <1>4, TakeEffect
    <3>2. QED BY <3>1 DEF FreshInv, Nowhere, AtWaiting
  <2>2. UNCHANGED <<rmsg, todo>> /\ wmsg' = [wmsg EXCEPT ![w] = Head(waiting)]
    BY <1>4 DEF redis_take, reaperVars
  <2>3. QED BY <1>1, <1>2, <2>1, <2>2 DEF FreshHands, TypeOK
<1>5. ASSUME NEW w \in Workers, ack_clear(w) \/ nack(w) \/ nack_push(w) \/ WorkerDies(w)
      PROVE  FreshHands'
  <2>1. None \notin unpublished
    BY QueueAssumption DEF TypeOK
  <2>2. UNCHANGED <<rmsg, todo>>
    BY <1>5 DEF ack_clear, nack, nack_push, WorkerDies, reaperVars
  <2>3. wmsg' = wmsg \/ wmsg' = [wmsg EXCEPT ![w] = None]
    BY <1>5 DEF ack_clear, nack, nack_push, WorkerDies
  <2>4. \A v \in Workers : wmsg'[v] \in {wmsg[v], None}
    BY <2>3 DEF TypeOK
  <2>5. QED BY ONLY <1>1, <1>2, <2>1, <2>2, <2>4 DEF FreshHands
<1>6. ASSUME NEW p \in Reapers, reap_once(p)
      PROVE  FreshHands'
  <2>1. \A m \in unpublished : ~Listed(m)
    BY DEF FreshInv, Nowhere, Listed
  <2>2. UNCHANGED <<wmsg, rmsg>> /\ todo' = [todo EXCEPT ![p] = {m \in Msgs : Listed(m)}]
    BY <1>6 DEF reap_once, workerVars
  <2>3. QED BY <1>1, <1>2, <2>1, <2>2 DEF FreshHands, TypeOK
<1>7. ASSUME NEW p \in Reapers, NEW m \in Msgs, Inspect(p, m)
      PROVE  FreshHands'
  <2>1. m \notin unpublished
    BY <1>1, <1>7 DEF FreshHands, Inspect
  <2>2. wmsg' = wmsg /\ todo' = [todo EXCEPT ![p] = @ \ {m}]
    BY <1>7 DEF Inspect, workerVars
  <2>3. rmsg' = rmsg \/ rmsg' = [rmsg EXCEPT ![p] = m]
    BY <1>7 DEF Inspect
  <2>4. QED BY <1>1, <1>2, <2>1, <2>2, <2>3 DEF FreshHands, TypeOK
<1>8. ASSUME NEW p \in Reapers, Reclaim(p) \/ ReclaimClear(p) \/ ReaperDies(p)
      PROVE  FreshHands'
  <2>1. None \notin unpublished
    BY QueueAssumption DEF TypeOK
  <2>2. wmsg' = wmsg /\ (todo' = todo \/ todo' = [todo EXCEPT ![p] = {}])
    BY <1>8 DEF Reclaim, ReclaimClear, ReaperDies, workerVars
  <2>3. rmsg' = rmsg \/ rmsg' = [rmsg EXCEPT ![p] = None]
    BY <1>8 DEF Reclaim, ReclaimClear, ReaperDies
  <2>4. \A q \in Reapers : rmsg'[q] \in {rmsg[q], None} /\ todo'[q] \subseteq todo[q]
    <3>1. \A q \in Reapers : rmsg'[q] \in {rmsg[q], None}
      BY <2>3 DEF TypeOK
    <3>2. \A q \in Reapers : todo'[q] \subseteq todo[q]
      BY <2>2 DEF TypeOK
    <3>3. QED BY <3>1, <3>2
  <2>5. QED BY ONLY <1>1, <1>2, <2>1, <2>2, <2>4 DEF FreshHands
<1>9. ASSUME NEW m \in Msgs, publish(m) \/ Age(m)
      PROVE  FreshHands'
  BY <1>3, <1>9 DEF publish, Age, workerVars, reaperVars
<1>10. ASSUME NEW w \in Workers, consume(w) \/ ack(w)
      PROVE  FreshHands'
  BY <1>3, <1>10 DEF consume, ack, reaperVars
<1>11. ASSUME NEW p \in Reapers, ReclaimPush(p) \/ release_reaper_lock(p)
      PROVE  FreshHands'
  BY <1>3, <1>11 DEF ReclaimPush, release_reaper_lock, workerVars
<1>12. ASSUME LockExpires
       PROVE  FreshHands'
  BY <1>3, <1>12 DEF LockExpires, workerVars
<1>13. QED BY <1>4, <1>5, <1>6, <1>7, <1>8, <1>9, <1>10, <1>11, <1>12 DEF Next, Work, Reap

\* Only a worker whose handler succeeded acks.
LEMMA AckingStep ==
  ASSUME TypeOK, KeptInv, Next
  PROVE  \A v \in Workers : wpc'[v] = "acking" => wmsg'[v] \in acked'
<1> DEFINE Goal == \A v \in Workers : wpc'[v] = "acking" => wmsg'[v] \in acked'
<1>1. \A v \in Workers : wpc[v] = "acking" => wmsg[v] \in acked
  BY DEF KeptInv
<1>2. ASSUME UNCHANGED <<wpc, wmsg, acked>>
      PROVE  Goal
  BY <1>1, <1>2
<1>3. ASSUME NEW w \in Workers, redis_take(w) \/ consume(w) \/ ack_clear(w) \/ nack(w)
                                \/ nack_push(w) \/ WorkerDies(w)
      PROVE  Goal
  <2>1. wpc'[w] # "acking" /\ acked' = acked
    BY <1>3 DEF redis_take, consume, ack_clear, nack, nack_push, WorkerDies, histVars, TypeOK
  <2>2. \A v \in Workers : v # w => wpc'[v] = wpc[v] /\ wmsg'[v] = wmsg[v]
    BY <1>3 DEF redis_take, consume, ack_clear, nack, nack_push, WorkerDies, TypeOK
  <2>3. QED BY <1>1, <2>1, <2>2
<1>4. ASSUME NEW w \in Workers, ack(w)
      PROVE  Goal
  BY <1>1, <1>4 DEF ack, TypeOK
<1>5. ASSUME NEW m \in Msgs, publish(m) \/ Age(m)
      PROVE  Goal
  BY <1>2, <1>5 DEF publish, Age, workerVars, histVars
<1>6. ASSUME NEW p \in Reapers, Reap(p) \/ ReaperDies(p)
      PROVE  Goal
  BY <1>2, <1>6 DEF Reap, reap_once, Inspect, Reclaim, ReclaimPush, ReclaimClear,
                    release_reaper_lock, ReaperDies, workerVars, histVars
<1>7. ASSUME LockExpires
      PROVE  Goal
  BY <1>2, <1>7 DEF LockExpires, workerVars, histVars
<1>8. QED BY <1>3, <1>4, <1>5, <1>6, <1>7 DEF Next, Work

-----------------------------------------------------------------------------
(* Theorems *)

\* The empty queue satisfies the invariant.
LEMMA QueueInit ==
  ASSUME Init
  PROVE  QueueInv
<1> USE QueueAssumption DEF Init
<1>1. TypeOK
  BY DEF TypeOK
<1>2. \A m : InHands(m) = {} /\ Takers(m) = {} /\ ~Waits(m)
  BY DEF InHands, Takers, Waits, In
<1>3. \A m \in Msgs : Nowhere(m)
  BY <1>2 DEF Nowhere
<1>4. NoDup(waiting)
  BY DEF NoDup
<1>5. AttemptInv
  <2>1. \A m : Cardinality(Takers(m)) = 0 /\ Cardinality(Workers) \in Nat
    BY <1>2, FS_EmptySet, FS_CardinalityType
  <2>2. QED BY <1>2, <2>1 DEF AttemptInv, AttemptsOf
<1>6. KeptInv
  BY DEF KeptInv
<1>7. FreshInv
  BY <1>3 DEF FreshInv
<1>8. QED BY <1>1, <1>3, <1>4, <1>5, <1>6, <1>7 DEF QueueInv, PlaceInv

\* Every step keeps it.
LEMMA QueueStep ==
  ASSUME QueueInv, [Next]_vars
  PROVE  QueueInv'
<1>1. CASE UNCHANGED vars
  <2>1. TypeOK'
    BY TypeStep DEF QueueInv
  <2>2. UNCHANGED <<unpublished, waiting, processing, dlq, attempts, wpc, wmsg, rpc, rmsg, todo,
                    acked, starts, lost>>
    BY <1>1 DEF vars, queueVars, workerVars, reaperVars, histVars
  <2>3. \A m : /\ Waits(m)' <=> Waits(m)
               /\ InHands(m)' = InHands(m) /\ Takers(m)' = Takers(m)
    BY <2>2 DEF Waits, InHands, Takers
  <2>4. PlaceInv'
    BY <2>2, <2>3 DEF QueueInv, PlaceInv, Nowhere, AtWaiting, AtWork, AtDlq, AtHands
  <2>5. FreshInv' /\ KeptInv'
    BY <2>2, <2>3 DEF QueueInv, FreshInv, KeptInv, Nowhere
  <2>6. AttemptInv'
    BY <2>2, <2>3 DEF QueueInv, AttemptInv, AttemptsOf
  <2>7. QED BY <2>1, <2>4, <2>5, <2>6 DEF QueueInv
<1>2. CASE Next
  <2>1. TypeOK' /\ PlaceEffect
    BY <1>2, TypeStep, PlaceStep DEF QueueInv
  <2>2. PlaceInv'
    BY <2>1, PlacesKept DEF QueueInv
  <2>3. \A x \in Msgs : /\ x \in unpublished' => Nowhere(x)'
                        /\ x \notin unpublished' \cup acked' \cup lost' => ~Nowhere(x)'
    BY <2>1, OwedKept DEF QueueInv, FreshInv, KeptInv
  <2>4. FreshInv'
    <3>1. FreshCounts' /\ FreshHands' /\ unpublished' \subseteq Msgs
      BY <1>2, <2>1, CountStep, HandStep DEF QueueInv, TypeOK
    <3>2. QED BY <2>3, <3>1 DEF FreshInv, FreshCounts, FreshHands
  <2>5. KeptInv'
    BY <1>2, <2>3, AckingStep DEF QueueInv, KeptInv
  <2>6. AttemptInv'
    BY <1>2, <2>1, AttemptStep DEF QueueInv
  <2>7. QED BY <2>1, <2>2, <2>4, <2>5, <2>6 DEF QueueInv
<1>3. QED BY <1>1, <1>2

\* QueueInv holds in every reachable state.
THEOREM QueueInvariant == Spec => []QueueInv
<1>1. Init => QueueInv
  BY QueueInit
<1>2. QueueInv /\ [Next]_vars => QueueInv'
  BY QueueStep
<1>3. QED BY <1>1, <1>2, PTL DEF Spec

\* Copies counts 1 for a message in a place and 0 for one that is nowhere.
LEMMA CopiesOfPlaces ==
  ASSUME TypeOK, PlaceInv, NEW m \in Msgs
  PROVE  Copies(m) = IF Nowhere(m) THEN 0 ELSE 1
<1>1. Cardinality(OnWaiting(m)) = IF Waits(m) THEN 1 ELSE 0
  <2>1. CASE Waits(m)
    <3>1. PICK k \in 1..Len(waiting) : waiting[k] = m
      BY <2>1 DEF Waits, In
    <3>2. OnWaiting(m) = {k}
      BY <3>1 DEF OnWaiting, PlaceInv, NoDup
    <3>3. QED BY <2>1, <3>2, FS_Singleton
  <2>2. CASE ~Waits(m)
    <3>1. OnWaiting(m) = {}
      BY <2>2 DEF OnWaiting, Waits, In
    <3>2. QED BY <2>2, <3>1, FS_EmptySet
  <2>3. QED BY <2>1, <2>2
<1>2. InHands(m) = {} => Cardinality(InHands(m)) = 0
  BY FS_EmptySet
<1>3. ASSUME NEW h, InHands(m) = {h}
      PROVE  Cardinality(InHands(m)) = 1
  BY <1>3, FS_Singleton
<1>4. Nowhere(m) \/ AtWaiting(m) \/ AtWork(m) \/ AtDlq(m) \/ AtHands(m)
  BY DEF PlaceInv
<1>5. QED BY <1>1, <1>2, <1>3, <1>4 DEF Copies, Nowhere, AtWaiting, AtWork, AtDlq, AtHands

\* Whatever acks, nacks, reclaims and deaths interleave, a message has one copy.
THEOREM NeverTwoCopies == Spec => []OneCopy
<1>1. QueueInv => OneCopy
  BY CopiesOfPlaces DEF QueueInv, OneCopy
<1>2. QED BY <1>1, QueueInvariant, PTL

\* A published message whose handler has not succeeded is in Redis or in somebody's
\* hands, unless a process died with it between its LREM and its push.
THEOREM AtLeastOnce == Spec => []NoSilentLoss
<1>1. QueueInv => NoSilentLoss
  BY CopiesOfPlaces DEF QueueInv, KeptInv, NoSilentLoss
<1>2. QED BY <1>1, QueueInvariant, PTL

\* A message no handler completes is started at most MaxAttempts times, plus once per
\* worker, whatever the reapers take from slow workers.
THEOREM PoisonStops == Spec => []PoisonIsBounded
<1>1. QueueInv => PoisonIsBounded
  <2>1. SUFFICES ASSUME QueueInv, NEW m \in Msgs \ acked
                 PROVE  starts[m] <= MaxAttempts + Cardinality(Workers)
    BY DEF PoisonIsBounded
  <2>2. starts[m] \in Nat /\ MaxAttempts \in Nat
    BY <2>1, QueueAssumption DEF QueueInv, TypeOK
  <2>3. starts[m] + Cardinality(Takers(m)) <= MaxAttempts + Cardinality(Workers)
    BY <2>1 DEF QueueInv, AttemptInv, AttemptsOf
  <2>4. QED BY <2>2, <2>3, TakersBounded
<1>2. QED BY <1>1, QueueInvariant, PTL

=============================================================================
