-------------------------- MODULE ControlPlaneProofs --------------------------
(***************************************************************************)
(* Proofs about the control plane's proxy and about the data planes it     *)
(* forwards to: QueryGateway, for any number of worker processes and       *)
(* requests and every value of the times to live, quota and retries, and   *)
(* DataPlaneFleet, for any number of processes, migrations, starts and     *)
(* faults.  The two specifications share no variable.                      *)
(***************************************************************************)
EXTENDS QueryGateway, DataPlaneFleet, TLAPS

-----------------------------------------------------------------------------
(* The proxy: QueryGateway *)

\* No note of the clock lies in the future: requests', the buckets', the caches'.
ClockInv ==
  /\ \A s \in Slots : req[s].at <= now
  /\ \A w \in Workers : /\ bucket[w].last <= now
                        /\ authCache[w] <= now + AuthTtl
                        /\ poolCache[w].exp <= now + PoolTtl

\* A worker about to install a credential read the row while the key was live, and
\* the clock before that.
AuthInv ==
  \A s \in Slots : At(s, "install") =>
    /\ key # "absent"
    /\ key = "revoked" => req[s].at <= revokedAt

\* The row counts the grants of its day, and no later day has any.
QuotaInv ==
  /\ granted[row.reset] = row.today
  /\ \A d \in 0..MaxDay : d > row.reset => granted[d] = 0

\* What a request has been charged and how often it was sent, by where it is.
Consistent(pc, kind, charged, sends) ==
  /\ charged = IF kind = "query" /\ pc \in {"route", "pool", "attempt", "sent",
                                            "answered", "broken"}
               THEN 1 ELSE 0
  /\ sends = IF pc \in {"sent", "answered", "broken"} THEN 1 ELSE 0
  /\ kind = "status" => pc \notin {"limit", "begin", "charge"}

RequestInv ==
  \A s \in Slots : Consistent(req[s].pc, req[s].kind, req[s].charged, req[s].sends)

GatewayInv ==
  /\ TypeOK
  /\ ClockInv /\ AuthInv /\ QuotaInv /\ RequestInv
  /\ CachesExpire /\ DailyQuotaHolds

-----------------------------------------------------------------------------
(* Types *)

Pcs == {"idle", "auth", "lookup", "install", "limit", "begin", "charge",
        "route", "pool", "attempt", "sent", "answered", "broken"}

\* An idle slot is a request.
LEMMA IdleType == Idle \in Request
  BY GatewayAssumption DEF Request, Idle

\* A request, by the fields the invariants speak of.
Fields(q, pc, kind, at, charged, sends) ==
  /\ q \in Request
  /\ q.pc = pc /\ q.kind = kind /\ q.at = at /\ q.charged = charged /\ q.sends = sends

\* A request has the fields it has.
LEMMA OwnFields ==
  ASSUME NEW r \in Request
  PROVE  Fields(r, r.pc, r.kind, r.at, r.charged, r.sends)
  BY DEF Fields

\* An update of `pc` keeps the other fields: it moves the request on.
LEMMA SetPc ==
  ASSUME NEW r, NEW p, NEW k, NEW a, NEW c, NEW n, Fields(r, p, k, a, c, n), NEW x \in Pcs
  PROVE  Fields([r EXCEPT !.pc = x], x, k, a, c, n)
  BY DEF Request, Fields, Pcs

\* An update of `kind` keeps the other fields: it is the kind of the request.
LEMMA SetKind ==
  ASSUME NEW r, NEW p, NEW k, NEW a, NEW c, NEW n, Fields(r, p, k, a, c, n), NEW x \in {"query", "status"}
  PROVE  Fields([r EXCEPT !.kind = x], p, x, a, c, n)
  BY DEF Request, Fields

\* An update of `at` keeps the other fields: it is the clock it noted.
LEMMA SetAt ==
  ASSUME NEW r, NEW p, NEW k, NEW a, NEW c, NEW n, Fields(r, p, k, a, c, n), NEW x \in 0..MaxTime
  PROVE  Fields([r EXCEPT !.at = x], p, k, x, c, n)
  BY DEF Request, Fields

\* An update of `charged` keeps the other fields: it is what it was charged.
LEMMA SetCharged ==
  ASSUME NEW r, NEW p, NEW k, NEW a, NEW c, NEW n, Fields(r, p, k, a, c, n), NEW x \in 0..2
  PROVE  Fields([r EXCEPT !.charged = x], p, k, a, x, n)
  BY DEF Request, Fields

\* An update of `sends` keeps the other fields: it is how often it was sent.
LEMMA SetSends ==
  ASSUME NEW r, NEW p, NEW k, NEW a, NEW c, NEW n, Fields(r, p, k, a, c, n), NEW x \in 0..2
  PROVE  Fields([r EXCEPT !.sends = x], p, k, a, c, x)
  BY DEF Request, Fields

\* An update of `worker` keeps the other fields: it is the worker that has it.
LEMMA SetWorker ==
  ASSUME NEW r, NEW p, NEW k, NEW a, NEW c, NEW n, Fields(r, p, k, a, c, n), NEW x \in Workers \cup {NoWorker}
  PROVE  Fields([r EXCEPT !.worker = x], p, k, a, c, n)
  BY DEF Request, Fields

\* An update of `date` keeps the other fields: it is the date of its transaction.
LEMMA SetDate ==
  ASSUME NEW r, NEW p, NEW k, NEW a, NEW c, NEW n, Fields(r, p, k, a, c, n), NEW x \in 0..MaxDay
  PROVE  Fields([r EXCEPT !.date = x], p, k, a, c, n)
  BY DEF Request, Fields

\* An update of `left` keeps the other fields: it is what it has left of retries.
LEMMA SetLeft ==
  ASSUME NEW r, NEW p, NEW k, NEW a, NEW c, NEW n, Fields(r, p, k, a, c, n), NEW x \in 0..Retries
  PROVE  Fields([r EXCEPT !.left = x], p, k, a, c, n)
  BY DEF Request, Fields

\* The bounds include where counting starts.
LEMMA Naughts == 0 \in 0..MaxTime /\ 0 \in 0..MaxDay /\ 0 \in 0..Retries /\ Retries \in 0..Retries
  BY GatewayAssumption

\* What admission makes of a request.
LEMMA AdmittedFields ==
  ASSUME NEW r \in Request
  PROVE  Fields(Admitted(r), IF r.kind = "query" THEN "limit" ELSE "route", r.kind, 0,
                r.charged, r.sends)
<1> DEFINE p == IF r.kind = "query" THEN "limit" ELSE "route"
           q == [r EXCEPT !.pc = p]
<1>1. p \in Pcs
  BY DEF Pcs
<1> HIDE DEF p
<1>2. Fields(q, p, r.kind, r.at, r.charged, r.sends)
  BY <1>1, OwnFields, SetPc
<1> HIDE DEF q
<1>3. Fields([q EXCEPT !.at = 0], p, r.kind, 0, r.charged, r.sends)
  BY ONLY <1>2, SetAt, Naughts
<1> QED
  BY <1>3 DEF Admitted, p, q

\* What routing makes of a request.
LEMMA RoutedFields ==
  ASSUME NEW r \in Request
  PROVE  Fields(Routed(r), "attempt", r.kind, 0, r.charged, r.sends)
<1> DEFINE q1 == [r EXCEPT !.pc = "attempt"]
           q2 == [q1 EXCEPT !.left = Retries]
           q3 == [q2 EXCEPT !.worker = NoWorker]
           q4 == [q3 EXCEPT !.at = 0]
<1>1. Fields(q1, "attempt", r.kind, r.at, r.charged, r.sends)
  BY OwnFields, SetPc DEF Pcs
<1> HIDE DEF q1
<1>2. Fields(q2, "attempt", r.kind, r.at, r.charged, r.sends)
  BY ONLY <1>1, SetLeft, Naughts
<1> HIDE DEF q2
<1>3. Fields(q3, "attempt", r.kind, r.at, r.charged, r.sends)
  <2>1. NoWorker \in Workers \cup {NoWorker}
    OBVIOUS
  <2> HIDE DEF NoWorker
  <2> QED
    BY ONLY <1>2, <2>1, SetWorker
<1> HIDE DEF q3
<1>4. Fields(q4, "attempt", r.kind, 0, r.charged, r.sends)
  BY ONLY <1>3, SetAt, Naughts
<1> QED
  BY <1>4 DEF q1, q2, q3, q4, Routed

\* Refilling keeps a bucket within its capacity.
LEMMA RefilledType ==
  ASSUME NEW b \in [tokens : 0..Burst, last : 0..MaxTime], NEW t \in 0..MaxTime, b.last <= t
  PROVE  Refilled(b, t) \in 0..Burst
<1> DEFINE d == t - b.last
<1>1. d \in Nat
  BY GatewayAssumption
<1>2. d * Rate \in Nat
  BY <1>1, GatewayAssumption
<1>3. b.tokens + d * Rate \in Nat
  BY <1>2, GatewayAssumption
<1> QED
  BY <1>3, GatewayAssumption DEF Refilled, Lesser

\* The types hold at the start.
LEMMA TypeInit == Init => TypeOK
  BY GatewayAssumption DEF Init, TypeOK, Idle, Request, None, Pools

-----------------------------------------------------------------------------
(* What the steps of a request do to it *)

\* Only the request in slot s changes, and that is what it is then.
Becomes(s, pc, kind, at, charged, sends) ==
  \E q \in Request : /\ req' = [req EXCEPT ![s] = q]
                     /\ Fields(q, pc, kind, at, charged, sends)

\* A reply frees the slot.
LEMMA ReplyEffect ==
  ASSUME NEW s \in Slots, Reply(s)
  PROVE  Becomes(s, "idle", "query", 0, 0, 0)
<1>1. Fields(Idle, "idle", "query", 0, 0, 0)
  BY IdleType DEF Fields, Idle
<1> QED
  BY <1>1 DEF Reply, Becomes, Fields

\* A request goes on and keeps its fields.
LEMMA GotoEffect ==
  ASSUME NEW s \in Slots, req \in [Slots -> Request], NEW p \in Pcs, Goto(s, p)
  PROVE  Becomes(s, p, req[s].kind, req[s].at, req[s].charged, req[s].sends)
<1> DEFINE q == [req[s] EXCEPT !.pc = p]
<1>1. Fields(q, p, req[s].kind, req[s].at, req[s].charged, req[s].sends)
  BY OwnFields, SetPc
<1>2. req' = [req EXCEPT ![s] = q]
  BY DEF Goto
<1> QED
  BY ONLY <1>1, <1>2 DEF Becomes, Fields

\* A request arrives uncharged and unsent.
LEMMA ArriveEffect ==
  ASSUME NEW s \in Slots, Arrive(s)
  PROVE  \E k \in {"query", "status"} : Becomes(s, "auth", k, 0, 0, 0)
<1>1. PICK k \in {"query", "status"}, w \in Workers :
        req' = [req EXCEPT ![s] = [Idle EXCEPT !.pc = "auth", !.kind = k, !.worker = w]]
  BY DEF Arrive
<1> DEFINE q1 == [Idle EXCEPT !.pc = "auth"]
           q2 == [q1 EXCEPT !.kind = k]
           q3 == [q2 EXCEPT !.worker = w]
<1>2. Fields(Idle, "idle", "query", 0, 0, 0)
  BY IdleType DEF Fields, Idle
<1>3. Fields(q1, "auth", "query", 0, 0, 0)
  <2>1. "auth" \in Pcs
    BY DEF Pcs
  <2> QED
    BY ONLY <1>2, <2>1, SetPc
<1> HIDE DEF q1
<1>4. Fields(q2, "auth", k, 0, 0, 0)
  BY ONLY <1>3, k \in {"query", "status"}, SetKind
<1> HIDE DEF q2
<1>5. Fields(q3, "auth", k, 0, 0, 0)
  <2>1. w \in Workers \cup {NoWorker}
    OBVIOUS
  <2> QED
    BY ONLY <1>4, <2>1, SetWorker
<1>6. req' = [req EXCEPT ![s] = q3]
  BY <1>1 DEF q1, q2, q3
<1> QED
  BY ONLY <1>5, <1>6, k \in {"query", "status"} DEF Becomes, Fields

\* A request passes authentication.
LEMMA AdmittedEffect ==
  ASSUME NEW s \in Slots, req \in [Slots -> Request], req' = [req EXCEPT ![s] = Admitted(@)]
  PROVE  Becomes(s, IF req[s].kind = "query" THEN "limit" ELSE "route", req[s].kind, 0,
                 req[s].charged, req[s].sends)
  BY AdmittedFields DEF Becomes, Fields

\* A request has its pool.
LEMMA RoutedEffect ==
  ASSUME NEW s \in Slots, req \in [Slots -> Request], req' = [req EXCEPT ![s] = Routed(@)]
  PROVE  Becomes(s, "attempt", req[s].kind, 0, req[s].charged, req[s].sends)
  BY RoutedFields DEF Becomes, Fields

\* A cache miss notes the clock.
LEMMA MissEffect ==
  ASSUME NEW s \in Slots, req \in [Slots -> Request], NEW p \in Pcs, now \in 0..MaxTime,
         req' = [req EXCEPT ![s].pc = p, ![s].at = now]
  PROVE  Becomes(s, p, req[s].kind, now, req[s].charged, req[s].sends)
<1> DEFINE q1 == [req[s] EXCEPT !.pc = p]
           q2 == [q1 EXCEPT !.at = now]
<1>1. Fields(q1, p, req[s].kind, req[s].at, req[s].charged, req[s].sends)
  BY OwnFields, SetPc
<1>2. req' = [req EXCEPT ![s] = q2]
  OBVIOUS
<1> HIDE DEF q1
<1>3. Fields(q2, p, req[s].kind, now, req[s].charged, req[s].sends)
  BY ONLY <1>1, now \in 0..MaxTime, SetAt
<1> QED
  BY ONLY <1>2, <1>3 DEF Becomes, Fields

\* The quota transaction notes the date.
LEMMA BeginEffect ==
  ASSUME NEW s \in Slots, req \in [Slots -> Request], day \in 0..MaxDay,
         req' = [req EXCEPT ![s].pc = "charge", ![s].date = day]
  PROVE  Becomes(s, "charge", req[s].kind, req[s].at, req[s].charged, req[s].sends)
<1> DEFINE q1 == [req[s] EXCEPT !.pc = "charge"]
           q2 == [q1 EXCEPT !.date = day]
<1>1. Fields(q1, "charge", req[s].kind, req[s].at, req[s].charged, req[s].sends)
  BY OwnFields, SetPc DEF Pcs
<1>2. req' = [req EXCEPT ![s] = q2]
  OBVIOUS
<1> HIDE DEF q1
<1>3. Fields(q2, "charge", req[s].kind, req[s].at, req[s].charged, req[s].sends)
  BY ONLY <1>1, day \in 0..MaxDay, SetDate
<1> QED
  BY ONLY <1>2, <1>3 DEF Becomes, Fields

\* A request is charged.
LEMMA ChargeEffect ==
  ASSUME NEW s \in Slots, req \in [Slots -> Request], req[s].charged = 0,
         req' = [req EXCEPT ![s].pc = "route", ![s].date = 0, ![s].charged = @ + 1]
  PROVE  Becomes(s, "route", req[s].kind, req[s].at, 1, req[s].sends)
<1> DEFINE q1 == [req[s] EXCEPT !.pc = "route"]
           q2 == [q1 EXCEPT !.date = 0]
           c  == q2.charged + 1
           q3 == [q2 EXCEPT !.charged = c]
<1>1. Fields(q1, "route", req[s].kind, req[s].at, req[s].charged, req[s].sends)
  BY OwnFields, SetPc DEF Pcs
<1>2. req' = [req EXCEPT ![s] = q3]
  OBVIOUS
<1> HIDE DEF q1
<1>3. Fields(q2, "route", req[s].kind, req[s].at, req[s].charged, req[s].sends)
  BY ONLY <1>1, Naughts, SetDate
<1> HIDE DEF q2
<1>4. c = 1 /\ c \in 0..2
  BY <1>3 DEF Fields
<1> HIDE DEF c
<1>5. Fields(q3, "route", req[s].kind, req[s].at, 1, req[s].sends)
  <2>1. Fields(q3, "route", req[s].kind, req[s].at, c, req[s].sends)
    BY ONLY <1>3, <1>4, SetCharged
  <2> QED
    BY ONLY <1>4, <2>1
<1> QED
  BY ONLY <1>2, <1>5 DEF Becomes, Fields

\* A request is sent.
LEMMA SendEffect ==
  ASSUME NEW s \in Slots, req \in [Slots -> Request], req[s].sends = 0,
         req' = [req EXCEPT ![s].pc = "sent", ![s].sends = @ + 1]
  PROVE  Becomes(s, "sent", req[s].kind, req[s].at, req[s].charged, 1)
<1> DEFINE q1 == [req[s] EXCEPT !.pc = "sent"]
           c  == q1.sends + 1
           q2 == [q1 EXCEPT !.sends = c]
<1>1. Fields(q1, "sent", req[s].kind, req[s].at, req[s].charged, req[s].sends)
  BY OwnFields, SetPc DEF Pcs
<1>2. req' = [req EXCEPT ![s] = q2]
  OBVIOUS
<1> HIDE DEF q1
<1>3. c = 1 /\ c \in 0..2
  BY <1>1 DEF Fields
<1> HIDE DEF c
<1>4. Fields(q2, "sent", req[s].kind, req[s].at, req[s].charged, 1)
  <2>1. Fields(q2, "sent", req[s].kind, req[s].at, req[s].charged, c)
    BY ONLY <1>1, <1>3, SetSends
  <2> QED
    BY ONLY <1>3, <2>1
<1> QED
  BY ONLY <1>2, <1>4 DEF Becomes, Fields

\* A retry costs one attempt and nothing else.
LEMMA RetryEffect ==
  ASSUME NEW s \in Slots, req \in [Slots -> Request], req[s].left > 0,
         req' = [req EXCEPT ![s].left = @ - 1]
  PROVE  Becomes(s, req[s].pc, req[s].kind, req[s].at, req[s].charged, req[s].sends)
<1> DEFINE q == [req[s] EXCEPT !.left = req[s].left - 1]
<1>1. req[s].left - 1 \in 0..Retries
  BY GatewayAssumption DEF Request
<1>2. Fields(q, req[s].pc, req[s].kind, req[s].at, req[s].charged, req[s].sends)
  BY <1>1, OwnFields, SetLeft
<1> QED
  BY <1>2 DEF Becomes, Fields

-----------------------------------------------------------------------------
(* The invariant *)

\* The invariant holds at the start.
LEMMA InvInit == Init => GatewayInv
<1> SUFFICES ASSUME Init PROVE GatewayInv
  OBVIOUS
<1>1. TypeOK
  BY TypeInit
<1>2. \A s \in Slots : req[s] = Idle
  BY DEF Init
<1>3. RequestInv /\ AuthInv
  BY <1>2 DEF RequestInv, Consistent, Idle, AuthInv, At
<1>4. ClockInv
  BY <1>2, GatewayAssumption DEF Init, ClockInv, Idle
<1>5. QuotaInv /\ DailyQuotaHolds
  BY GatewayAssumption DEF Init, QuotaInv, DailyQuotaHolds
<1>6. CachesExpire
  BY GatewayAssumption DEF Init, CachesExpire
<1> QED
  BY <1>1, <1>3, <1>4, <1>5, <1>6 DEF GatewayInv

\* A step of one request keeps what is said of all requests.
LEMMA SlotStep ==
  ASSUME GatewayInv, NEW s \in Slots, NEW pc, NEW kind, NEW at, NEW charged, NEW sends,
         Becomes(s, pc, kind, at, charged, sends),
         UNCHANGED <<now, key, revokedAt>>,
         at <= now, Consistent(pc, kind, charged, sends),
         pc = "install" => key # "absent" /\ (key = "revoked" => at <= revokedAt)
  PROVE  /\ req' \in [Slots -> Request] /\ RequestInv' /\ AuthInv'
         /\ \A t \in Slots : req'[t].at <= now'
<1>1. PICK q \in Request : req' = [req EXCEPT ![s] = q] /\ Fields(q, pc, kind, at, charged, sends)
  BY DEF Becomes
<1>2. req \in [Slots -> Request]
  BY DEF GatewayInv, TypeOK
<1>3. req' \in [Slots -> Request] /\ \A t \in Slots : req'[t] = IF t = s THEN q ELSE req[t]
  BY <1>1, <1>2
<1>4. RequestInv'
  BY <1>1, <1>3 DEF GatewayInv, RequestInv, Fields
<1>5. AuthInv'
  BY <1>1, <1>3 DEF GatewayInv, AuthInv, At, Fields
<1>6. \A t \in Slots : req'[t].at <= now'
  BY <1>1, <1>3 DEF GatewayInv, ClockInv, Fields
<1> QED
  BY <1>3, <1>4, <1>5, <1>6

\* If nothing but requests changed, the rest of the invariant stands.
LEMMA OnlyRequests ==
  ASSUME GatewayInv, UNCHANGED <<clockVars, authVars, limitVars, quotaVars, poolVars>>,
         req' \in [Slots -> Request], RequestInv', AuthInv',
         \A t \in Slots : req'[t].at <= now'
  PROVE  GatewayInv'
<1> USE DEF clockVars, authVars, limitVars, quotaVars, poolVars
<1>1. TypeOK'
  BY DEF GatewayInv, TypeOK
<1>2. ClockInv'
  BY DEF GatewayInv, ClockInv
<1>3. QuotaInv' /\ DailyQuotaHolds' /\ CachesExpire'
  BY DEF GatewayInv, QuotaInv, DailyQuotaHolds, CachesExpire
<1> QED
  BY <1>1, <1>2, <1>3 DEF GatewayInv

\* Requests that arrive, hit a cache, move on or are answered touch nothing else.
LEMMA RequestStep ==
  ASSUME GatewayInv, NEW s \in Slots,
         \/ Arrive(s) \/ AuthHit(s) \/ get_api_key_by_hash(s) \/ CheckoutTimesOut(s)
         \/ BeginConsume(s) \/ PoolHit(s) \/ ConnectFails(s) \/ ClientPoolTimesOut(s)
         \/ Send(s) \/ dp_v1_query(s) \/ DpDies(s) \/ Forward(s) \/ ReadTimesOut(s)
         \/ BrokenOff(s)
  PROVE  GatewayInv'
<1>1. UNCHANGED <<clockVars, authVars, limitVars, quotaVars, poolVars>>
  BY DEF Arrive, AuthHit, get_api_key_by_hash, CheckoutTimesOut, BeginConsume, PoolHit,
     ConnectFails, ClientPoolTimesOut, Send, dp_v1_query, DpDies, Forward, ReadTimesOut,
     BrokenOff, proxyUnchanged
<1>2. UNCHANGED <<now, key, revokedAt>>
  BY <1>1 DEF clockVars, authVars
<1>3. /\ req \in [Slots -> Request] /\ now \in 0..MaxTime /\ day \in 0..MaxDay
      /\ req[s].at <= now /\ 0 <= now
      /\ Consistent(req[s].pc, req[s].kind, req[s].charged, req[s].sends)
  BY GatewayAssumption DEF GatewayInv, TypeOK, ClockInv, RequestInv
<1>4. req[s].kind \in {"query", "status"}
  BY <1>3 DEF Request
<1> DEFINE Goal == /\ req' \in [Slots -> Request] /\ RequestInv' /\ AuthInv'
                   /\ \A t \in Slots : req'[t].at <= now'
<1>5. ASSUME Reply(s) PROVE Goal
  <2>1. Becomes(s, "idle", "query", 0, 0, 0) /\ Consistent("idle", "query", 0, 0)
    BY <1>5, ReplyEffect DEF Consistent
  <2> QED
    BY <1>2, <1>3, <2>1, SlotStep
<1>6. CASE Arrive(s)
  <2>1. PICK k \in {"query", "status"} : Becomes(s, "auth", k, 0, 0, 0)
    BY <1>6, ArriveEffect
  <2>2. Consistent("auth", k, 0, 0)
    BY DEF Consistent
  <2> QED
    BY <1>1, <1>2, <1>3, <2>1, <2>2, SlotStep, OnlyRequests
<1>7. CASE AuthHit(s)
  <2> DEFINE p == IF req[s].kind = "query" THEN "limit" ELSE "route"
  <2>1. Becomes(s, p, req[s].kind, 0, req[s].charged, req[s].sends)
    BY <1>3, <1>7, AdmittedEffect DEF AuthHit
  <2>2. Consistent(p, req[s].kind, req[s].charged, req[s].sends)
    BY <1>3, <1>4, <1>7 DEF AuthHit, At, Consistent
  <2>3. p # "install"
    OBVIOUS
  <2> HIDE DEF p
  <2> QED
    BY <1>1, <1>2, <1>3, <2>1, <2>2, <2>3, SlotStep, OnlyRequests
<1>8. CASE get_api_key_by_hash(s)
  <2>1. CASE key = "live"
    <3>1. Goto(s, "install")
      BY <1>8, <2>1 DEF get_api_key_by_hash
    <3>2. Becomes(s, "install", req[s].kind, req[s].at, req[s].charged, req[s].sends)
      BY <1>3, <3>1, GotoEffect DEF Pcs
    <3>3. Consistent("install", req[s].kind, req[s].charged, req[s].sends)
      BY <1>3, <1>8 DEF get_api_key_by_hash, At, Consistent
    <3> QED
      BY <1>1, <1>2, <1>3, <2>1, <3>2, <3>3, SlotStep, OnlyRequests
  <2>2. CASE key # "live"
    BY <1>1, <1>5, <1>8, <2>2, OnlyRequests DEF get_api_key_by_hash
  <2> QED
    BY <2>1, <2>2
<1>9. CASE \/ CheckoutTimesOut(s) \/ ClientPoolTimesOut(s) \/ Forward(s)
           \/ ReadTimesOut(s) \/ BrokenOff(s)
  BY <1>1, <1>5, <1>9, OnlyRequests DEF CheckoutTimesOut, ClientPoolTimesOut, Forward,
     ReadTimesOut, BrokenOff
<1>10. CASE BeginConsume(s)
  <2>1. Becomes(s, "charge", req[s].kind, req[s].at, req[s].charged, req[s].sends)
    BY <1>3, <1>10, BeginEffect DEF BeginConsume
  <2>2. Consistent("charge", req[s].kind, req[s].charged, req[s].sends)
    BY <1>3, <1>4, <1>10 DEF BeginConsume, At, Consistent
  <2> QED
    BY <1>1, <1>2, <1>3, <2>1, <2>2, SlotStep, OnlyRequests
<1>11. CASE PoolHit(s)
  <2>1. Becomes(s, "attempt", req[s].kind, 0, req[s].charged, req[s].sends)
    BY <1>3, <1>11, RoutedEffect DEF PoolHit
  <2>2. Consistent("attempt", req[s].kind, req[s].charged, req[s].sends)
    BY <1>3, <1>4, <1>11 DEF PoolHit, At, Consistent
  <2> QED
    BY <1>1, <1>2, <1>3, <2>1, <2>2, SlotStep, OnlyRequests
<1>12. CASE ConnectFails(s)
  <2>1. CASE req[s].left > 0
    <3>1. Becomes(s, req[s].pc, req[s].kind, req[s].at, req[s].charged, req[s].sends)
      BY <1>3, <1>12, <2>1, RetryEffect DEF ConnectFails
    <3>2. req[s].pc = "attempt"
      BY <1>12 DEF ConnectFails, At
    <3> QED
      BY <1>1, <1>2, <1>3, <3>1, <3>2, SlotStep, OnlyRequests
  <2>2. CASE ~(req[s].left > 0)
    BY <1>1, <1>5, <1>12, <2>2, OnlyRequests DEF ConnectFails
  <2> QED
    BY <2>1, <2>2
<1>13. CASE Send(s)
  <2>1. req[s].pc = "attempt" /\ req[s].sends = 0
    BY <1>3, <1>13 DEF Send, At, Consistent
  <2>2. Becomes(s, "sent", req[s].kind, req[s].at, req[s].charged, 1)
    BY <1>3, <1>13, <2>1, SendEffect DEF Send
  <2>3. Consistent("sent", req[s].kind, req[s].charged, 1)
    BY <1>3, <2>1 DEF Consistent
  <2> QED
    BY <1>1, <1>2, <1>3, <2>2, <2>3, SlotStep, OnlyRequests
<1>14. CASE dp_v1_query(s)
  <2>1. Becomes(s, "answered", req[s].kind, req[s].at, req[s].charged, req[s].sends)
    BY <1>3, <1>14, GotoEffect DEF dp_v1_query, Pcs
  <2>2. Consistent("answered", req[s].kind, req[s].charged, req[s].sends)
    BY <1>3, <1>4, <1>14 DEF dp_v1_query, At, Consistent
  <2> QED
    BY <1>1, <1>2, <1>3, <2>1, <2>2, SlotStep, OnlyRequests
<1>15. CASE DpDies(s)
  <2>1. Becomes(s, "broken", req[s].kind, req[s].at, req[s].charged, req[s].sends)
    BY <1>3, <1>15, GotoEffect DEF DpDies, Pcs
  <2>2. Consistent("broken", req[s].kind, req[s].charged, req[s].sends)
    BY <1>3, <1>4, <1>15 DEF DpDies, At, Consistent
  <2> QED
    BY <1>1, <1>2, <1>3, <2>1, <2>2, SlotStep, OnlyRequests
<1> QED
  BY <1>6, <1>7, <1>8, <1>9, <1>10, <1>11, <1>12, <1>13, <1>14, <1>15

\* The credential cache: an entry dropped, or made with the clock read before the row.
LEMMA AuthCacheStep ==
  ASSUME GatewayInv, NEW s \in Slots, AuthMiss(s) \/ AuthInstall(s)
  PROVE  GatewayInv'
<1>1. /\ UNCHANGED <<clockVars, key, edit, revokedAt, limitVars, quotaVars, poolVars>>
      /\ UNCHANGED <<now, key, revokedAt>>
  BY DEF AuthMiss, AuthInstall, clockVars
<1>2. /\ req \in [Slots -> Request] /\ now \in 0..MaxTime
      /\ req[s].at <= now /\ 0 <= now
      /\ Consistent(req[s].pc, req[s].kind, req[s].charged, req[s].sends)
  BY GatewayAssumption DEF GatewayInv, TypeOK, ClockInv, RequestInv
<1>3. req[s].kind \in {"query", "status"} /\ req[s].at \in Nat
  BY <1>2 DEF Request
<1>4. /\ req' \in [Slots -> Request] /\ RequestInv' /\ AuthInv'
      /\ \A t \in Slots : req'[t].at <= now'
  <2>1. CASE AuthMiss(s)
    <3>1. Becomes(s, "lookup", req[s].kind, now, req[s].charged, req[s].sends)
      BY <1>2, <2>1, MissEffect DEF AuthMiss, Pcs
    <3>2. Consistent("lookup", req[s].kind, req[s].charged, req[s].sends)
      BY <1>2, <2>1 DEF AuthMiss, At, Consistent
    <3> QED
      BY <1>1, <1>2, <3>1, <3>2, SlotStep
  <2>2. CASE AuthInstall(s)
    <3> DEFINE p == IF req[s].kind = "query" THEN "limit" ELSE "route"
    <3>1. Becomes(s, p, req[s].kind, 0, req[s].charged, req[s].sends)
      BY <1>2, <2>2, AdmittedEffect DEF AuthInstall
    <3>2. Consistent(p, req[s].kind, req[s].charged, req[s].sends)
      BY <1>2, <1>3, <2>2 DEF AuthInstall, At, Consistent
    <3>3. p # "install"
      OBVIOUS
    <3> HIDE DEF p
    <3> QED
      BY <1>1, <1>2, <3>1, <3>2, <3>3, SlotStep
  <2> QED
    BY <2>1, <2>2
<1>5. /\ authCache' \in [Workers -> Nat]
      /\ \A w \in Workers :
           /\ authCache'[w] <= now + AuthTtl
           /\ key = "revoked" => authCache'[w] <= revokedAt + AuthTtl
           /\ key = "absent" => authCache'[w] = 0
  <2>0. /\ authCache \in [Workers -> Nat] /\ revokedAt \in Nat
        /\ \A w \in Workers :
             /\ authCache[w] <= now + AuthTtl
             /\ key = "revoked" => authCache[w] <= revokedAt + AuthTtl
             /\ key = "absent" => authCache[w] = 0
    BY GatewayAssumption DEF GatewayInv, TypeOK, ClockInv, CachesExpire, None
  <2>1. CASE AuthMiss(s)
    <3>1. \A w \in Workers : authCache'[w] \in {authCache[w], 0}
      BY <2>0, <2>1 DEF AuthMiss
    <3>2. authCache' \in [Workers -> Nat]
      BY <2>0, <2>1 DEF AuthMiss
    <3>3. now \in Nat
      BY <1>2, GatewayAssumption
    <3> QED
      BY ONLY <2>0, <3>1, <3>2, <3>3, GatewayAssumption
  <2>2. CASE AuthInstall(s)
    <3>1. authCache' = [authCache EXCEPT ![req[s].worker] = req[s].at + AuthTtl]
      BY <2>2 DEF AuthInstall, AuthExpiry
    <3>2. key # "absent" /\ (key = "revoked" => req[s].at <= revokedAt)
      BY <2>2 DEF AuthInstall, GatewayInv, AuthInv
    <3> DEFINE e == req[s].at + AuthTtl
    <3>3. /\ e \in Nat /\ e <= now + AuthTtl
          /\ key = "revoked" => e <= revokedAt + AuthTtl
      BY <1>2, <1>3, <2>0, <3>2, GatewayAssumption
    <3> QED
      BY ONLY <2>0, <3>1, <3>2, <3>3
  <2> QED
    BY <2>1, <2>2
<1> USE DEF clockVars, limitVars, quotaVars, poolVars
<1>6. TypeOK'
  BY <1>1, <1>4, <1>5 DEF GatewayInv, TypeOK
<1>7. ClockInv'
  BY <1>1, <1>4, <1>5 DEF GatewayInv, ClockInv
<1>8. CachesExpire'
  BY <1>1, <1>5 DEF GatewayInv, CachesExpire
<1>9. QuotaInv' /\ DailyQuotaHolds'
  BY <1>1 DEF GatewayInv, QuotaInv, DailyQuotaHolds
<1> QED
  BY <1>4, <1>6, <1>7, <1>8, <1>9 DEF GatewayInv

\* The pool cache, likewise.
LEMMA PoolCacheStep ==
  ASSUME GatewayInv, NEW s \in Slots, PoolMiss(s) \/ get_tenant_dp_pool(s)
  PROVE  GatewayInv'
<1>1. /\ UNCHANGED <<clockVars, authVars, limitVars, quotaVars, pool, movedAt>>
      /\ UNCHANGED <<now, key, revokedAt>>
  BY DEF PoolMiss, get_tenant_dp_pool, clockVars, authVars
<1>2. /\ req \in [Slots -> Request] /\ now \in 0..MaxTime
      /\ req[s].at <= now /\ 0 <= now
      /\ Consistent(req[s].pc, req[s].kind, req[s].charged, req[s].sends)
  BY GatewayAssumption DEF GatewayInv, TypeOK, ClockInv, RequestInv
<1>3. req[s].kind \in {"query", "status"} /\ req[s].at \in Nat
  BY <1>2 DEF Request
<1>4. /\ req' \in [Slots -> Request] /\ RequestInv' /\ AuthInv'
      /\ \A t \in Slots : req'[t].at <= now'
  <2>1. CASE PoolMiss(s)
    <3>1. Becomes(s, "pool", req[s].kind, now, req[s].charged, req[s].sends)
      BY <1>2, <2>1, MissEffect DEF PoolMiss, Pcs
    <3>2. Consistent("pool", req[s].kind, req[s].charged, req[s].sends)
      BY <1>2, <2>1 DEF PoolMiss, At, Consistent
    <3> QED
      BY <1>1, <1>2, <3>1, <3>2, SlotStep
  <2>2. CASE get_tenant_dp_pool(s)
    <3>1. Becomes(s, "attempt", req[s].kind, 0, req[s].charged, req[s].sends)
      BY <1>2, <2>2, RoutedEffect DEF get_tenant_dp_pool
    <3>2. Consistent("attempt", req[s].kind, req[s].charged, req[s].sends)
      BY <1>2, <2>2 DEF get_tenant_dp_pool, At, Consistent
    <3> QED
      BY <1>1, <1>2, <3>1, <3>2, SlotStep
  <2> QED
    BY <2>1, <2>2
<1>5. /\ poolCache' \in [Workers -> [pool : Pools, exp : Nat]]
      /\ \A w \in Workers :
           /\ poolCache'[w].exp <= now + PoolTtl
           /\ poolCache'[w].pool # pool => poolCache'[w].exp <= movedAt + PoolTtl
  <2>0. /\ poolCache \in [Workers -> [pool : Pools, exp : Nat]]
        /\ pool \in Pools /\ movedAt \in Nat
        /\ \A w \in Workers :
             /\ poolCache[w].exp <= now + PoolTtl
             /\ poolCache[w].pool # pool => poolCache[w].exp <= movedAt + PoolTtl
    BY GatewayAssumption DEF GatewayInv, TypeOK, ClockInv, CachesExpire
  <2>1. CASE PoolMiss(s)
    <3> DEFINE w0 == req[s].worker
    <3>1. poolCache' = [poolCache EXCEPT ![w0].exp = 0]
      BY <2>1 DEF PoolMiss
    <3> HIDE DEF w0
    <3>2. \A e \in Nat : [poolCache EXCEPT ![w0].exp = e] \in [Workers -> [pool : Pools, exp : Nat]]
      BY <2>0
    <3>3. poolCache' \in [Workers -> [pool : Pools, exp : Nat]]
      BY ONLY <3>1, <3>2, 0 \in Nat
    <3>4. \A w \in Workers : poolCache'[w] = poolCache[w] \/ poolCache'[w].exp = 0
      BY <2>0, <3>1
    <3> QED
      BY ONLY <1>2, <2>0, <3>3, <3>4, GatewayAssumption
  <2>2. CASE get_tenant_dp_pool(s)
    <3> DEFINE w0 == req[s].worker
               e  == req[s].at + PoolTtl
    <3>1. poolCache' = [poolCache EXCEPT ![w0] = [pool |-> pool, exp |-> e]]
      BY <2>2 DEF get_tenant_dp_pool
    <3>2. e \in Nat /\ e <= now + PoolTtl
      BY <1>2, <1>3, GatewayAssumption
    <3> HIDE DEF w0, e
    <3> QED
      BY ONLY <2>0, <3>1, <3>2
  <2> QED
    BY <2>1, <2>2
<1> USE DEF clockVars, authVars, limitVars, quotaVars
<1>6. TypeOK'
  BY <1>1, <1>4, <1>5 DEF GatewayInv, TypeOK
<1>7. ClockInv'
  BY <1>1, <1>4, <1>5 DEF GatewayInv, ClockInv
<1>8. CachesExpire'
  BY <1>1, <1>5 DEF GatewayInv, CachesExpire
<1>9. QuotaInv' /\ DailyQuotaHolds'
  BY <1>1 DEF GatewayInv, QuotaInv, DailyQuotaHolds
<1> QED
  BY <1>4, <1>6, <1>7, <1>8, <1>9 DEF GatewayInv

\* The token bucket keeps the invariant.
LEMMA RateLimitStep ==
  ASSUME GatewayInv, NEW s \in Slots, rate_limit(s)
  PROVE  GatewayInv'
<1>1. /\ UNCHANGED <<clockVars, authVars, quotaVars, poolVars>>
      /\ UNCHANGED <<now, key, revokedAt>>
  BY DEF rate_limit, clockVars, authVars
<1>2. /\ req \in [Slots -> Request] /\ now \in 0..MaxTime
      /\ req[s].at <= now /\ 0 <= now
      /\ Consistent(req[s].pc, req[s].kind, req[s].charged, req[s].sends)
  BY GatewayAssumption DEF GatewayInv, TypeOK, ClockInv, RequestInv
<1> DEFINE w0   == req[s].worker
           have == Refilled(bucket[w0], now)
<1>3. \/ bucket' = [bucket EXCEPT ![w0] = [tokens |-> have - 1, last |-> now]] /\ have >= 1 /\ Goto(s, "begin")
      \/ bucket' = [bucket EXCEPT ![w0] = [tokens |-> have, last |-> now]] /\ Reply(s)
  BY DEF rate_limit
<1>4. /\ req' \in [Slots -> Request] /\ RequestInv' /\ AuthInv'
      /\ \A t \in Slots : req'[t].at <= now'
  <2>1. CASE Goto(s, "begin")
    <3>1. Becomes(s, "begin", req[s].kind, req[s].at, req[s].charged, req[s].sends)
      BY <1>2, <2>1, GotoEffect DEF Pcs
    <3>2. Consistent("begin", req[s].kind, req[s].charged, req[s].sends)
      BY <1>2 DEF rate_limit, At, Consistent
    <3> QED
      BY <1>1, <1>2, <3>1, <3>2, SlotStep
  <2>2. CASE Reply(s)
    <3>1. Becomes(s, "idle", "query", 0, 0, 0) /\ Consistent("idle", "query", 0, 0)
      BY <2>2, ReplyEffect DEF Consistent
    <3> QED
      BY <1>1, <1>2, <3>1, SlotStep
  <2> QED
    BY <1>3, <2>1, <2>2
<1>5. /\ bucket' \in [Workers -> [tokens : 0..Burst, last : 0..MaxTime]]
      /\ \A w \in Workers : bucket'[w].last <= now
  <2>1. /\ bucket \in [Workers -> [tokens : 0..Burst, last : 0..MaxTime]]
        /\ \A w \in Workers : bucket[w].last <= now
    BY DEF GatewayInv, TypeOK, ClockInv
  <2>2. CASE w0 \notin Workers
    <3>1. bucket' = bucket
      BY <1>3, <2>1, <2>2
    <3> QED
      BY <2>1, <3>1
  <2>3. CASE w0 \in Workers
    <3>1. have \in 0..Burst
      BY <1>2, <2>1, <2>3, RefilledType
    <3> HIDE DEF have, w0
    <3>2. PICK n \in 0..Burst : bucket' = [bucket EXCEPT ![w0] = [tokens |-> n, last |-> now]]
      BY <1>3, <3>1, GatewayAssumption
    <3>3. now \in 0..MaxTime /\ now <= now
      BY <1>2, GatewayAssumption
    <3>4. bucket' \in [Workers -> [tokens : 0..Burst, last : 0..MaxTime]]
      BY ONLY <2>1, <3>2, <3>3
    <3>5. \A w \in Workers : bucket'[w].last \in {bucket[w].last, now}
      BY ONLY <2>1, <3>2
    <3> QED
      BY ONLY <2>1, <3>3, <3>4, <3>5
  <2> QED
    BY <2>2, <2>3
<1> USE DEF clockVars, authVars, poolVars, quotaVars
<1>6. TypeOK'
  BY <1>1, <1>4, <1>5 DEF GatewayInv, TypeOK
<1>7. ClockInv'
  BY <1>1, <1>4, <1>5 DEF GatewayInv, ClockInv
<1>8. CachesExpire' /\ QuotaInv' /\ DailyQuotaHolds'
  BY <1>1 DEF GatewayInv, CachesExpire, QuotaInv, DailyQuotaHolds
<1> QED
  BY <1>4, <1>6, <1>7, <1>8 DEF GatewayInv

\* The count of a day goes up by one query, or starts again on a later day.
LEMMA ConsumeStep ==
  ASSUME GatewayInv, NEW s \in Slots, try_consume_query(s)
  PROVE  GatewayInv'
<1>1. /\ UNCHANGED <<clockVars, authVars, limitVars, poolVars>>
      /\ UNCHANGED <<now, key, revokedAt>>
  BY DEF try_consume_query, clockVars, authVars
<1>2. /\ req \in [Slots -> Request] /\ now \in 0..MaxTime
      /\ req[s].at <= now /\ 0 <= now
      /\ Consistent(req[s].pc, req[s].kind, req[s].charged, req[s].sends)
  BY GatewayAssumption DEF GatewayInv, TypeOK, ClockInv, RequestInv
<1>3. req[s].kind \in {"query", "status"} /\ req[s].date \in 0..MaxDay
  BY <1>2 DEF Request
<1>4. req[s].charged = 0 /\ req[s].kind = "query" /\ req[s].sends = 0
  BY <1>2, <1>3 DEF try_consume_query, At, Consistent
<1> DEFINE r == DailyReset(row, req[s].date)
<1>5. /\ row \in [today : 0..DailyQuota, reset : 0..MaxDay]
      /\ granted \in [0..MaxDay -> Nat]
      /\ granted[row.reset] = row.today
      /\ \A d \in 0..MaxDay : granted[d] <= DailyQuota /\ (d > row.reset => granted[d] = 0)
  BY DEF GatewayInv, TypeOK, QuotaInv, DailyQuotaHolds
<1>6. /\ r.today \in 0..DailyQuota /\ r.reset \in 0..MaxDay
      /\ r = [today |-> r.today, reset |-> r.reset]
      /\ granted[r.reset] = r.today
      /\ \A d \in 0..MaxDay : d > r.reset => granted[d] = 0
  <2>1. CASE row.reset < req[s].date
    <3>1. r = [today |-> 0, reset |-> req[s].date]
      BY <2>1 DEF DailyReset
    <3> QED
      BY ONLY <1>3, <1>5, <2>1, <3>1, GatewayAssumption, SMTT(30)
  <2>2. CASE ~(row.reset < req[s].date)
    <3>1. r = row
      BY <2>2 DEF DailyReset
    <3> QED
      BY <1>5, <3>1
  <2> QED
    BY <2>1, <2>2
<1>7. \/ /\ r.today < DailyQuota
         /\ row' = [r EXCEPT !.today = @ + 1]
         /\ granted' = [granted EXCEPT ![r.reset] = @ + 1]
         /\ req' = [req EXCEPT ![s].pc = "route", ![s].date = 0, ![s].charged = @ + 1]
      \/ row' = r /\ granted' = granted /\ Reply(s)
  BY DEF try_consume_query
<1> HIDE DEF r
<1>8. /\ req' \in [Slots -> Request] /\ RequestInv' /\ AuthInv'
      /\ \A t \in Slots : req'[t].at <= now'
  <2>1. CASE req' = [req EXCEPT ![s].pc = "route", ![s].date = 0, ![s].charged = @ + 1]
    <3>1. Becomes(s, "route", req[s].kind, req[s].at, 1, req[s].sends)
      BY <1>2, <1>4, <2>1, ChargeEffect
    <3>2. Consistent("route", req[s].kind, 1, req[s].sends)
      BY <1>4 DEF Consistent
    <3> QED
      BY <1>1, <1>2, <3>1, <3>2, SlotStep
  <2>2. CASE Reply(s)
    <3>1. Becomes(s, "idle", "query", 0, 0, 0) /\ Consistent("idle", "query", 0, 0)
      BY <2>2, ReplyEffect DEF Consistent
    <3> QED
      BY <1>1, <1>2, <3>1, SlotStep
  <2> QED
    BY <1>7, <2>1, <2>2
<1>9. /\ row' \in [today : 0..DailyQuota, reset : 0..MaxDay]
      /\ granted' \in [0..MaxDay -> Nat]
      /\ granted'[row'.reset] = row'.today
      /\ \A d \in 0..MaxDay : granted'[d] <= DailyQuota /\ (d > row'.reset => granted'[d] = 0)
  <2>1. CASE /\ r.today < DailyQuota
             /\ row' = [r EXCEPT !.today = @ + 1]
             /\ granted' = [granted EXCEPT ![r.reset] = @ + 1]
    <3>1. row' = [today |-> r.today + 1, reset |-> r.reset]
      BY ONLY <1>6, <2>1
    <3>2. r.today + 1 \in 0..DailyQuota
      BY ONLY <1>6, <2>1, GatewayAssumption
    <3>3. row'.today = r.today + 1 /\ row'.reset = r.reset
      BY <3>1
    <3>4. row' \in [today : 0..DailyQuota, reset : 0..MaxDay]
      BY ONLY <1>6, <3>1, <3>2
    <3>5. /\ granted[r.reset] = r.today /\ r.reset \in 0..MaxDay
          /\ \A d \in 0..MaxDay : granted'[d] = IF d = r.reset THEN r.today + 1 ELSE granted[d]
      BY ONLY <1>5, <1>6, <2>1
    <3>6. granted' \in [0..MaxDay -> Nat]
      BY ONLY <1>5, <1>6, <2>1, GatewayAssumption, SMTT(30)
    <3>7. granted'[row'.reset] = row'.today
      BY ONLY <3>3, <3>5
    <3>8. \A d \in 0..MaxDay : granted'[d] <= DailyQuota /\ (d > row'.reset => granted'[d] = 0)
      BY ONLY <1>5, <1>6, <3>2, <3>3, <3>5, GatewayAssumption, SMTT(30)
    <3> QED
      BY ONLY <3>4, <3>6, <3>7, <3>8
  <2>2. CASE row' = r /\ granted' = granted
    BY <1>5, <1>6, <2>2
  <2> QED
    BY <1>7, <2>1, <2>2
<1> USE DEF clockVars, authVars, poolVars, limitVars
<1>10. TypeOK'
  BY <1>1, <1>8, <1>9 DEF GatewayInv, TypeOK
<1>11. ClockInv'
  BY <1>1, <1>8 DEF GatewayInv, ClockInv
<1>12. CachesExpire'
  BY <1>1 DEF GatewayInv, CachesExpire
<1>13. QuotaInv' /\ DailyQuotaHolds'
  BY <1>9 DEF QuotaInv, DailyQuotaHolds
<1> QED
  BY <1>8, <1>10, <1>11, <1>12, <1>13 DEF GatewayInv

\* Keys are made and revoked, the tenant moves, time passes.
LEMMA OtherStep ==
  ASSUME GatewayInv,
         \/ create_key \/ (\E w \in Workers \cup {Elsewhere} : revoke_key(w))
         \/ finish_request_conn \/ MovePool \/ Tick \/ Midnight \/ UNCHANGED vars
  PROVE  GatewayInv'
<1> USE GatewayAssumption DEF clockVars, authVars, limitVars, quotaVars, poolVars
<1>1. req' = req /\ row' = row /\ granted' = granted /\ bucket' = bucket /\ poolCache' = poolCache
  BY DEF create_key, revoke_key, finish_request_conn, MovePool, Tick, Midnight, vars
<1>2. /\ now \in Nat /\ now' \in 0..MaxTime /\ now <= now' /\ day' \in 0..MaxDay
  <2>1. now \in 0..MaxTime /\ day \in 0..MaxDay
    BY DEF GatewayInv, TypeOK
  <2>2. \/ now' = now /\ day' = day
        \/ now < MaxTime /\ now' = now + 1 /\ day' = day
        \/ day < MaxDay /\ day' = day + 1 /\ now' = now
    BY DEF create_key, revoke_key, finish_request_conn, MovePool, Tick, Midnight, vars
  <2> QED
    BY ONLY <2>1, <2>2, GatewayAssumption
<1>3. /\ req \in [Slots -> Request]
      /\ \A s \in Slots : req[s].at \in Nat /\ req[s].at <= now
  <2>1. now \in 0..MaxTime /\ req \in [Slots -> Request] /\ \A s \in Slots : req[s].at <= now
    BY ONLY GatewayInv DEF GatewayInv, TypeOK, ClockInv
  <2> QED
    BY ONLY <2>1, GatewayAssumption DEF Request
<1>4. /\ authCache \in [Workers -> Nat] /\ movedAt \in 0..MaxTime /\ revokedAt \in 0..None
      /\ pool \in Pools
      /\ key \in {"absent", "live", "revoked"} /\ edit \in {"none", "create", "revoke"}
      /\ \A w \in Workers :
           /\ poolCache[w].exp \in Nat /\ poolCache[w].pool \in Pools
           /\ bucket[w].last \in Nat /\ bucket[w].last <= now
           /\ authCache[w] <= now + AuthTtl
           /\ poolCache[w].exp <= now + PoolTtl
  <2>1. /\ TypeOK /\ ClockInv
    BY ONLY GatewayInv DEF GatewayInv
  <2>2. /\ authCache \in [Workers -> Nat] /\ movedAt \in 0..MaxTime /\ revokedAt \in 0..None
        /\ pool \in Pools
        /\ key \in {"absent", "live", "revoked"} /\ edit \in {"none", "create", "revoke"}
        /\ poolCache \in [Workers -> [pool : Pools, exp : Nat]]
        /\ bucket \in [Workers -> [tokens : 0..Burst, last : 0..MaxTime]]
    BY ONLY <2>1 DEF TypeOK
  <2>3. \A w \in Workers : /\ bucket[w].last <= now
                           /\ authCache[w] <= now + AuthTtl
                           /\ poolCache[w].exp <= now + PoolTtl
    BY ONLY <2>1 DEF ClockInv
  <2>4. \A w \in Workers : /\ poolCache[w].exp \in Nat /\ poolCache[w].pool \in Pools
                           /\ bucket[w].last \in Nat
    BY ONLY <2>2
  <2> QED
    BY ONLY <2>2, <2>3, <2>4
<1>5. /\ key' \in {"absent", "live", "revoked"} /\ edit' \in {"none", "create", "revoke"}
      /\ authCache' \in [Workers -> Nat]
      /\ \A w \in Workers : authCache'[w] \in {authCache[w], 0}
  BY <1>4 DEF create_key, revoke_key, Bust, RequestScoped, finish_request_conn, MovePool, Tick,
     Midnight, vars
<1>6. \/ key' \in {key, "live"} /\ revokedAt' = revokedAt /\ (key = "live" => key' = "live")
         /\ (key' = "absent" => key = "absent") /\ (key' = "revoked" => key = "revoked")
      \/ key' = "revoked" /\ revokedAt' = now /\ now' = now
  BY <1>4 DEF create_key, revoke_key, finish_request_conn, MovePool, Tick, Midnight, vars
<1>7. \/ pool' = pool /\ movedAt' = movedAt
      \/ pool' = "dedicated" /\ movedAt' = now /\ now' = now
  BY DEF create_key, revoke_key, finish_request_conn, MovePool, Tick, Midnight, vars
<1>8. TypeOK'
  <2>1. revokedAt' \in 0..None /\ movedAt' \in 0..MaxTime /\ pool' \in Pools
    BY <1>2, <1>4, <1>6, <1>7 DEF None, Pools
  <2> QED
    BY <1>1, <1>2, <1>5, <2>1 DEF GatewayInv, TypeOK
<1>9. ClockInv'
  <2>1. now' \in Nat
    BY <1>2
  <2> QED
    BY <1>1, <1>2, <1>3, <1>4, <1>5, <2>1 DEF ClockInv
<1>10. AuthInv'
  BY <1>1, <1>3, <1>4, <1>6 DEF GatewayInv, AuthInv, At
<1>11. CachesExpire'
  <2> SUFFICES ASSUME NEW w \in Workers
               PROVE  /\ key' = "revoked" => authCache'[w] <= revokedAt' + AuthTtl
                      /\ key' = "absent" => authCache'[w] = 0
                      /\ poolCache'[w].pool # pool' => poolCache'[w].exp <= movedAt' + PoolTtl
    BY DEF CachesExpire
  <2>1. /\ key = "revoked" => authCache[w] <= revokedAt + AuthTtl
        /\ key = "absent" => authCache[w] = 0
        /\ poolCache[w].pool # pool => poolCache[w].exp <= movedAt + PoolTtl
    BY DEF GatewayInv, CachesExpire
  <2>2. key' = "revoked" => authCache'[w] <= revokedAt' + AuthTtl
    BY <1>2, <1>4, <1>5, <1>6, <2>1 DEF None
  <2>3. key' = "absent" => authCache'[w] = 0
    BY <1>5, <1>6, <2>1
  <2>4. poolCache'[w].pool # pool' => poolCache'[w].exp <= movedAt' + PoolTtl
    BY <1>1, <1>4, <1>7, <2>1
  <2> QED
    BY <2>2, <2>3, <2>4
<1>12. QuotaInv' /\ DailyQuotaHolds' /\ RequestInv'
  BY <1>1 DEF GatewayInv, QuotaInv, DailyQuotaHolds, RequestInv
<1> QED
  BY <1>8, <1>9, <1>10, <1>11, <1>12 DEF GatewayInv

\* Every step keeps the invariant.
LEMMA InvStep == GatewayInv /\ [Next]_vars => GatewayInv'
  BY RequestStep, AuthCacheStep, PoolCacheStep, RateLimitStep, ConsumeStep, OtherStep
  DEF Next, ProxyStep

\* The inductive invariant: the types, the notes of the clock, the rows read before a
\* revocation, the ledger of the days, and what each request was charged.
LEMMA Invariance == Spec => []GatewayInv
  BY InvInit, InvStep, PTL DEF Spec

\* However many worker processes cache a credential or a pool, and wherever lookups of
\* the old row are in progress, no entry outlives its time to live after the key was
\* revoked (_resolve_api_key) or the tenant moved (get_tenant_dp_pool_cached).
THEOREM RevocationReachesEveryCache == Spec => []CachesExpire
<1>1. GatewayInv => CachesExpire
  BY DEF GatewayInv
<1> QED
  BY <1>1, Invariance, PTL

\* Quota transactions that began before midnight and commit after it never let a day
\* grant more than the tenant's daily quota (try_consume_query).
THEOREM QuotaAcrossMidnight == Spec => []DailyQuotaHolds
<1>1. GatewayInv => DailyQuotaHolds
  BY DEF GatewayInv
<1> QED
  BY <1>1, Invariance, PTL

\* A query is sent at most once, never without its unit of quota and never for two, with
\* any number of requests, retries, timeouts and dying data planes (_proxy).
THEOREM SentOnceChargedOnce == Spec => []ForwardedAtMostOnce
<1>1. GatewayInv => ForwardedAtMostOnce
  BY DEF GatewayInv, RequestInv, Consistent, ForwardedAtMostOnce
<1> QED
  BY <1>1, Invariance, PTL
-----------------------------------------------------------------------------
(* The data planes: DataPlaneFleet.  That no migration is executed twice     *)
(* rests on the advisory lock: what a transaction found applied when it took *)
(* the lock is still what the database says when it commits, because only    *)
(* the holder commits.                                                       *)

Applying(d) ==
  [pc : {"applying"}, db : {d}, applied : SUBSET Versions, done : SUBSET Versions]

Boots == {Down, [pc |-> "up"], [pc |-> "finished"]}
           \cup {Migrating(d) : d \in Databases} \cup UNION {Applying(d) : d \in Databases}

SchemaType ==
  /\ ledger \in [Databases -> {<<>>, <<Versions>>}]
  /\ ran \in [Databases -> [Versions -> Nat]]
  /\ mlock \in [Databases -> Starters \cup {NoProc}]
  /\ boot \in [Starters -> Boots]

Untouched(d) == \A v \in Versions : ran[d][v] = 0

\* No migration was executed twice, and none before a lower one.
OnceInOrder ==
  \A d \in Databases, v \in Versions :
    /\ ran[d][v] <= 1
    /\ ran[d][v] = 1 => \A w \in Versions : w < v => ran[d][w] = 1

\* Without a ledger, only the control database can have been migrated.
FreshRecall == ledger["recall"] = <<>> => Untouched("recall")

\* A transaction that applies migrations holds the lock, and what it found applied
\* is still what it would find.
HolderIsCurrent ==
  \A p \in Starters :
    boot[p].pc = "applying" =>
      /\ mlock[boot[p].db] = p
      /\ boot[p].applied = Applied(boot[p].db)
      /\ boot[p].done \cap boot[p].applied = {}

FleetInv == SchemaType /\ OnceInOrder /\ FreshRecall /\ HolderIsCurrent

\* The steps that leave the schema, the lock and every process's place alone.
SchemaUntouched == UNCHANGED <<ledger, ran, legacy, mlock, boot>>

\* Steps of running data planes do not touch schema or ledger.
LEMMA SchemaUntouchedKeeps == FleetInv /\ SchemaUntouched => FleetInv'
  BY DEF FleetInv, SchemaUntouched, SchemaType, OnceInOrder, FreshRecall, HolderIsCurrent,
         Untouched, Applied, Legacy

\* Where a process can be, and what the states have in common.
LEMMA BootForms ==
  ASSUME SchemaType, NEW p \in Starters
  PROVE  /\ boot[p] \in Boots
         /\ boot[p].pc = "migrating" => \E d \in Databases : boot[p] = Migrating(d)
         /\ boot[p].pc = "applying" => \E d \in Databases : boot[p] \in Applying(d)
  BY DEF SchemaType, Boots, Down, Migrating, Applying

\* The state of a transaction that has the lock.
LEMMA ApplyingForm ==
  ASSUME NEW d \in Databases, NEW a \in SUBSET Versions, NEW n \in SUBSET Versions
  PROVE  [pc |-> "applying", db |-> d, applied |-> a, done |-> n] \in Boots
  BY DEF Boots, Applying

\* A database is fresh or all its migrations are found applied.
LEMMA AllOrNothing ==
  ASSUME FleetInv, NEW d \in Databases
  PROVE  \/ Applied(d) = Versions
         \/ Applied(d) = {} /\ Untouched(d)
<1>1. CASE ledger[d] # <<>>
  BY <1>1 DEF FleetInv, SchemaType, Applied
<1>2. CASE ledger[d] = <<>> /\ Legacy(d)
  BY <1>2 DEF Applied
<1>3. CASE ledger[d] = <<>> /\ ~Legacy(d)
  <2>1. Applied(d) = {}
    BY <1>3 DEF Applied
  <2>2. Untouched(d)
    BY <1>3 DEF FleetInv, SchemaType, FreshRecall, Legacy, Untouched, Databases
  <2> QED BY <2>1, <2>2
<1> QED BY <1>1, <1>2, <1>3

\* The invariant holds at the start.
LEMMA FleetStarts == FleetInit => FleetInv
<1> SUFFICES ASSUME FleetInit PROVE FleetInv OBVIOUS
<1> PICK depth \in LegacyDepths : legacy = {v \in Versions : v <= depth}
  BY DEF FleetInit
<1>0. depth \in Nat /\ \A v \in Versions : v \in Nat
  BY DepthsAssumption, VersionsAssumption
<1>1. SchemaType
  BY DEF FleetInit, SchemaType, Boots, Databases
<1>2. OnceInOrder
  BY <1>0 DEF FleetInit, OnceInOrder, Databases
<1>3. FreshRecall
  BY DEF FleetInit, FreshRecall, Untouched, Databases
<1>4. HolderIsCurrent
  BY DEF FleetInit, HolderIsCurrent, Down
<1> QED BY <1>1, <1>2, <1>3, <1>4 DEF FleetInv

\* A process moves on without touching database or lock.
LEMMA MoveKeeps ==
  ASSUME FleetInv, NEW p \in Starters, NEW b \in Boots,
         boot' = [boot EXCEPT ![p] = b], UNCHANGED <<ledger, ran>>,
         \/ b.pc # "applying" /\ mlock' = mlock
         \/ b.pc # "applying" /\ mlock' = Unlocked(p)
         \/ /\ b.pc = "applying" /\ mlock' = mlock /\ mlock[b.db] = p
            /\ b.applied = Applied(b.db) /\ b.done \cap b.applied = {}
         \/ /\ b.pc = "applying" /\ mlock[b.db] = NoProc
            /\ b.db \in Databases /\ mlock' = [mlock EXCEPT ![b.db] = p]
            /\ b.applied = Applied(b.db) /\ b.done \cap b.applied = {}
  PROVE  FleetInv'
<1>1. SchemaType'
  BY DEF FleetInv, SchemaType, Unlocked
<1>2. OnceInOrder' /\ FreshRecall'
  BY DEF FleetInv, OnceInOrder, FreshRecall, Untouched
<1>3. \A d : Applied(d)' = Applied(d)
  BY DEF Applied, Legacy
<1>4. HolderIsCurrent'
  <2> SUFFICES ASSUME NEW q \in Starters, boot'[q].pc = "applying"
               PROVE  /\ mlock'[boot'[q].db] = q
                      /\ boot'[q].applied = Applied(boot'[q].db)
                      /\ boot'[q].done \cap boot'[q].applied = {}
    BY <1>3 DEF HolderIsCurrent
  <2>0. q # NoProc
    BY ProcsAssumption DEF Starters
  <2>1. CASE q = p
    <3>1. boot'[q] = b
      BY <2>1 DEF FleetInv, SchemaType
    <3> QED BY <3>1, <2>1 DEF FleetInv, SchemaType
  <2>2. CASE q # p
    <3>1. boot'[q] = boot[q]
      BY <2>2 DEF FleetInv, SchemaType
    <3>2. /\ mlock[boot[q].db] = q
          /\ boot[q].applied = Applied(boot[q].db)
          /\ boot[q].done \cap boot[q].applied = {}
      BY <3>1 DEF FleetInv, HolderIsCurrent
    <3>3. boot[q].db \in Databases
      BY <3>1, BootForms DEF FleetInv, Applying
    <3>4. mlock'[boot[q].db] = q
      BY <2>0, <2>2, <3>2, <3>3 DEF Unlocked, FleetInv, SchemaType
    <3> QED BY <3>1, <3>2, <3>4
  <2> QED BY <2>1, <2>2
<1> QED BY <1>1, <1>2, <1>4 DEF FleetInv

\* A commit executes what was missing, which is nothing or everything.
LEMMA CommitKeeps ==
  ASSUME FleetInv, NEW p \in Starters, CommitMigrations(p)
  PROVE  /\ FleetInv'
         /\ \E d \in Databases :
              /\ boot[p].pc = "applying" /\ boot[p].db = d
              /\ boot'[p] = AfterCommit(p, d)
              /\ \A q \in Starters : q # p => boot'[q] = boot[q]
              /\ \A e \in Databases : e # d => ran'[e] = ran[e] /\ ledger'[e] = ledger[e]
              /\ Applied(d) = Versions => ran'[d] = ran[d]
              /\ Applied(d) # Versions => \A v \in Versions : ran'[d][v] = 1
              /\ ledger'[d] = <<Versions>>
              /\ legacy' = legacy
<1> PICK d \in Databases : boot[p] \in Applying(d)
  BY BootForms DEF CommitMigrations, FleetInv
<1>1. /\ boot[p].pc = "applying" /\ boot[p].db = d
      /\ boot[p].applied = Applied(d) /\ mlock[d] = p
      /\ boot[p].done \cap boot[p].applied = {}
      /\ boot[p].done \subseteq Versions
  BY DEF Applying, FleetInv, HolderIsCurrent
<1>2. boot[p].applied \cup boot[p].done = Versions
  BY DEF CommitMigrations
<1>3. /\ ledger' = [ledger EXCEPT ![d] = <<Versions>>]
      /\ ran' = [ran EXCEPT ![d] =
              [v \in Versions |-> ran[d][v] + IF v \in boot[p].done THEN 1 ELSE 0]]
      /\ boot' = [boot EXCEPT ![p] = AfterCommit(p, d)]
      /\ mlock' = Unlocked(p)
  BY <1>1 DEF CommitMigrations
<1>4. AfterCommit(p, d) \in Boots /\ AfterCommit(p, d).pc # "applying"
  BY DEF AfterCommit, Boots, Databases, Starters, Migrating
<1>5. ran[d] \in [Versions -> Nat]
  BY DEF FleetInv, SchemaType
<1>6. Applied(d) = Versions => ran'[d] = ran[d]
  <2> SUFFICES ASSUME Applied(d) = Versions PROVE ran'[d] = ran[d] OBVIOUS
  <2>1. \A v \in Versions : ran[d][v] + (IF v \in boot[p].done THEN 1 ELSE 0) = ran[d][v]
    BY <1>1, <1>5
  <2> QED BY <1>3, <2>1, <1>5 DEF FleetInv, SchemaType
<1>7. Applied(d) # Versions => \A v \in Versions : ran'[d][v] = 1
  <2> SUFFICES ASSUME Applied(d) # Versions PROVE \A v \in Versions : ran'[d][v] = 1
    OBVIOUS
  <2>1. Applied(d) = {} /\ Untouched(d)
    BY AllOrNothing
  <2>2. \A v \in Versions : ran[d][v] + (IF v \in boot[p].done THEN 1 ELSE 0) = 1
    BY <1>1, <1>2, <2>1 DEF Untouched
  <2> QED BY <1>3, <2>2 DEF FleetInv, SchemaType
<1>8. \A e \in Databases : e # d => ran'[e] = ran[e] /\ ledger'[e] = ledger[e]
  BY <1>3 DEF FleetInv, SchemaType
<1>9. ledger'[d] = <<Versions>>
  BY <1>3 DEF FleetInv, SchemaType
<1>10. \A q \in Starters : boot'[q] = IF q = p THEN AfterCommit(p, d) ELSE boot[q]
  BY <1>3 DEF FleetInv, SchemaType
<1>11. SchemaType'
  <2>1. ran' \in [Databases -> [Versions -> Nat]]
    <3>1. [v \in Versions |-> ran[d][v] + IF v \in boot[p].done THEN 1 ELSE 0]
             \in [Versions -> Nat]
      BY <1>5
    <3> QED BY <3>1, <1>3 DEF FleetInv, SchemaType
  <2>2. mlock' \in [Databases -> Starters \cup {NoProc}]
    BY <1>3 DEF FleetInv, SchemaType, Unlocked
  <2> QED BY <1>3, <1>4, <2>1, <2>2 DEF FleetInv, SchemaType
<1>12. OnceInOrder'
  <2> SUFFICES ASSUME NEW e \in Databases, NEW v \in Versions
               PROVE  /\ ran'[e][v] <= 1
                      /\ ran'[e][v] = 1 => \A w \in Versions : w < v => ran'[e][w] = 1
    BY DEF OnceInOrder
  <2>1. CASE ran'[e] = ran[e]
    BY <2>1 DEF FleetInv, OnceInOrder
  <2>2. CASE \A w \in Versions : ran'[e][w] = 1
    BY <2>2
  <2> QED BY <1>6, <1>7, <1>8, <2>1, <2>2
<1>13. FreshRecall'
  <2> SUFFICES ASSUME ledger'["recall"] = <<>> PROVE Untouched("recall")'
    BY DEF FreshRecall
  <2>1. d # "recall"
    <3>1. <<Versions>> # <<>>
      OBVIOUS
    <3> QED BY ONLY <1>9, <3>1, ledger'["recall"] = <<>>
  <2>2. ran'["recall"] = ran["recall"] /\ ledger["recall"] = <<>>
    BY <2>1, <1>8 DEF Databases
  <2> QED BY <2>2 DEF FleetInv, FreshRecall, Untouched
<1>14. HolderIsCurrent'
  <2> SUFFICES ASSUME NEW q \in Starters, boot'[q].pc = "applying"
               PROVE  \E e : /\ e = boot'[q].db /\ mlock'[e] = q
                             /\ boot'[q].applied = Applied(e)'
                             /\ boot'[q].done \cap boot'[q].applied = {}
    BY DEF HolderIsCurrent, Applied, Legacy
  <2>1. q # p /\ boot'[q] = boot[q]
    BY <1>4, <1>10
  <2> PICK e \in Databases : boot[q] \in Applying(e)
    BY <2>1, BootForms DEF FleetInv
  <2>2. /\ boot[q].db = e /\ mlock[e] = q /\ boot[q].applied = Applied(e)
        /\ boot[q].done \cap boot[q].applied = {}
    BY <2>1 DEF FleetInv, HolderIsCurrent, Applying
  <2>3. e # d
    BY <1>1, <2>1, <2>2
  <2>4. Applied(e)' = Applied(e)
    BY <1>8, <2>3 DEF Applied, Legacy
  <2>5. mlock'[e] = q
    BY <1>3, <2>1, <2>2 DEF Unlocked
  <2> QED BY <2>1, <2>2, <2>4, <2>5
<1>15. legacy' = legacy
  BY DEF CommitMigrations
<1> QED BY <1>1, <1>6, <1>7, <1>8, <1>9, <1>10, <1>11, <1>12, <1>13, <1>14, <1>15
        DEF FleetInv

\* Every step keeps the invariant.
LEMMA FleetKept == FleetInv /\ [FleetNext]_fleetVars => FleetInv'
<1> SUFFICES ASSUME FleetInv, [FleetNext]_fleetVars PROVE FleetInv' OBVIOUS
<1>1. ASSUME NEW p \in Starters, Start(p) PROVE FleetInv'
  <2>1. Migrating("control") \in Boots /\ Migrating("control").pc # "applying"
    BY DEF Boots, Databases, Migrating
  <2> QED BY <1>1, <2>1, MoveKeeps DEF Start, schemaVars
<1>2. ASSUME NEW p \in Starters, MigrationStep(p) PROVE FleetInv'
  <2>1. CASE LockAndReadLedger(p)
    <3> PICK d \in Databases : boot[p] = Migrating(d)
      BY <2>1, BootForms DEF LockAndReadLedger, FleetInv
    <3> DEFINE b == [pc |-> "applying", db |-> d, applied |-> Applied(d), done |-> {}]
    <3>1. boot[p].db = d
      BY DEF Migrating
    <3>2. Applied(d) \subseteq Versions
      BY AllOrNothing
    <3>3. b \in Boots
      BY <3>2, ApplyingForm
    <3>4. /\ boot' = [boot EXCEPT ![p] = b] /\ mlock' = [mlock EXCEPT ![d] = p]
          /\ mlock[d] = NoProc /\ UNCHANGED <<ledger, ran>>
      BY <2>1, <3>1 DEF LockAndReadLedger
    <3> QED BY <3>3, <3>4, MoveKeeps
  <2>2. CASE ApplyNext(p)
    <3> PICK d \in Databases : boot[p] \in Applying(d)
      BY <2>2, BootForms DEF ApplyNext, FleetInv
    <3> PICK v \in Versions \ (boot[p].applied \cup boot[p].done) :
           boot' = [boot EXCEPT ![p].done = @ \cup {v}]
      BY <2>2 DEF ApplyNext
    <3> DEFINE b == [boot[p] EXCEPT !.done = @ \cup {v}]
    <3>1. b \in Applying(d)
      BY DEF Applying
    <3>2. b \in Boots
      BY <3>1 DEF Boots
    <3>3. boot' = [boot EXCEPT ![p] = b]
      BY DEF FleetInv, SchemaType
    <3>4. /\ mlock[boot[p].db] = p /\ boot[p].applied = Applied(boot[p].db)
          /\ boot[p].done \cap boot[p].applied = {}
      BY <2>2 DEF ApplyNext, FleetInv, HolderIsCurrent
    <3>5. /\ b.pc = "applying" /\ b.db = boot[p].db /\ b.applied = boot[p].applied
          /\ b.done \cap b.applied = {}
      BY <3>4 DEF Applying
    <3>6. UNCHANGED <<ledger, ran, mlock>>
      BY <2>2 DEF ApplyNext, schemaVars
    <3> QED BY <3>2, <3>3, <3>4, <3>5, <3>6, MoveKeeps
  <2>3. CASE CommitMigrations(p)
    BY <2>3, CommitKeeps
  <2> QED BY <1>2, <2>1, <2>2, <2>3 DEF MigrationStep
<1>3. ASSUME NEW p \in Starters, Gone(p) PROVE FleetInv'
  <2>1. Down \in Boots /\ Down.pc # "applying"
    BY DEF Boots, Down
  <2> QED BY <1>3, <2>1, MoveKeeps DEF Gone
<1>4. ASSUME NEW p \in Procs, _reconcile_once(p) \/ CycleFails(p) PROVE FleetInv'
  <2>1. SchemaUntouched
    BY <1>4 DEF _reconcile_once, CycleFails, ReconcileSnapshot, dp_id, WriteOne,
                CycleDone, _resolve, CreateFile, _write_persisted, SchemaUntouched, schemaVars
  <2> QED BY <2>1, SchemaUntouchedKeeps
<1>5. ASSUME NEW p \in Procs, NEW u \in Uris,
             Admit(p, u) \/ Evict(p, u) \/ _dispatch_one(p, u)
      PROVE  FleetInv'
  <2>1. SchemaUntouched
    BY <1>5 DEF Admit, Evict, _dispatch_one, SchemaUntouched, schemaVars
  <2> QED BY <2>1, SchemaUntouchedKeeps
<1>6. ASSUME NEW u \in Uris, PublishPrewarm(u) PROVE FleetInv'
  <2>1. SchemaUntouched
    BY <1>6 DEF PublishPrewarm, SchemaUntouched, schemaVars
  <2> QED BY <2>1, SchemaUntouchedKeeps
<1>7. CASE UNCHANGED fleetVars
  <2>1. SchemaUntouched
    BY <1>7 DEF fleetVars, SchemaUntouched, schemaVars
  <2> QED BY <2>1, SchemaUntouchedKeeps
<1>8. \A p \in Procs : p \in Starters
  BY DEF Starters
<1> QED BY <1>1, <1>2, <1>3, <1>4, <1>5, <1>6, <1>7, <1>8
        DEF FleetNext, migrate, _apply_migrations, _apply_recall_migrations, Dies, on_stop

\* However many processes start, die and start again at once, and however far a
\* database without a ledger had come, no migration is executed a second time and
\* none before a lower one: the advisory lock and the single transaction of
\* _apply_migrations.
THEOREM MigrationsRunOnce == FleetSpec => []OnceInOrder
<1>1. FleetInv => OnceInOrder
  BY DEF FleetInv
<1> QED BY <1>1, FleetStarts, FleetKept, PTL DEF FleetSpec

-----------------------------------------------------------------------------
(* What a ledger says of its database *)

\* What the bootstrap leaves unexecuted is all a database with a ledger lacks.
Settled(d) == \A v \in Versions : ran[d][v] = 1 <=> v \notin Unexecuted(d)

\* A database is as it was found until it has a ledger, and settled from then on.
FoundOrSettled ==
  \A d \in Databases :
    IF ledger[d] # <<>> THEN Settled(d)
    ELSE \A v \in Versions : ran[d][v] = IF d = "control" /\ v \in legacy THEN 1 ELSE 0

\* A data plane only ever migrates the control database, and serves after that.
ServesSettled ==
  \A p \in Procs : /\ boot[p].pc \in {"migrating", "applying"} => boot[p].db = "control"
                   /\ boot[p].pc = "up" => Settled("control")

LedgerInv == FleetInv /\ legacy \subseteq Versions /\ FoundOrSettled /\ ServesSettled

\* The stronger invariant holds at the start.
LEMMA LedgerInit == FleetInit => LedgerInv
<1> SUFFICES ASSUME FleetInit PROVE LedgerInv OBVIOUS
<1>1. legacy \subseteq Versions
  BY DEF FleetInit
<1>2. FoundOrSettled
  BY DEF FoundOrSettled, FleetInit
<1>3. ServesSettled
  BY DEF ServesSettled, FleetInit, Down, Starters
<1> QED BY <1>1, <1>2, <1>3, FleetStarts DEF LedgerInv

\* A process moves to a place that asks nothing of the schema, or nothing moves.
LEMMA LedgerMove ==
  ASSUME LedgerInv, UNCHANGED <<ledger, ran, legacy>>, NEW p \in Starters, NEW b,
         boot' = [boot EXCEPT ![p] = b] \/ boot' = boot,
         b.pc # "up", p \in Procs /\ b.pc \in {"migrating", "applying"} => b.db = "control"
  PROVE  legacy' \subseteq Versions /\ FoundOrSettled' /\ ServesSettled'
<1>1. \A d : Settled(d)' <=> Settled(d)
  BY DEF Settled, Unexecuted
<1>2. FoundOrSettled'
  BY <1>1 DEF LedgerInv, FoundOrSettled
<1>3. \A q \in Procs : boot'[q] = boot[q] \/ (q = p /\ boot'[q] = b)
  BY DEF LedgerInv, FleetInv, SchemaType, Starters
<1>4. ServesSettled'
  BY <1>1, <1>3 DEF LedgerInv, ServesSettled
<1> QED BY <1>2, <1>4 DEF LedgerInv

\* A commit settles its database and leaves the other one as it is.
LEMMA LedgerCommit ==
  ASSUME LedgerInv, NEW p \in Starters, CommitMigrations(p)
  PROVE  legacy' \subseteq Versions /\ FoundOrSettled' /\ ServesSettled'
<1> PICK d \in Databases :
            /\ boot[p].pc = "applying" /\ boot[p].db = d
            /\ boot'[p] = AfterCommit(p, d)
            /\ \A q \in Starters : q # p => boot'[q] = boot[q]
            /\ \A e \in Databases : e # d => ran'[e] = ran[e] /\ ledger'[e] = ledger[e]
            /\ Applied(d) = Versions => ran'[d] = ran[d]
            /\ Applied(d) # Versions => \A v \in Versions : ran'[d][v] = 1
            /\ ledger'[d] = <<Versions>>
            /\ legacy' = legacy
  BY CommitKeeps DEF LedgerInv
<1>1. \A e : Unexecuted(e)' = Unexecuted(e)
  BY DEF Unexecuted
<1>2. Settled(d)'
  <2>1. CASE Versions = {}
    BY <2>1 DEF Settled
  <2>2. CASE ledger[d] # <<>>
    <3>1. Applied(d) = Versions
      BY <2>2 DEF LedgerInv, FleetInv, SchemaType, Applied
    <3> QED BY <3>1, <2>2, <1>1 DEF LedgerInv, FoundOrSettled, Settled
  <2>3. CASE ledger[d] = <<>> /\ Legacy(d)
    <3>1. Applied(d) = Versions
      BY <2>3 DEF Applied
    <3>2. /\ d = "control" /\ legacy # {}
          /\ \A v \in Versions : ran[d][v] = IF v \in legacy THEN 1 ELSE 0
      BY <2>3 DEF LedgerInv, FoundOrSettled, Legacy
    <3> QED BY <3>1, <3>2, <1>1 DEF Settled, Unexecuted
  <2>4. CASE ledger[d] = <<>> /\ ~Legacy(d) /\ Versions # {}
    <3>1. Applied(d) # Versions
      BY <2>4 DEF Applied
    <3>2. Unexecuted(d) = {}
      BY <2>4 DEF LedgerInv, FoundOrSettled, Legacy, Unexecuted
    <3> QED BY <3>1, <3>2, <1>1 DEF Settled
  <2> QED BY <2>1, <2>2, <2>3, <2>4
<1>3. \A e \in Databases : e # d => (Settled(e)' <=> Settled(e))
  BY <1>1 DEF Settled
<1>4. FoundOrSettled'
  <2> SUFFICES ASSUME NEW e \in Databases
               PROVE  IF ledger'[e] # <<>> THEN Settled(e)'
                      ELSE \A v \in Versions :
                             ran'[e][v] = IF e = "control" /\ v \in legacy' THEN 1 ELSE 0
    BY DEF FoundOrSettled
  <2>1. CASE e = d
    BY <2>1, <1>2
  <2>2. CASE e # d
    BY <2>2, <1>3 DEF LedgerInv, FoundOrSettled
  <2> QED BY <2>1, <2>2
<1>5. Settled("control") => Settled("control")'
  BY <1>2, <1>3 DEF Databases
<1>6. ASSUME NEW q \in Procs
      PROVE  /\ boot'[q].pc \in {"migrating", "applying"} => boot'[q].db = "control"
             /\ boot'[q].pc = "up" => Settled("control")'
  <2>1. CASE q = p
    <3>1. d = "control"
      BY <2>1 DEF LedgerInv, ServesSettled
    <3>2. boot'[q] = [pc |-> "up"]
      BY <2>1, ProcsAssumption DEF AfterCommit
    <3> QED BY <3>1, <3>2, <1>2
  <2>2. CASE q # p
    BY <2>2, <1>5 DEF LedgerInv, ServesSettled, Starters
  <2> QED BY <2>1, <2>2
<1>7. ServesSettled'
  BY <1>6 DEF ServesSettled
<1> QED BY <1>4, <1>7 DEF LedgerInv

\* Every step keeps the stronger invariant.
LEMMA LedgerNext == LedgerInv /\ [FleetNext]_fleetVars => LedgerInv'
<1> SUFFICES ASSUME LedgerInv, [FleetNext]_fleetVars PROVE LedgerInv' OBVIOUS
<1> DEFINE Kept == legacy' \subseteq Versions /\ FoundOrSettled' /\ ServesSettled'
<1>0. FleetInv /\ FleetInv'
  BY FleetKept DEF LedgerInv
<1>1. ASSUME NEW p \in Starters, Start(p) PROVE Kept
  <2>1. Migrating("control").pc # "up" /\ Migrating("control").db = "control"
    BY DEF Migrating
  <2>2. /\ UNCHANGED <<ledger, ran, legacy>>
        /\ boot' = [boot EXCEPT ![p] = Migrating("control")]
    BY <1>1 DEF Start, schemaVars
  <2> QED BY <2>1, <2>2, LedgerMove
<1>2. ASSUME NEW p \in Starters, LockAndReadLedger(p) PROVE Kept
  <2> DEFINE b == [pc |-> "applying", db |-> boot[p].db,
                   applied |-> Applied(boot[p].db), done |-> {}]
  <2>1. b.pc # "up" /\ (p \in Procs => b.db = "control")
    BY <1>2 DEF LockAndReadLedger, LedgerInv, ServesSettled
  <2>2. UNCHANGED <<ledger, ran, legacy>> /\ boot' = [boot EXCEPT ![p] = b]
    BY <1>2 DEF LockAndReadLedger
  <2> QED BY <2>1, <2>2, LedgerMove
<1>3. ASSUME NEW p \in Starters, ApplyNext(p) PROVE Kept
  <2> PICK d \in Databases : boot[p] \in Applying(d)
    BY <1>3, <1>0, BootForms DEF ApplyNext, FleetInv
  <2> PICK v \in Versions : boot' = [boot EXCEPT ![p].done = @ \cup {v}]
    BY <1>3 DEF ApplyNext
  <2> DEFINE b == [boot[p] EXCEPT !.done = @ \cup {v}]
  <2>1. b.pc = "applying" /\ b.db = boot[p].db
    BY DEF Applying
  <2>2. p \in Procs => b.db = "control"
    BY <1>3, <2>1 DEF ApplyNext, LedgerInv, ServesSettled
  <2>3. UNCHANGED <<ledger, ran, legacy>> /\ boot' = [boot EXCEPT ![p] = b]
    BY <1>3, <1>0 DEF ApplyNext, schemaVars, FleetInv, SchemaType
  <2> QED BY <2>1, <2>2, <2>3, LedgerMove
<1>4. ASSUME NEW p \in Starters, Gone(p) PROVE Kept
  <2>1. Down.pc \notin {"up", "migrating", "applying"}
    BY DEF Down
  <2> QED BY <1>4, <2>1, LedgerMove DEF Gone
<1>5. ASSUME SchemaUntouched PROVE Kept
  <2>1. Down.pc \notin {"up", "migrating", "applying"}
    BY DEF Down
  <2>2. Job \in Starters
    BY DEF Starters
  <2>3. UNCHANGED <<ledger, ran, legacy>> /\ boot' = boot
    BY <1>5 DEF SchemaUntouched
  <2> QED BY <2>1, <2>2, <2>3, LedgerMove
<1>6. ASSUME NEW p \in Procs, _reconcile_once(p) \/ CycleFails(p) PROVE SchemaUntouched
  BY <1>6 DEF _reconcile_once, CycleFails, ReconcileSnapshot, dp_id, WriteOne,
              CycleDone, _resolve, CreateFile, _write_persisted, SchemaUntouched, schemaVars
<1>7. ASSUME NEW p \in Procs, NEW u \in Uris,
             Admit(p, u) \/ Evict(p, u) \/ _dispatch_one(p, u)
      PROVE  SchemaUntouched
  BY <1>7 DEF Admit, Evict, _dispatch_one, SchemaUntouched, schemaVars
<1>8. ASSUME NEW u \in Uris, PublishPrewarm(u) PROVE SchemaUntouched
  BY <1>8 DEF PublishPrewarm, SchemaUntouched, schemaVars
<1>9. UNCHANGED fleetVars => SchemaUntouched
  BY DEF fleetVars, SchemaUntouched, schemaVars
<1>10. \A p \in Procs : p \in Starters
  BY DEF Starters
<1>11. ASSUME NEW p \in Starters, CommitMigrations(p) PROVE Kept
  BY <1>11, LedgerCommit
<1> HIDE DEF Kept
<1>12. ASSUME \E p \in Starters : migrate(p) \/ Dies(p)
       PROVE  Kept
  BY <1>12, <1>1, <1>2, <1>3, <1>4, <1>11
     DEF migrate, _apply_migrations, _apply_recall_migrations, MigrationStep, Dies
<1>13. ASSUME \E p \in Procs :
                \/ _reconcile_once(p) \/ CycleFails(p) \/ on_stop(p)
                \/ \E u \in Uris : Admit(p, u) \/ Evict(p, u) \/ _dispatch_one(p, u)
       PROVE  Kept
  BY <1>13, <1>4, <1>5, <1>6, <1>7, <1>10 DEF on_stop
<1>14. Kept
  BY <1>5, <1>8, <1>9, <1>12, <1>13 DEF FleetNext
<1> QED BY <1>0, <1>14 DEF LedgerInv, Kept

\* However far a database without a ledger had come, and however many processes
\* migrate it at once: its ledger names what was executed and, in a legacy control
\* database, what that lacked when it got its ledger; nothing else is missing where a
\* data plane serves.
THEOREM LedgerIsTheSchema == FleetSpec => []SchemaOnce
<1>1. LedgerInv => SchemaOnce
  BY DEF LedgerInv, FleetInv, SchemaType, SchemaOnce, OnceInOrder, FoundOrSettled, Settled,
         ServesSettled
<1> QED BY <1>1, LedgerInit, LedgerNext, PTL DEF FleetSpec
=============================================================================
