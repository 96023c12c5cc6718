---------------------------- MODULE QueryGateway ----------------------------
(***************************************************************************)
(* The control plane's way of a query: credential, rate limit, daily       *)
(* quota, the tenant's data-plane pool, and the reverse proxy's attempts   *)
(* against a data plane that may refuse, hang or die.                      *)
(*                                                                         *)
(* Every control-plane worker process keeps its own credential cache, pool *)
(* cache and token buckets; the key row, the quota row and the tenant's    *)
(* pool are shared through Postgres.  One tenant with one API key is       *)
(* modelled, whose queries carry the key; a JWT is decided without state.  *)
(* Time is counted in ticks, days change at any moment.                    *)
(*   services/query_api/query_proxy.py, dp_query.py                        *)
(*   services/auth/jwt_utils.py, auth.py, quota.py                         *)
(*   adapters/state/quota.py, pooling.py                                   *)
(***************************************************************************)
EXTENDS Naturals, FiniteSets, FiniteSetsExt

CONSTANTS
  Workers,          \* control-plane worker processes
  Slots,            \* requests in progress at a time
  AuthTtl,          \* _AUTH_CACHE_TTL_S
  PoolTtl,          \* _DP_POOL_CACHE_TTL_S
  Burst, Rate,      \* token bucket: capacity, tokens per tick
  DailyQuota,       \* tenants.daily_query_quota
  Retries,          \* QUERY_DP_CONNECT_RETRIES
  MaxTime, MaxDay   \* bounds of the model

ASSUME GatewayAssumption ==
  /\ AuthTtl \in Nat \ {0} /\ PoolTtl \in Nat \ {0}
  /\ Burst \in Nat \ {0} /\ Rate \in Nat
  /\ DailyQuota \in Nat /\ Retries \in Nat
  /\ MaxTime \in Nat /\ MaxDay \in Nat

VARIABLES
  now, day,         \* monotonic clock, calendar day
  req,              \* [Slots -> request]
  key,              \* the committed api_keys row: absent, live, revoked
  edit,             \* the keys endpoint at work: none, create, revoke
  revokedAt,        \* when the revocation committed          (history)
  authCache,        \* [Workers -> expiry of the key's entry, 0 for none]
  bucket,           \* [Workers -> [tokens, last]] of the key
  row,              \* tenants row: queries_today, queries_reset_at
  granted,          \* [day -> queries granted on it]         (history)
  pool, movedAt,    \* tenants.dp_pool; when it changed       (history)
  poolCache         \* [Workers -> [pool, exp]]

clockVars == <<now, day>>
authVars == <<key, edit, revokedAt, authCache>>
limitVars == <<bucket>>
quotaVars == <<row, granted>>
poolVars == <<pool, movedAt, poolCache>>
vars == <<clockVars, req, authVars, limitVars, quotaVars, poolVars>>

Pools == {"shared", "dedicated"}
None  == MaxTime + 1        \* a moment that has not come
NoWorker == "none"
Elsewhere == "elsewhere"    \* a process whose requests are not followed

Request ==
  [pc: {"idle", "auth", "lookup", "install", "limit", "begin", "charge",
        "route", "pool", "attempt", "sent", "answered", "broken"},
   kind: {"query", "status"}, worker: Workers \cup {NoWorker},
   at: 0..MaxTime,             \* the reading of the clock before a lookup
   date: 0..MaxDay,            \* CURRENT_DATE of its quota transaction
   left: 0..Retries,           \* connect retries left
   charged: 0..2, sends: 0..2] \* quota units and transmissions (history)

Idle == [pc |-> "idle", kind |-> "query", worker |-> NoWorker, at |-> 0,
         date |-> 0, left |-> 0, charged |-> 0, sends |-> 0]

Init ==
  /\ now = 0 /\ day = 0
  /\ req = [s \in Slots |-> Idle]
  /\ key = "absent" /\ edit = "none" /\ revokedAt = None
  /\ authCache = [w \in Workers |-> 0]
  /\ bucket = [w \in Workers |-> [tokens |-> Burst, last |-> 0]]
  /\ row = [today |-> 0, reset |-> 0]
  /\ granted = [d \in 0..MaxDay |-> 0]
  /\ pool = "shared" /\ movedAt = 0
  /\ poolCache = [w \in Workers |-> [pool |-> "shared", exp |-> 0]]

-----------------------------------------------------------------------------
(* Steps of one request, each between two points where others may act.  A  *)
(* local that is not read again goes back to its value in Idle, and so     *)
(* does the whole request when it is answered.                             *)

At(s, pc) == req[s].pc = pc
Goto(s, pc) == req' = [req EXCEPT ![s].pc = pc]
Reply(s) == req' = [req EXCEPT ![s] = Idle]

\* POST /v1/query and GET /v1/query/status reach some worker process.
Arrive(s) ==
  /\ At(s, "idle")
  /\ \E k \in {"query", "status"}, w \in Workers :
       req' = [req EXCEPT ![s] = [Idle EXCEPT !.pc = "auth", !.kind = k, !.worker = w]]
  /\ UNCHANGED <<clockVars, authVars, limitVars, quotaVars, poolVars>>

\* A request whose tenant is known: the status route has neither rate limit
\* nor quota.
Admitted(r) == [r EXCEPT !.pc = IF r.kind = "query" THEN "limit" ELSE "route",
                         !.at = 0]

Fresh(exp, t) == t < exp

AuthHit(s) ==
  /\ At(s, "auth")
  /\ Fresh(authCache[req[s].worker], now)
  /\ req' = [req EXCEPT ![s] = Admitted(@)]
  /\ UNCHANGED <<clockVars, authVars, limitVars, quotaVars, poolVars>>

\* The clock is read before the row is; an expired entry is dropped.
AuthMiss(s) ==
  /\ At(s, "auth")
  /\ ~Fresh(authCache[req[s].worker], now)
  /\ authCache' = [authCache EXCEPT ![req[s].worker] = 0]
  /\ req' = [req EXCEPT ![s].pc = "lookup", ![s].at = now]
  /\ UNCHANGED <<clockVars, key, edit, revokedAt, limitVars, quotaVars, poolVars>>

\* No row, or a revoked one: 401.
get_api_key_by_hash(s) ==
  /\ At(s, "lookup")
  /\ IF key = "live" THEN Goto(s, "install") ELSE Reply(s)
  /\ UNCHANGED <<clockVars, authVars, limitVars, quotaVars, poolVars>>

\* Mutant: the clock is read again when the entry is made.
ExpiryFromInstall(t) == now + AuthTtl

\* Until when an entry made with clock reading t is used.
AuthExpiry(t) == t + AuthTtl

AuthInstall(s) ==
  /\ At(s, "install")
  /\ authCache' = [authCache EXCEPT ![req[s].worker] = AuthExpiry(req[s].at)]
  /\ req' = [req EXCEPT ![s] = Admitted(@)]
  /\ UNCHANGED <<clockVars, key, edit, revokedAt, limitVars, quotaVars, poolVars>>

\* A connection that does not come within the checkout deadline: 503, and
\* the statement it was for is not run.
CheckoutTimesOut(s) ==
  /\ req[s].pc \in {"lookup", "begin", "pool"}
  /\ Reply(s)
  /\ UNCHANGED <<clockVars, authVars, limitVars, quotaVars, poolVars>>

Lesser(a, b) == IF a < b THEN a ELSE b

\* Tokens of a bucket at time t, refilled for the time since its last use.
Refilled(b, t) == Lesser(Burst, b.tokens + (t - b.last) * Rate)

\* An empty bucket answers 429 rate_limited.
rate_limit(s) ==
  /\ At(s, "limit")
  /\ LET w == req[s].worker
         have == Refilled(bucket[w], now)
     IN IF have >= 1
        THEN /\ bucket' = [bucket EXCEPT ![w] = [tokens |-> have - 1, last |-> now]]
             /\ Goto(s, "begin")
        ELSE /\ bucket' = [bucket EXCEPT ![w] = [tokens |-> have, last |-> now]]
             /\ Reply(s)
  /\ UNCHANGED <<clockVars, authVars, quotaVars, poolVars>>

\* CURRENT_DATE is the date on which the transaction began.
BeginConsume(s) ==
  /\ At(s, "begin")
  /\ req' = [req EXCEPT ![s].pc = "charge", ![s].date = day]
  /\ UNCHANGED <<clockVars, authVars, limitVars, quotaVars, poolVars>>

\* Mutant: any other date resets the count.
ResetOnOther(r, date) ==
  IF r.reset # date THEN [today |-> 0, reset |-> date] ELSE r

\* The first statement of the transaction: a new day starts the count again.
DailyReset(r, date) ==
  IF r.reset < date THEN [today |-> 0, reset |-> date] ELSE r

\* The second statement counts the query, or the answer is 429
\* query_quota_exceeded and the reset stands.
try_consume_query(s) ==
  /\ At(s, "charge")
  /\ LET r == DailyReset(row, req[s].date)
     IN IF r.today < DailyQuota
        THEN /\ row' = [r EXCEPT !.today = @ + 1]
             /\ granted' = [granted EXCEPT ![r.reset] = @ + 1]
             /\ req' = [req EXCEPT ![s].pc = "route", ![s].date = 0,
                                     ![s].charged = @ + 1]
        ELSE /\ row' = r
             /\ UNCHANGED granted
             /\ Reply(s)
  /\ UNCHANGED <<clockVars, authVars, limitVars, poolVars>>

Routed(r) == [r EXCEPT !.pc = "attempt", !.left = Retries,
                       !.worker = NoWorker, !.at = 0]

PoolHit(s) ==
  /\ At(s, "route")
  /\ Fresh(poolCache[req[s].worker].exp, now)
  /\ req' = [req EXCEPT ![s] = Routed(@)]
  /\ UNCHANGED <<clockVars, authVars, limitVars, quotaVars, poolVars>>

PoolMiss(s) ==
  /\ At(s, "route")
  /\ ~Fresh(poolCache[req[s].worker].exp, now)
  /\ poolCache' = [poolCache EXCEPT ![req[s].worker].exp = 0]
  /\ req' = [req EXCEPT ![s].pc = "pool", ![s].at = now]
  /\ UNCHANGED <<clockVars, authVars, limitVars, quotaVars, pool, movedAt>>

\* The row is read and the entry made with the clock reading before it.
get_tenant_dp_pool(s) ==
  /\ At(s, "pool")
  /\ poolCache' = [poolCache EXCEPT ![req[s].worker] =
                     [pool |-> pool, exp |-> req[s].at + PoolTtl]]
  /\ req' = [req EXCEPT ![s] = Routed(@)]
  /\ UNCHANGED <<clockVars, authVars, limitVars, quotaVars, pool, movedAt>>

-----------------------------------------------------------------------------
(* The proxy's attempts.  What the data plane does is not in its hands.    *)

proxyUnchanged == UNCHANGED <<clockVars, authVars, limitVars, quotaVars, poolVars>>

\* ConnectError or ConnectTimeout: nothing was sent, the attempt is repeated,
\* and after the last one the answer is 503 query_unavailable.
ConnectFails(s) ==
  /\ At(s, "attempt")
  /\ IF req[s].left > 0
     THEN req' = [req EXCEPT ![s].left = @ - 1]
     ELSE Reply(s)
  /\ proxyUnchanged

\* PoolTimeout: no connection of the HTTP client became free, 502.
ClientPoolTimesOut(s) == At(s, "attempt") /\ Reply(s) /\ proxyUnchanged

Send(s) ==
  /\ At(s, "attempt")
  /\ req' = [req EXCEPT ![s].pc = "sent", ![s].sends = @ + 1]
  /\ proxyUnchanged

\* The data plane's handler: secret and headers match, the body is validated
\* and run without charging quota again; any answer may come of it.
dp_v1_query(s) == At(s, "sent") /\ Goto(s, "answered") /\ proxyUnchanged

\* The data plane dies, or breaks the connection off.
DpDies(s) == At(s, "sent") /\ Goto(s, "broken") /\ proxyUnchanged

Forward(s) == At(s, "answered") /\ Reply(s) /\ proxyUnchanged

\* Mutant: a read timeout is retried like a failed connect.
ReadTimeoutRetried(s) ==
  /\ req[s].pc \in {"sent", "answered", "broken"}
  /\ IF req[s].left > 0
     THEN req' = [req EXCEPT ![s].pc = "attempt", ![s].left = @ - 1]
     ELSE Reply(s)
  /\ proxyUnchanged

\* The answer did not come in time: 504, not tried again, for the data plane
\* may still be at work.
ReadTimesOut(s) ==
  /\ req[s].pc \in {"sent", "answered", "broken"}
  /\ Reply(s)
  /\ proxyUnchanged

\* Any other transport error: 502.
BrokenOff(s) == At(s, "broken") /\ Reply(s) /\ proxyUnchanged

-----------------------------------------------------------------------------
(* POST and DELETE /auth/keys, whose one transaction the middleware commits *)
(* after the handler is done, and the environment.                         *)

\* The middleware checks one connection out and binds it to the request;
\* what the handler writes shows when that connection commits.
RequestScoped(op) == edit = "none" /\ edit' = op

\* The INSERT; the raw key is in the response.
create_key ==
  /\ key = "absent"
  /\ RequestScoped("create")
  /\ UNCHANGED <<clockVars, req, key, revokedAt, authCache, limitVars,
                 quotaVars, poolVars>>

\* bust_api_key_cache_by_hash in process w.
Bust(w) == authCache' = [v \in Workers |-> IF v = w THEN 0 ELSE authCache[v]]

\* The UPDATE and the bust of the own process's entry; a process elsewhere
\* has its own cache.  A key that is absent or revoked: 404.
revoke_key(w) ==
  /\ key = "live"
  /\ RequestScoped("revoke")
  /\ Bust(w)
  /\ UNCHANGED <<clockVars, req, key, revokedAt, limitVars, quotaVars, poolVars>>

\* Commit, or rollback when the handler raised or the connection was lost.
finish_request_conn ==
  /\ edit # "none"
  /\ edit' = "none"
  /\ \/ edit = "create" /\ key' = "live" /\ UNCHANGED revokedAt
     \/ edit = "revoke" /\ key' = "revoked" /\ revokedAt' = now
     \/ UNCHANGED <<key, revokedAt>>
  /\ UNCHANGED <<clockVars, req, authCache, limitVars, quotaVars, poolVars>>

\* An operator moves the tenant to its own data plane.
MovePool ==
  /\ pool = "shared"
  /\ pool' = "dedicated" /\ movedAt' = now
  /\ UNCHANGED <<clockVars, req, authVars, limitVars, quotaVars, poolCache>>

Tick ==
  /\ now < MaxTime /\ now' = now + 1
  /\ UNCHANGED <<day, req, authVars, limitVars, quotaVars, poolVars>>

Midnight ==
  /\ day < MaxDay /\ day' = day + 1
  /\ UNCHANGED <<now, req, authVars, limitVars, quotaVars, poolVars>>

ProxyStep(s) ==
  \/ AuthHit(s) \/ AuthMiss(s) \/ get_api_key_by_hash(s) \/ AuthInstall(s)
  \/ rate_limit(s) \/ BeginConsume(s) \/ try_consume_query(s)
  \/ PoolHit(s) \/ PoolMiss(s) \/ get_tenant_dp_pool(s)
  \/ ConnectFails(s) \/ ClientPoolTimesOut(s) \/ Send(s)
  \/ Forward(s) \/ ReadTimesOut(s) \/ BrokenOff(s)

Next ==
  \/ \E s \in Slots : \/ Arrive(s) \/ ProxyStep(s) \/ CheckoutTimesOut(s)
                      \/ dp_v1_query(s) \/ DpDies(s)
  \/ create_key \/ \E w \in Workers \cup {Elsewhere} : revoke_key(w)
  \/ finish_request_conn \/ MovePool \/ Tick \/ Midnight

Spec == Init /\ [][Next]_vars

-----------------------------------------------------------------------------
(* Properties.                                                             *)

TypeOK ==
  /\ now \in 0..MaxTime /\ day \in 0..MaxDay
  /\ req \in [Slots -> Request]
  /\ key \in {"absent", "live", "revoked"}
  /\ edit \in {"none", "create", "revoke"}
  /\ revokedAt \in 0..None
  /\ authCache \in [Workers -> Nat]
  /\ bucket \in [Workers -> [tokens: 0..Burst, last: 0..MaxTime]]
  /\ row \in [today: 0..DailyQuota, reset: 0..MaxDay]
  /\ granted \in [0..MaxDay -> Nat]
  /\ pool \in Pools /\ movedAt \in 0..MaxTime
  /\ poolCache \in [Workers -> [pool: Pools, exp: Nat]]

\* A revoked key is refused everywhere once the credential cache's time to
\* live has passed since the revocation committed, whatever lookups of the
\* old row were still in progress and whichever process handled the DELETE
\* (_resolve_api_key reads the clock before the row), and no worker goes on
\* forwarding to the pool a tenant has left for longer than the pool cache's
\* time to live (get_tenant_dp_pool_cached).
CachesExpire ==
  \A w \in Workers :
    /\ key = "revoked" => authCache[w] <= revokedAt + AuthTtl
    /\ key = "absent" => authCache[w] = 0
    /\ poolCache[w].pool # pool => poolCache[w].exp <= movedAt + PoolTtl

\* However the requests of two days interleave around midnight, no day's
\* count is granted twice: the reset only ever moves forward
\* (try_consume_query, whose CURRENT_DATE may be yesterday's).
DailyQuotaHolds == \A d \in 0..MaxDay : granted[d] <= DailyQuota

\* A query reaches the data plane at most once however its connects and
\* reads fail, never without its unit of quota and never with two (_proxy
\* retries what was not sent, and the data plane does not charge again).
ForwardedAtMostOnce ==
  \A s \in Slots :
    /\ req[s].sends <= 1 /\ req[s].charged <= 1
    /\ (req[s].kind = "query" /\ req[s].sends = 1) => req[s].charged = 1
=============================================================================
