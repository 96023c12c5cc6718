------------------------- MODULE CatalogCacheProofs -------------------------
(***************************************************************************)
(* Proofs about CatalogCache, for any number of reader threads, writes,    *)
(* folds, lives of the dataset and faults, and for any time to live.       *)
(*                                                                         *)
(* An entry is stamped with the clock, and installed under the generation, *)
(* that its thread read before it asked Postgres.  The trim stays one fold *)
(* behind the newest shard, and a list that is one change old still names  *)
(* the newest shard or the one before it.                                  *)
(***************************************************************************)
EXTENDS CatalogCache, WellFoundedInduction, TLAPS

Lists == [rows : SUBSET Nat, change : Nat, stale : Nat, called : BOOLEAN]

Queries == [pc : {"idle", "fetch", "install", "search"}, at : Nat, gen : Nat, list : Lists,
            scanned : BOOLEAN, found : SUBSET Nat, load : {"none", "ok", "failed"},
            want : SUBSET Nat, life : Nat]

CacheType ==
  /\ now \in 0..MaxTime
  /\ entry \in [at : Nat, list : Lists]
  /\ gen \in Nat
  /\ query \in [Readers -> Queries]

\* A list was true at the moment its thread had read the clock, and the entry made
\* of it carries that moment.
TimeInv ==
  /\ entry # NoEntry => entry.at <= now /\ entry.at <= entry.list.stale
  /\ \A r \in Readers :
       /\ query[r].pc # "idle" => query[r].at <= now
       /\ query[r].pc = "install" => query[r].at <= query[r].list.stale
       /\ query[r].pc = "search" => query[r].at < query[r].list.stale + Ttl

\* A thread whose list was called back since it noted the generation has noted an
\* older one than the present.
GenInv ==
  /\ ~entry.list.called
  /\ \A r \in Readers :
       /\ query[r].pc \in {"fetch", "install"} => query[r].gen <= gen
       /\ query[r].pc = "install" /\ query[r].list.called => query[r].gen < gen

CacheInv == CacheType /\ TimeInv /\ GenInv

Shards == [lsn : Nat, rows : SUBSET Nat]

LogType ==
  /\ live \in BOOLEAN /\ life \in Nat /\ lsn \in Nat
  /\ recall \subseteq 1..lsn
  /\ lifeOf \in Seq(Nat) /\ Len(lifeOf) = lsn

ShardType == shards \in Seq(Shards)

CatalogType ==
  /\ catalog \subseteq 1..Len(shards)
  /\ changes \in Nat
  /\ fold \in [pc : {"idle", "built", "committed"}, shard : Nat]

StoreType == LogType /\ ShardType /\ CatalogType

\* No record is of a life to come, and no watermark is ahead of the log.
LifeInv ==
  /\ \A n \in 1..lsn : lifeOf[n] <= life
  /\ \A g \in 1..Len(shards) : shards[g].lsn <= lsn
  /\ \A g \in 1..Len(shards) : shards[g].rows \subseteq 1..lsn

\* A shard holds every record of the present life up to its watermark.
ShardsHold ==
  live => \A g \in 1..Len(shards), n \in 1..lsn :
            lifeOf[n] = life /\ n <= shards[g].lsn => n \in shards[g].rows

\* Of two shards in the catalog the newer one holds what the older one holds, and
\* so does the shard that is to be committed next.
Chained ==
  /\ \A g \in catalog, h \in catalog : g <= h => shards[g].rows \subseteq shards[h].rows
  /\ fold.pc = "built" =>
       /\ fold.shard = Len(shards) /\ fold.shard > 0 /\ fold.shard \notin catalog
       /\ \A g \in catalog : shards[g].rows \subseteq shards[fold.shard].rows

\* A record of the present life that has left recall is in the shard before the
\* newest: the trim stays one fold behind.
OneFoldBehind ==
  live => \A n \in 1..lsn : lifeOf[n] = life => n \in recall \cup Records(Prior)

StoreInv == StoreType /\ LifeInv /\ ShardsHold /\ Chained /\ OneFoldBehind

\* What a list read some changes ago still says about the catalog.
ListHolds(list) ==
  /\ list.rows \subseteq 1..Len(shards)
  /\ list.change <= changes
  /\ changes = list.change => Max(list.rows \cup {0}) = Newest
  /\ changes = list.change + 1 => catalog = {} \/ Max(list.rows \cup {0}) \in {Newest, Prior}

ListsHold ==
  /\ entry # NoEntry => ListHolds(entry.list)
  /\ \A r \in Readers : query[r].pc \in {"install", "search"} => ListHolds(query[r].list)

\* What a query wants and its answer lacks was in recall no more.
WantInv ==
  \A r \in Readers :
    /\ query[r].life <= life
    /\ query[r].pc # "idle" /\ live /\ query[r].life = life =>
         /\ \A n \in query[r].want : n \in 1..lsn /\ lifeOf[n] = life
         /\ query[r].scanned => query[r].want \cap recall \subseteq Answer(query[r])
    /\ query[r].scanned => query[r].pc = "search"

CatalogInv == CacheInv /\ StoreInv /\ ListsHold /\ WantInv

-----------------------------------------------------------------------------
(* Largest and smallest members *)

\* A non-empty set of naturals has a least member.
LEMMA LeastNat ==
  ASSUME NEW T, T \subseteq Nat, T # {}
  PROVE  \E m \in T : \A k \in T : m <= k
<1>1. PICK m \in T : \A k \in T : ~ (<<k, m>> \in OpToRel(<, Nat))
  BY ONLY T \subseteq Nat, T # {}, WFMin, NatLessThanWellFounded, Zenon
<1>2. \A k \in T : ~ (k < m)
  BY <1>1 DEF OpToRel
<1> QED BY <1>2

\* Max of a bounded set of naturals is its largest member.
LEMMA MaxIsLargest ==
  ASSUME NEW N \in Nat, NEW T, T \subseteq 0..N, T # {}
  PROVE  Max(T) \in T /\ \A k \in T : k <= Max(T)
<1> DEFINE D == {N - x : x \in T}
<1>0. \A x \in T : x \in 0..N /\ N - x \in Nat
  OBVIOUS
<1>1. D \subseteq Nat /\ D # {}
  BY <1>0
<1> HIDE DEF D
<1>2. PICK d \in D : \A e \in D : d <= e
  BY <1>1, LeastNat
<1>3. PICK m \in T : d = N - m
  BY <1>2 DEF D
<1>4. \A k \in T : k <= m
  <2> SUFFICES ASSUME NEW k \in T PROVE k <= m OBVIOUS
  <2>1. N - m <= N - k
    BY <1>2, <1>3 DEF D
  <2> QED BY <2>1
<1>5. \E x \in T : \A y \in T : x >= y
  BY <1>4
<1>6. Max(T) \in T /\ \A y \in T : Max(T) >= y
  BY <1>5 DEF Max
<1> QED BY <1>6

\* Min of two numbers.
LEMMA MinOfTwo ==
  ASSUME NEW a \in Nat, NEW b \in Nat
  PROVE  Min({a, b}) = IF a <= b THEN a ELSE b
<1>1. \E x \in {a, b} : \A y \in {a, b} : x <= y
  OBVIOUS
<1>2. Min({a, b}) \in {a, b} /\ \A y \in {a, b} : Min({a, b}) <= y
  BY <1>1 DEF Min
<1> QED BY <1>2

-----------------------------------------------------------------------------
(* The cache: times and generations *)

\* A change of the catalog leaves a list as it is but for the moment it went stale.
LEMMA AgedEffect ==
  ASSUME NEW list \in Lists, now \in Nat
  PROVE  /\ Aged(list) \in Lists
         /\ Aged(list).rows = list.rows /\ Aged(list).change = list.change
         /\ Aged(list).called = list.called
         /\ Aged(list).stale = IF list.stale <= now THEN list.stale ELSE now
<1>1. Min({list.stale, now}) = IF list.stale <= now THEN list.stale ELSE now
  BY MinOfTwo DEF Lists
<1> QED BY <1>1 DEF Aged, Lists

\* The cache's part of the invariant holds at the start.
LEMMA CacheInit == Init => CacheInv
  BY CatalogAssumption
     DEF Init, CacheInv, CacheType, TimeInv, GenInv, NoEntry, NoList, Idle, Lists, Queries,
         Never

\* The steps that leave the cache and the queries alone.
LEMMA CacheStays ==
  ASSUME CacheInv, UNCHANGED <<cacheVars, query>>, now' = now \/ (now < MaxTime /\ now' = now + 1)
  PROVE  CacheInv'
<1>0. UNCHANGED <<entry, gen, query>> /\ now <= now' /\ now' \in 0..MaxTime
  BY CatalogAssumption DEF cacheVars, CacheInv, CacheType
<1>1. CacheType' /\ GenInv'
  BY <1>0 DEF CacheInv, CacheType, GenInv
<1>2. TimeInv'
  BY <1>0 DEF CacheInv, CacheType, TimeInv, Lists, Queries
<1> QED BY <1>1, <1>2 DEF CacheInv

\* What a change of the catalog does to the entry and to the lists in hand.
LEMMA ChangeEffect ==
  ASSUME CacheInv, NEW rows, Change(rows)
  PROVE  /\ entry' = IF entry = NoEntry THEN entry ELSE [entry EXCEPT !.list = Aged(entry.list)]
         /\ \A r \in Readers :
              query'[r] = IF query[r].pc \in {"install", "search"}
                          THEN [query[r] EXCEPT !.list = Aged(query[r].list)] ELSE query[r]
         /\ catalog' = rows /\ changes' = changes + 1
  BY DEF Change

\* A change of the catalog ends the truth of the lists in hand; it does not call them back.
LEMMA CacheChange ==
  ASSUME CacheInv, NEW rows, Change(rows), gen' = gen, now' = now
  PROVE  CacheInv'
<1>0. now \in Nat /\ Ttl \in Nat \ {0}
  BY CatalogAssumption DEF CacheInv, CacheType
<1>1. /\ entry' \in [at : Nat, list : Lists]
      /\ entry'.at = entry.at /\ entry'.list.called = entry.list.called
      /\ entry' # NoEntry => /\ entry # NoEntry
                             /\ entry'.list.stale = entry.list.stale \/ entry'.list.stale = now
  <2>1. CASE entry = NoEntry
    BY <2>1, ChangeEffect DEF CacheInv, CacheType
  <2>2. CASE entry # NoEntry
    <3>1. entry' = [entry EXCEPT !.list = Aged(entry.list)]
      BY <2>2, ChangeEffect
    <3>2. entry \in [at : Nat, list : Lists]
      BY DEF CacheInv, CacheType
    <3>3. entry'.at = entry.at /\ entry'.list = Aged(entry.list)
      BY <3>1, <3>2
    <3> QED BY <1>0, <2>2, <3>1, <3>2, <3>3, AgedEffect
  <2> QED BY <2>1, <2>2
<1>2. ASSUME NEW r \in Readers
      PROVE  /\ query'[r] \in Queries
             /\ query'[r].pc = query[r].pc /\ query'[r].at = query[r].at
             /\ query'[r].gen = query[r].gen /\ query'[r].list.called = query[r].list.called
             /\ query'[r].list.stale = query[r].list.stale \/ query'[r].list.stale = now
  <2>0. query[r] \in Queries
    BY DEF CacheInv, CacheType
  <2>1. CASE query'[r] = query[r]
    BY <2>0, <2>1
  <2>2. CASE query'[r] = [query[r] EXCEPT !.list = Aged(query[r].list)]
    <3>1. query[r].list \in Lists
      BY <2>0 DEF Queries
    <3>2. Aged(query[r].list) \in Lists
      BY <3>1, <1>0, AgedEffect
    <3>3. /\ query'[r] \in Queries /\ query'[r].list = Aged(query[r].list)
          /\ query'[r].pc = query[r].pc /\ query'[r].at = query[r].at
          /\ query'[r].gen = query[r].gen
      BY <2>0, <2>2, <3>2 DEF Queries
    <3> QED BY <3>1, <3>3, <1>0, AgedEffect
  <2> QED BY <2>1, <2>2, ChangeEffect
<1>3. CacheType'
  <2>1. query' \in [Readers -> Queries]
    BY <1>2 DEF Change
  <2> QED BY <1>1, <2>1 DEF CacheInv, CacheType
<1>4. GenInv'
  BY <1>1, <1>2 DEF CacheInv, GenInv
<1>5. TimeInv'
  <2>1. entry' # NoEntry => entry'.at <= now' /\ entry'.at <= entry'.list.stale
    BY <1>0, <1>1 DEF CacheInv, TimeInv
  <2>2. ASSUME NEW r \in Readers
        PROVE  /\ query'[r].pc # "idle" => query'[r].at <= now'
               /\ query'[r].pc = "install" => query'[r].at <= query'[r].list.stale
               /\ query'[r].pc = "search" => query'[r].at < query'[r].list.stale + Ttl
    <3>1. query[r].at \in Nat /\ query[r].list.stale \in Nat
      BY DEF CacheInv, CacheType, Queries, Lists
    <3> QED BY <1>0, <1>2, <3>1 DEF CacheInv, TimeInv
  <2> QED BY <2>1, <2>2 DEF TimeInv
<1> QED BY <1>3, <1>4, <1>5 DEF CacheInv

\* One query moves on, and the cache stays as it is.
LEMMA QueryMoves ==
  ASSUME CacheInv, NEW r \in Readers, NEW q \in Queries,
         query' = [query EXCEPT ![r] = q], UNCHANGED <<now, entry, gen>>,
         q.pc # "idle" => q.at <= now,
         q.pc = "install" => q.at <= q.list.stale,
         q.pc = "search" => q.at < q.list.stale + Ttl,
         q.pc \in {"fetch", "install"} => q.gen <= gen,
         q.pc = "install" => ~q.list.called
  PROVE  CacheInv'
<1>1. query \in [Readers -> Queries]
  BY DEF CacheInv, CacheType
<1>2. \A s \in Readers : query'[s] = IF s = r THEN q ELSE query[s]
  BY <1>1
<1>3. CacheType'
  BY <1>1 DEF CacheInv, CacheType
<1>4. TimeInv'
  BY <1>2 DEF CacheInv, TimeInv
<1>5. GenInv'
  BY <1>2 DEF CacheInv, GenInv
<1> QED BY <1>3, <1>4, <1>5 DEF CacheInv

\* A lookup takes the entry if it is fresh, else it notes the generation.
LEMMA CacheLookup ==
  ASSUME CacheInv, NEW r \in Readers, StoreType, Lookup(r)
  PROVE  CacheInv'
<1> DEFINE q == [Idle EXCEPT !.at = now, !.want = Acknowledged, !.life = life]
           hit == [q EXCEPT !.pc = "search", !.list = entry.list]
           miss == [q EXCEPT !.pc = "fetch", !.gen = gen]
<1>0. /\ now \in Nat /\ gen \in Nat /\ life \in Nat /\ Acknowledged \subseteq Nat
      /\ entry \in [at : Nat, list : Lists] /\ Ttl \in Nat \ {0}
  BY CatalogAssumption DEF CacheInv, CacheType, StoreType, LogType, Acknowledged
<1>1. NoList \in Lists
  BY CatalogAssumption DEF NoList, Lists, Never
<1>2. UNCHANGED <<now, entry, gen>>
  BY DEF Lookup, cacheVars
<1>3. CASE Fresh(entry)
  <2>1. query' = [query EXCEPT ![r] = hit]
    BY <1>3 DEF Lookup
  <2>2. /\ hit \in Queries /\ hit.pc = "search" /\ hit.at = now
        /\ hit.list = entry.list
    BY <1>0, <1>1 DEF Idle, Queries
  <2>3. entry.list.stale \in Nat /\ entry.at \in Nat
    BY <1>0 DEF Lists
  <2>4. now < entry.list.stale + Ttl
    BY <1>0, <1>3, <2>3 DEF Fresh, CacheInv, TimeInv
  <2>5. hit.at <= now /\ hit.at < hit.list.stale + Ttl
    BY <1>0, <2>2, <2>4
  <2>6. hit \in Queries /\ hit.pc = "search"
    BY <2>2
  <2> HIDE DEF hit
  <2> QED BY <1>2, <2>1, <2>5, <2>6, QueryMoves
<1>4. CASE ~Fresh(entry)
  <2>1. query' = [query EXCEPT ![r] = miss]
    BY <1>4 DEF Lookup
  <2>2. /\ miss \in Queries /\ miss.pc = "fetch" /\ miss.at = now /\ miss.gen = gen
    BY <1>0, <1>1 DEF Idle, Queries
  <2>3. miss.at <= now /\ miss.gen <= gen
    BY <1>0, <2>2
  <2>4. miss \in Queries /\ miss.pc = "fetch"
    BY <2>2
  <2> HIDE DEF miss
  <2> QED BY <1>2, <2>1, <2>3, <2>4, QueryMoves
<1> QED BY <1>3, <1>4

\* A fetched list is the catalog of now.
LEMMA CacheFetch ==
  ASSUME CacheInv, NEW r \in Readers, StoreType, list_shards(r)
  PROVE  CacheInv'
<1> DEFINE list == [rows |-> catalog, change |-> changes, stale |-> Never, called |-> FALSE]
           q == [query[r] EXCEPT !.pc = "install", !.list = list]
<1>0. query[r] \in Queries /\ query \in [Readers -> Queries] /\ now \in 0..MaxTime
  BY DEF CacheInv, CacheType
<1>a. Len(shards) \in Nat /\ catalog \subseteq Nat /\ changes \in Nat
  BY DEF StoreType, ShardType, CatalogType
<1>1. list \in Lists /\ list.stale = MaxTime + 1 /\ list.called = FALSE
  BY CatalogAssumption, <1>a DEF Lists, Never
<1>2. UNCHANGED <<now, entry, gen>> /\ query' = [query EXCEPT ![r] = q]
  BY <1>0 DEF list_shards, cacheVars
<1> HIDE DEF list
<1>b. list \in Lists
  BY <1>1
<1>3. /\ q \in Queries /\ q.pc = "install" /\ q.at = query[r].at /\ q.gen = query[r].gen
      /\ q.list = list
  BY <1>0, <1>b DEF Queries
<1>4. query[r].pc = "fetch" /\ query[r].at <= now /\ query[r].gen <= gen /\ query[r].at \in Nat
  BY <1>0 DEF list_shards, CacheInv, TimeInv, GenInv, Queries
<1>5. q.at <= list.stale
  BY <1>0, <1>1, <1>3, <1>4, CatalogAssumption
<1> HIDE DEF q
<1> QED BY <1>1, <1>2, <1>3, <1>4, <1>5, QueryMoves

\* The scan, the search of the shard and the answer.
LEMMA CacheSearch ==
  ASSUME CacheInv, NEW r \in Readers, StoreType,
         recall_search(r) \/ search_one_shard(r) \/ Respond(r)
  PROVE  CacheInv'
<1>0. query[r] \in Queries /\ query \in [Readers -> Queries] /\ recall \subseteq Nat
  BY DEF CacheInv, CacheType, StoreType, LogType
<1>1. UNCHANGED <<now, entry, gen>>
  BY DEF recall_search, search_one_shard, Respond, cacheVars
<1>2. ASSUME NEW q \in Queries, query[r].pc = "search", q.pc = "search",
             q.at = query[r].at, q.list = query[r].list, query' = [query EXCEPT ![r] = q]
      PROVE  CacheInv'
  <2>1. q.at <= now /\ q.at < q.list.stale + Ttl
    BY <1>2 DEF CacheInv, TimeInv
  <2> QED BY <1>1, <1>2, <2>1, QueryMoves
<1>3. CASE recall_search(r)
  <2> DEFINE q == [query[r] EXCEPT !.scanned = TRUE,
                        !.found = {n \in recall : n > Watermark(Shard(query[r]))}]
  <2>1. q \in Queries /\ q.pc = query[r].pc /\ q.at = query[r].at /\ q.list = query[r].list
    BY <1>0 DEF Queries
  <2>2. query' = [query EXCEPT ![r] = q] /\ query[r].pc = "search"
    BY <1>0, <1>3 DEF recall_search
  <2> HIDE DEF q
  <2> QED BY <1>2, <2>1, <2>2
<1>4. CASE search_one_shard(r)
  <2> PICK how \in {"ok", "failed"} : query' = [query EXCEPT ![r].load = how]
    BY <1>4 DEF search_one_shard
  <2> DEFINE q == [query[r] EXCEPT !.load = how]
  <2>1. q \in Queries /\ q.pc = query[r].pc /\ q.at = query[r].at /\ q.list = query[r].list
    BY <1>0 DEF Queries
  <2>2. query' = [query EXCEPT ![r] = q] /\ query[r].pc = "search"
    BY <1>0, <1>4 DEF search_one_shard
  <2> HIDE DEF q
  <2> QED BY <1>2, <2>1, <2>2
<1>5. CASE Respond(r)
  <2>1. Idle \in Queries /\ Idle.pc = "idle"
    BY CatalogAssumption DEF Idle, Queries, NoList, Lists, Never
  <2>2. query' = [query EXCEPT ![r] = Idle]
    BY <1>5 DEF Respond
  <2> QED BY <1>1, <2>1, <2>2, QueryMoves
<1> QED BY <1>3, <1>4, <1>5

\* A list is installed only if no invalidation came since the lookup.
LEMMA CacheInstall ==
  ASSUME CacheInv, NEW r \in Readers, Install(r)
  PROVE  CacheInv'
<1> DEFINE q == [query[r] EXCEPT !.pc = "search", !.gen = 0]
<1>0. /\ query[r] \in Queries /\ query \in [Readers -> Queries] /\ now \in Nat
      /\ Ttl \in Nat \ {0} /\ gen \in Nat
  BY CatalogAssumption DEF CacheInv, CacheType
<1>1. query' = [query EXCEPT ![r] = q] /\ query[r].pc = "install" /\ now' = now
  BY <1>0 DEF Install
<1>2. /\ q \in Queries /\ q.pc = "search" /\ q.at = query[r].at /\ q.list = query[r].list
      /\ q.list.stale \in Nat /\ q.at \in Nat
  BY <1>0 DEF Queries, Lists
<1> HIDE DEF q
<1>3. \A s \in Readers : query'[s] = IF s = r THEN q ELSE query[s]
  BY <1>0, <1>1
<1>4. query[r].at <= now /\ query[r].at <= query[r].list.stale
  BY <1>1 DEF CacheInv, TimeInv
<1>5. entry' = entry \/ /\ entry' = [at |-> query[r].at, list |-> query[r].list]
                        /\ query[r].gen = gen
  BY DEF Install, Installed, SameGeneration
<1>6. ~entry'.list.called
  BY <1>1, <1>5 DEF CacheInv, GenInv, CacheType
<1>7. CacheType'
  BY <1>0, <1>1, <1>2, <1>5 DEF CacheInv, CacheType, Install, Queries
<1>8. TimeInv'
  <2>1. entry' # NoEntry => entry'.at <= now' /\ entry'.at <= entry'.list.stale
    BY <1>1, <1>4, <1>5 DEF CacheInv, TimeInv
  <2>2. query[r].at < query[r].list.stale + Ttl
    BY <1>0, <1>2, <1>4
  <2> QED BY <1>1, <1>2, <1>3, <1>4, <2>1, <2>2 DEF CacheInv, TimeInv
<1>9. GenInv'
  <2>1. ASSUME NEW s \in Readers, query'[s].pc \in {"fetch", "install"}
        PROVE  query'[s] = query[s] /\ gen' = gen
    BY <1>2, <1>3, <2>1 DEF Install, Noted
  <2> QED BY <1>6, <2>1 DEF CacheInv, GenInv
<1> QED BY <1>7, <1>8, <1>9 DEF CacheInv

\* An invalidation is newer than every generation a thread has noted.
LEMMA CacheDispatch ==
  ASSUME CacheInv, Dispatch
  PROVE  CacheInv'
<1>0. gen \in Nat /\ query \in [Readers -> Queries] /\ now' = now
  BY DEF CacheInv, CacheType, Dispatch
<1>1. entry' = NoEntry /\ NoEntry \in [at : Nat, list : Lists] /\ NoEntry.list.called = FALSE
  BY CatalogAssumption DEF Dispatch, invalidate, NoEntry, NoList, Lists, Never
<1>2. gen' \in Nat /\ \A r \in Readers : query[r].pc \in {"fetch", "install"} => query[r].gen < gen'
  <2>1. ASSUME NEW r \in Readers, query[r].pc \in {"fetch", "install"}
        PROVE  query[r].gen < gen'
    <3>1. gen' = gen + 1
      BY <2>1 DEF Dispatch, invalidate, Noted
    <3>2. query[r].gen <= gen /\ query[r].gen \in Nat
      BY <1>0, <2>1 DEF CacheInv, GenInv, Queries
    <3> QED BY <1>0, <3>1, <3>2
  <2> QED BY <1>0, <2>1 DEF Dispatch, invalidate
<1>3. ASSUME NEW r \in Readers
      PROVE  /\ query'[r] \in Queries
             /\ query'[r].pc = query[r].pc /\ query'[r].at = query[r].at
             /\ query'[r].gen = query[r].gen /\ query'[r].list.stale = query[r].list.stale
  <2>0. query[r] \in Queries /\ query[r].list \in Lists
    BY <1>0 DEF Queries
  <2>1. CASE query'[r] = query[r]
    BY <2>0, <2>1
  <2>2. CASE query'[r] = [query[r] EXCEPT !.list = Called(query[r].list, Head(wire))]
    <3>1. /\ Called(query[r].list, Head(wire)) \in Lists
          /\ Called(query[r].list, Head(wire)).stale = query[r].list.stale
      BY <2>0 DEF Called, Lists
    <3> QED BY <2>0, <2>2, <3>1 DEF Queries
  <2> QED BY <2>1, <2>2 DEF Dispatch
<1>4. query' \in [Readers -> Queries]
  BY <1>3 DEF Dispatch
<1>5. CacheType'
  BY <1>0, <1>1, <1>2, <1>4 DEF CacheInv, CacheType
<1>6. TimeInv'
  BY <1>0, <1>1, <1>3 DEF CacheInv, TimeInv
<1>7. GenInv'
  <2>1. \A r \in Readers : query[r].pc \in {"fetch", "install"} =>
                             query[r].gen <= gen' /\ query[r].gen < gen'
    BY <1>0, <1>2 DEF Queries
  <2> QED BY <1>1, <1>3, <2>1 DEF GenInv
<1> QED BY <1>5, <1>6, <1>7 DEF CacheInv

\* The entry may be displaced at any time.
LEMMA CacheDisplaced ==
  ASSUME CacheInv, Displaced
  PROVE  CacheInv'
<1>1. entry' = NoEntry /\ NoEntry \in [at : Nat, list : Lists] /\ NoEntry.list.called = FALSE
  BY CatalogAssumption DEF Displaced, NoEntry, NoList, Lists, Never
<1>2. UNCHANGED <<now, gen, query>>
  BY DEF Displaced
<1> QED BY <1>1, <1>2 DEF CacheInv, CacheType, TimeInv, GenInv

-----------------------------------------------------------------------------
(* The store and the catalog *)

\* The two newest shards of the catalog.
LEMMA NewestAndPrior ==
  ASSUME StoreType
  PROVE  /\ Newest \in catalog \cup {0} /\ \A g \in catalog : g <= Newest
         /\ Prior \in (catalog \ {Newest}) \cup {0} /\ \A g \in catalog \ {Newest} : g <= Prior
         /\ Newest \in Nat /\ Prior \in Nat
         /\ Prior # 0 => Prior \in catalog /\ Newest \in catalog /\ Prior < Newest
         /\ catalog \subseteq 1..Len(shards) /\ Len(shards) \in Nat
<1>0. Len(shards) \in Nat /\ catalog \subseteq 1..Len(shards)
  BY DEF StoreType, ShardType, CatalogType
<1>1. Newest \in catalog \cup {0} /\ \A g \in catalog : g <= Newest
  <2>1. catalog \cup {0} \subseteq 0..Len(shards) /\ catalog \cup {0} # {}
    BY <1>0
  <2> QED BY <1>0, <2>1, MaxIsLargest DEF Newest
<1>2. Prior \in (catalog \ {Newest}) \cup {0} /\ \A g \in catalog \ {Newest} : g <= Prior
  <2> DEFINE T == (catalog \ {Newest}) \cup {0}
  <2>1. T \subseteq 0..Len(shards) /\ T # {}
    <3>1. \A g \in catalog : g \in 0..Len(shards)
      BY <1>0
    <3>2. 0 \in T /\ 0 \in 0..Len(shards)
      BY <1>0
    <3>3. \A g \in T : g \in catalog \/ g = 0
      OBVIOUS
    <3> HIDE DEF T
    <3> QED BY <3>1, <3>2, <3>3
  <2>2. Max(T) \in T /\ \A k \in T : k <= Max(T)
    <3> HIDE DEF T
    <3> QED BY <1>0, <2>1, MaxIsLargest
  <2> QED BY <2>2 DEF Prior
<1> QED BY <1>0, <1>1, <1>2

\* The shards uploaded.
LEMMA ShardFacts ==
  ASSUME StoreType, NEW g \in 1..Len(shards)
  PROVE  shards[g] \in Shards /\ shards[g].lsn \in Nat /\ shards[g].rows \subseteq Nat
<1>1. shards[g] \in Shards
  BY DEF StoreType, ShardType
<1> QED BY <1>1 DEF Shards

\* Max is what no member exceeds.
LEMMA MaxIs ==
  ASSUME NEW T, NEW m \in T, T \subseteq Nat, \A k \in T : k <= m
  PROVE  Max(T) = m
<1>0. \A k \in T : k \in Nat
  OBVIOUS
<1>1. \E x \in T : \A y \in T : x >= y
  BY <1>0
<1>2. Max(T) \in T /\ \A y \in T : Max(T) >= y
  BY <1>1 DEF Max
<1>3. Max(T) \in Nat /\ m \in Nat /\ Max(T) >= m /\ m >= Max(T)
  BY <1>0, <1>2
<1> QED BY ONLY <1>3

\* The store's part of the invariant holds at the start.
LEMMA StoreInit == Init => StoreInv
<1> SUFFICES ASSUME Init PROVE StoreInv OBVIOUS
<1>1. StoreType
  BY DEF Init, StoreType, LogType, ShardType, CatalogType
<1>2. LifeInv /\ ShardsHold /\ Chained /\ OneFoldBehind
  BY DEF Init, LifeInv, ShardsHold, Chained, OneFoldBehind
<1> QED BY <1>1, <1>2 DEF StoreInv

\* The catalog stays: so do its newest shards, and what they hold.
LEMMA CatalogStays ==
  ASSUME UNCHANGED catalog
  PROVE  Newest' = Newest /\ Prior' = Prior
  BY DEF Newest, Prior

\* What the steps on the store, on shards and on fold have to say when the catalog,
\* the shards and recall stay.
LEMMA StoreQuiet ==
  ASSUME StoreInv, UNCHANGED <<live, life, lsn, recall, lifeOf, shards, catalog, changes>>,
         fold' \in [pc : {"idle", "built", "committed"}, shard : Nat],
         fold'.pc = "built" => fold' = fold
  PROVE  StoreInv'
<1>1. StoreType'
  BY DEF StoreInv, StoreType, LogType, ShardType, CatalogType
<1>2. LifeInv' /\ ShardsHold'
  BY DEF StoreInv, LifeInv, ShardsHold
<1>3. Chained'
  BY DEF StoreInv, Chained
<1>4. OneFoldBehind'
  BY CatalogStays DEF StoreInv, OneFoldBehind, Records
<1> QED BY <1>1, <1>2, <1>3, <1>4 DEF StoreInv

\* A record is in recall with a new LSN.
LEMMA StoreUpsert ==
  ASSUME StoreInv, recall_upsert_vectors
  PROVE  StoreInv'
<1>0. /\ lsn \in Nat /\ life \in Nat /\ lsn' = lsn + 1 /\ recall' = recall \cup {lsn + 1}
      /\ lifeOf' = Append(lifeOf, life)
      /\ UNCHANGED <<live, life, shards, catalog, changes, fold>>
  BY DEF StoreInv, StoreType, LogType, recall_upsert_vectors, catalogVars
<1>1. /\ lifeOf' \in Seq(Nat) /\ Len(lifeOf') = lsn + 1 /\ lifeOf'[lsn + 1] = life
      /\ \A n \in 1..lsn : lifeOf'[n] = lifeOf[n]
  BY <1>0 DEF StoreInv, StoreType, LogType
<1>2. \A n \in 1..lsn' : n \in 1..lsn \/ n = lsn + 1
  BY <1>0
<1>3. StoreType'
  <2>1. recall' \subseteq 1..lsn + 1
    BY <1>0 DEF StoreInv, StoreType, LogType, ShardType, CatalogType
  <2> QED BY <1>0, <1>1, <2>1 DEF StoreInv, StoreType, LogType, ShardType, CatalogType
<1>4. LifeInv'
  <2>1. \A n \in 1..lsn' : lifeOf'[n] <= life'
    BY <1>0, <1>1, <1>2 DEF StoreInv, LifeInv
  <2>2. \A g \in 1..Len(shards) : /\ shards[g].lsn \in Nat /\ shards[g].lsn <= lsn
                                  /\ shards[g].rows \subseteq 1..lsn
    BY ShardFacts DEF StoreInv, LifeInv
  <2>3. \A g \in 1..Len(shards) : shards[g].lsn <= lsn + 1
    BY <2>2, <1>0
  <2>4. 1..lsn \subseteq 1..lsn + 1
    BY <1>0
  <2>5. \A g \in 1..Len(shards) : shards[g].rows \subseteq 1..lsn + 1
    BY <2>2, <2>4
  <2> QED BY <1>0, <2>1, <2>3, <2>5 DEF LifeInv
<1>5. ShardsHold'
  <2> SUFFICES ASSUME live, NEW g \in 1..Len(shards), NEW n \in 1..lsn',
                      lifeOf'[n] = life, n <= shards[g].lsn
               PROVE  n \in shards[g].rows
    BY <1>0 DEF ShardsHold
  <2>1. shards[g].lsn <= lsn /\ shards[g].lsn \in Nat
    BY ShardFacts DEF StoreInv, LifeInv
  <2>2. n \in 1..lsn
    BY <1>0, <2>1
  <2> QED BY <1>1, <2>2 DEF StoreInv, ShardsHold
<1>6. Chained'
  BY <1>0 DEF StoreInv, Chained
<1>7. OneFoldBehind'
  <2>1. Prior' = Prior /\ Records(Prior)' = Records(Prior)
    BY <1>0, CatalogStays DEF Records
  <2> QED BY <1>0, <1>1, <1>2, <2>1 DEF StoreInv, OneFoldBehind
<1> QED BY <1>3, <1>4, <1>5, <1>6, <1>7 DEF StoreInv

\* Deleting a dataset takes its catalog rows and leaves its records in recall.
LEMMA StoreDelete ==
  ASSUME StoreInv, delete_dataset_endpoint
  PROVE  StoreInv'
<1>1. /\ live' = FALSE /\ catalog' = {} /\ changes' = changes + 1
      /\ UNCHANGED <<life, lsn, recall, lifeOf, shards, fold>>
  BY DEF delete_dataset_endpoint, delete_dataset, Change
<1>2. StoreType'
  <2>1. LogType' /\ ShardType'
    BY <1>1 DEF StoreInv, StoreType, LogType, ShardType
  <2>2. CatalogType'
    BY <1>1 DEF StoreInv, StoreType, CatalogType
  <2> QED BY <2>1, <2>2 DEF StoreType
<1>3. LifeInv' /\ ShardsHold' /\ OneFoldBehind'
  BY <1>1 DEF StoreInv, LifeInv, ShardsHold, OneFoldBehind
<1>4. Chained'
  BY <1>1 DEF StoreInv, Chained
<1> QED BY <1>2, <1>3, <1>4 DEF StoreInv

\* No record is of the life that begins.
LEMMA StoreCreate ==
  ASSUME StoreInv, create_dataset_endpoint
  PROVE  StoreInv'
<1>1. /\ live' = TRUE /\ life' = life + 1 /\ life \in Nat
      /\ UNCHANGED <<lsn, recall, lifeOf, shards, catalog, changes, fold>>
  BY DEF create_dataset_endpoint, create_dataset, catalogVars, StoreInv, StoreType, LogType, ShardType, CatalogType
<1>2. \A n \in 1..lsn : lifeOf[n] \in Nat /\ lifeOf[n] <= life
  BY DEF StoreInv, StoreType, LogType, LifeInv
<1>3. \A n \in 1..lsn : lifeOf[n] <= life + 1 /\ lifeOf[n] # life + 1
  BY <1>1, <1>2
<1>4. StoreType' /\ Chained'
  BY <1>1 DEF StoreInv, StoreType, LogType, ShardType, CatalogType, Chained
<1>5. LifeInv'
  BY <1>1, <1>3 DEF StoreInv, LifeInv
<1>6. ShardsHold' /\ OneFoldBehind'
  BY <1>1, <1>3 DEF ShardsHold, OneFoldBehind
<1> QED BY <1>4, <1>5, <1>6 DEF StoreInv

\* What is uploaded holds the records of this life up to its watermark, and what
\* every shard of the catalog holds.
LEMMA StoreBuild ==
  ASSUME StoreInv, BuildShard
  PROVE  StoreInv'
<1> DEFINE new == [lsn |-> Max(recall), rows |-> recall \cup Records(Newest)]
           G == Len(shards) + 1
<1>0. /\ recall # {} /\ shards' = Append(shards, new) /\ fold' = [pc |-> "built", shard |-> G]
      /\ UNCHANGED <<live, life, lsn, recall, lifeOf, catalog, changes>>
  BY DEF BuildShard, storeVars
<1>1. /\ lsn \in Nat /\ recall \subseteq 1..lsn /\ Len(shards) \in Nat /\ shards \in Seq(Shards)
  BY DEF StoreInv, StoreType, LogType, ShardType
<1>2. Max(recall) \in recall
  <2>1. recall \subseteq 0..lsn
    BY <1>1
  <2> QED BY <1>0, <1>1, <2>1, MaxIsLargest
<1>3. Records(Newest) \subseteq 1..lsn /\ \A g \in catalog : shards[g].rows \subseteq Records(Newest)
  <2>1. Newest \in 1..Len(shards) => shards[Newest].rows \subseteq 1..lsn
    BY DEF StoreInv, LifeInv
  <2>2. \A g \in catalog : Newest \in catalog /\ g <= Newest /\ Newest # 0
    BY NewestAndPrior DEF StoreInv
  <2>3. Newest # 0 => Newest \in 1..Len(shards)
    BY NewestAndPrior DEF StoreInv
  <2> QED BY <2>1, <2>2, <2>3 DEF Records, StoreInv, Chained
<1>4. /\ new \in Shards /\ new.lsn \in 1..lsn /\ new.rows = recall \cup Records(Newest)
      /\ new.rows \subseteq 1..lsn
  <2> DEFINE m == Max(recall)
             held == recall \cup Records(Newest)
  <2>0. lsn \in Nat /\ recall \subseteq 1..lsn /\ 1..lsn \subseteq Nat
    BY <1>1
  <2>1. m \in 1..lsn /\ m \in Nat
    BY <2>0, <1>2
  <2>2. held \subseteq 1..lsn /\ held \in SUBSET Nat
    BY <2>0, <1>3
  <2> HIDE DEF m, held
  <2>3. [lsn |-> m, rows |-> held] \in Shards
    BY <2>1, <2>2 DEF Shards
  <2> QED BY <2>1, <2>2, <2>3 DEF m, held
<1> HIDE DEF new
<1>5. /\ shards' \in Seq(Shards) /\ Len(shards') = G /\ shards'[G] = new /\ G \in Nat /\ G > 0
      /\ \A g \in 1..Len(shards) : shards'[g] = shards[g]
      /\ \A g \in 1..G : g = G \/ g \in 1..Len(shards)
  BY <1>0, <1>1, <1>4
<1> HIDE DEF G
<1>6. StoreType'
  <2>1. LogType'
    BY <1>0 DEF StoreInv, StoreType, LogType
  <2>2. ShardType'
    BY <1>5 DEF ShardType
  <2>3. catalog \subseteq 1..G
    BY <1>1, <1>5, NewestAndPrior DEF StoreInv, G
  <2>4. CatalogType'
    BY <1>0, <1>5, <2>3 DEF StoreInv, StoreType, CatalogType
  <2> QED BY <2>1, <2>2, <2>4 DEF StoreType
<1>7. LifeInv'
  <2>1. \A n \in 1..lsn' : lifeOf'[n] <= life'
    BY <1>0 DEF StoreInv, LifeInv
  <2>2. ASSUME NEW g \in 1..Len(shards') PROVE shards'[g].lsn <= lsn' /\ shards'[g].rows \subseteq 1..lsn'
    <3>1. CASE g = G
      <4>1. new.lsn <= lsn
        BY <1>1, <1>4
      <4> QED BY <1>0, <1>4, <1>5, <3>1, <4>1
    <3>2. CASE g \in 1..Len(shards)
      BY <1>0, <1>5, <3>2 DEF StoreInv, LifeInv
    <3> QED BY <1>5, <3>1, <3>2
  <2> QED BY <2>1, <2>2 DEF LifeInv
<1>8. ShardsHold'
  <2> SUFFICES ASSUME live, NEW g \in 1..Len(shards'), NEW n \in 1..lsn,
                      lifeOf[n] = life, n <= shards'[g].lsn
               PROVE  n \in shards'[g].rows
    BY <1>0 DEF ShardsHold
  <2>1. CASE g = G
    <3>1. n \in recall \cup Records(Prior)
      BY DEF StoreInv, OneFoldBehind
    <3>2. Records(Prior) \subseteq Records(Newest)
      BY <1>3, NewestAndPrior DEF Records, StoreInv
    <3> QED BY <1>4, <1>5, <2>1, <3>1, <3>2
  <2>2. CASE g \in 1..Len(shards)
    BY <1>5, <2>2 DEF StoreInv, ShardsHold
  <2> QED BY <1>5, <2>1, <2>2
<1>9. Chained'
  <2>1. \A g \in catalog : g \in 1..Len(shards)
    BY NewestAndPrior DEF StoreInv
  <2>2. \A g \in catalog, h \in catalog : g <= h => shards'[g].rows \subseteq shards'[h].rows
    BY <1>5, <2>1 DEF StoreInv, Chained
  <2>3. \A g \in catalog : shards'[g].rows \subseteq shards'[G].rows
    BY <1>3, <1>4, <1>5, <2>1
  <2>4. G \notin catalog
    BY <1>1, <2>1 DEF G
  <2> QED BY <1>0, <1>5, <2>2, <2>3, <2>4 DEF Chained
<1>10. OneFoldBehind'
  <2>1. Prior' = Prior
    BY <1>0, CatalogStays
  <2>2. Prior # 0 => Prior \in 1..Len(shards)
    BY NewestAndPrior DEF StoreInv
  <2>3. Records(Prior)' = Records(Prior)
    BY <1>5, <2>1, <2>2 DEF Records
  <2> QED BY <1>0, <2>3 DEF StoreInv, OneFoldBehind
<1> QED BY <1>6, <1>7, <1>8, <1>9, <1>10 DEF StoreInv

\* The shard that is committed becomes the newest one, and the newest the prior.
LEMMA CommitEffect ==
  ASSUME StoreInv, add_shard
  PROVE  /\ catalog' = catalog \cup {fold.shard} /\ changes' = changes + 1
         /\ UNCHANGED <<live, life, lsn, recall, lifeOf, shards>>
         /\ fold.pc = "built" /\ fold' = [fold EXCEPT !.pc = "committed"]
         /\ fold.shard = Len(shards) /\ fold.shard \in 1..Len(shards)
         /\ Newest' = fold.shard
         /\ fold.shard \notin catalog /\ Prior' = Newest
<1>1. /\ catalog' = catalog \cup {fold.shard} /\ changes' = changes + 1
      /\ UNCHANGED <<live, life, lsn, recall, lifeOf, shards>>
      /\ fold.pc = "built" /\ fold' = [fold EXCEPT !.pc = "committed"]
  BY DEF add_shard, Change, storeVars
<1>2. /\ fold.shard = Len(shards) /\ fold.shard \in 1..Len(shards) /\ fold.shard \in Nat
      /\ fold.shard \notin catalog
  BY <1>1, NewestAndPrior DEF StoreInv, Chained
<1>3. \A g \in catalog : g \in Nat /\ g <= fold.shard /\ g # 0
  BY <1>2, NewestAndPrior DEF StoreInv
<1>4. Newest' = fold.shard
  <2> DEFINE T == catalog \cup {fold.shard} \cup {0}
  <2>1. fold.shard \in T /\ T \subseteq Nat /\ \A k \in T : k <= fold.shard
    BY <1>2, <1>3
  <2>2. Max(T) = fold.shard
    <3> HIDE DEF T
    <3> QED BY <2>1, MaxIs
  <2> QED BY <1>1, <2>2 DEF Newest
<1>5. Prior' = Newest
  <2>1. (catalog' \ {Newest'}) \cup {0} = catalog \cup {0}
    BY <1>1, <1>2, <1>4
  <2> QED BY <2>1 DEF Prior, Newest
<1> QED BY <1>1, <1>2, <1>4, <1>5

\* A committed shard holds what the fold read.
LEMMA StoreCommit ==
  ASSUME StoreInv, add_shard
  PROVE  StoreInv'
<1>0. /\ catalog' = catalog \cup {fold.shard} /\ changes' = changes + 1
      /\ UNCHANGED <<live, life, lsn, recall, lifeOf, shards>>
      /\ fold.pc = "built" /\ fold' = [fold EXCEPT !.pc = "committed"]
      /\ fold.shard = Len(shards) /\ fold.shard \in 1..Len(shards)
      /\ Newest' = fold.shard /\ Prior' = Newest
  BY CommitEffect
<1>1. StoreType'
  <2>1. LogType' /\ ShardType'
    BY <1>0 DEF StoreInv, StoreType, LogType, ShardType
  <2>2. CatalogType'
    BY <1>0 DEF StoreInv, StoreType, CatalogType
  <2> QED BY <2>1, <2>2 DEF StoreType
<1>2. LifeInv' /\ ShardsHold'
  BY <1>0 DEF StoreInv, LifeInv, ShardsHold
<1>3. Chained'
  <2>1. fold'.pc = "committed"
    BY <1>0 DEF StoreInv, StoreType, CatalogType
  <2>2. \A g \in catalog : shards[g].rows \subseteq shards[fold.shard].rows
    BY <1>0 DEF StoreInv, Chained
  <2>3. \A g \in catalog : g \in Nat /\ ~(fold.shard <= g)
    <3>1. \A g \in catalog : g \in 1..Len(shards) /\ g # fold.shard /\ Len(shards) \in Nat
      BY CommitEffect, NewestAndPrior DEF StoreInv
    <3> QED BY <1>0, <3>1
  <2>4. \A g \in catalog', h \in catalog' : g <= h => shards[g].rows \subseteq shards[h].rows
    BY <1>0, <2>2, <2>3 DEF StoreInv, Chained
  <2> QED BY <1>0, <2>1, <2>4 DEF Chained
<1>4. OneFoldBehind'
  <2>1. Records(Prior) \subseteq Records(Newest)
    <3>1. CASE Prior = 0
      BY <3>1 DEF Records
    <3>2. CASE Prior # 0
      <4>1. Prior \in catalog /\ Newest \in catalog /\ Prior <= Newest /\ Newest # 0
        BY <3>2, NewestAndPrior DEF StoreInv
      <4> QED BY <3>2, <4>1 DEF Records, StoreInv, Chained
    <3> QED BY <3>1, <3>2
  <2>2. Records(Prior)' = Records(Newest)
    BY <1>0 DEF Records
  <2> QED BY <1>0, <2>1, <2>2 DEF StoreInv, OneFoldBehind
<1> QED BY <1>1, <1>2, <1>3, <1>4 DEF StoreInv

\* The sweep leaves the two newest shards, the trim what is above the older one.
LEMMA SweepEffect ==
  ASSUME StoreInv, SweepAndTrim
  PROVE  /\ UNCHANGED <<live, life, lsn, lifeOf, shards>>
         /\ recall' = {n \in recall : n > Watermark(Prior)}
         /\ fold' = [pc |-> "idle", shard |-> 0]
         /\ catalog' = catalog \ Superseded
         /\ Newest' = Newest /\ Prior' = Prior
         /\ catalog = {} => catalog' = catalog
         /\ \/ changes' = changes /\ catalog' = catalog /\ UNCHANGED <<entry, query>>
            \/ changes' = changes + 1 /\ Change(catalog')
<1>1. /\ UNCHANGED <<live, life, lsn, lifeOf, shards>>
      /\ recall' = {n \in recall : n > Watermark(Prior)}
      /\ fold' = [pc |-> "idle", shard |-> 0]
  BY DEF SweepAndTrim, Trimmed
<1>2. /\ catalog' = catalog \ Superseded
      /\ \/ changes' = changes /\ catalog' = catalog /\ UNCHANGED <<entry, query>>
         \/ changes' = changes + 1 /\ Change(catalog')
  <2>1. CASE Superseded = {}
    BY <2>1 DEF SweepAndTrim
  <2>2. CASE Superseded # {}
    <3>1. Change(catalog \ Superseded)
      BY <2>2 DEF SweepAndTrim
    <3>2. catalog' = catalog \ Superseded /\ changes' = changes + 1
      BY <3>1 DEF Change
    <3> QED BY <3>1, <3>2
  <2> QED BY <2>1, <2>2
<1>3. \A g \in catalog' : g \in catalog /\ (g = Newest \/ g = Prior)
  BY <1>2 DEF Superseded
<1>4. \A g \in catalog : g = Newest \/ g = Prior => g \in catalog'
  BY <1>2 DEF Superseded
<1>5. /\ Newest \in catalog \cup {0} /\ Prior \in (catalog \ {Newest}) \cup {0}
      /\ Newest \in Nat /\ Prior \in Nat /\ Prior <= Newest
      /\ \A g \in catalog : g \in Nat
  <2>1. \A g \in 1..Len(shards) : g \in Nat
    BY NewestAndPrior DEF StoreInv
  <2> QED BY <2>1, NewestAndPrior DEF StoreInv
<1>6. Newest' = Newest
  <2> DEFINE T == catalog' \cup {0}
  <2>1. Newest \in T /\ T \subseteq Nat /\ \A k \in T : k <= Newest
    BY <1>3, <1>4, <1>5
  <2>2. Max(T) = Newest
    <3> HIDE DEF T
    <3> QED BY <2>1, MaxIs
  <2> QED BY <2>2 DEF Newest
<1>7. Prior' = Prior
  <2> DEFINE T == (catalog' \ {Newest}) \cup {0}
  <2>1. Prior \in T /\ T \subseteq Nat /\ \A k \in T : k <= Prior
    BY <1>3, <1>4, <1>5
  <2>2. Max(T) = Prior
    <3> HIDE DEF T
    <3> QED BY <2>1, MaxIs
  <2> QED BY <1>6, <2>2 DEF Prior
<1> QED BY <1>1, <1>2, <1>3, <1>6, <1>7

\* Sweep and trim keep the records: the older retained shard has those recall loses.
LEMMA StoreSweep ==
  ASSUME StoreInv, SweepAndTrim
  PROVE  StoreInv'
<1>0. /\ UNCHANGED <<live, life, lsn, lifeOf, shards>>
      /\ recall' = {n \in recall : n > Watermark(Prior)}
      /\ fold' = [pc |-> "idle", shard |-> 0]
      /\ catalog' \subseteq catalog
      /\ Prior' = Prior
      /\ changes' = changes \/ changes' = changes + 1
  BY SweepEffect
<1>1. StoreType'
  <2>1. LogType' /\ ShardType'
    BY <1>0 DEF StoreInv, StoreType, LogType, ShardType
  <2>2. CatalogType'
    BY <1>0 DEF StoreInv, StoreType, CatalogType
  <2> QED BY <2>1, <2>2 DEF StoreType
<1>2. LifeInv' /\ ShardsHold'
  BY <1>0 DEF StoreInv, LifeInv, ShardsHold
<1>3. Chained'
  BY <1>0 DEF StoreInv, Chained
<1>4. OneFoldBehind'
  <2> SUFFICES ASSUME live, NEW n \in 1..lsn, lifeOf[n] = life, n \notin recall'
               PROVE  n \in Records(Prior)
    BY <1>0 DEF OneFoldBehind, Records
  <2>1. CASE n \notin recall
    BY <2>1 DEF StoreInv, OneFoldBehind
  <2>2. CASE ~(n > Watermark(Prior))
    <3>1. lsn \in Nat /\ n \in Nat /\ n # 0
      BY DEF StoreInv, StoreType, LogType
    <3>2. Prior # 0
      BY <2>2, <3>1 DEF Watermark
    <3>3. Prior \in 1..Len(shards)
      BY <3>2, NewestAndPrior DEF StoreInv
    <3>4. n <= shards[Prior].lsn
      BY <2>2, <3>1, <3>2, <3>3, ShardFacts DEF Watermark, StoreInv
    <3> QED BY <3>2, <3>3, <3>4 DEF Records, StoreInv, ShardsHold
  <2> QED BY <1>0, <2>1, <2>2
<1> QED BY <1>1, <1>2, <1>3, <1>4 DEF StoreInv

-----------------------------------------------------------------------------
(* Lists in hand *)

\* A list some thread or the cache may still resolve a shard from.
InHand(list) ==
  \/ entry # NoEntry /\ list = entry.list
  \/ \E r \in Readers : query[r].pc \in {"install", "search"} /\ list = query[r].list

\* The lists that must hold the data are the ones some thread or the cache has in hand.
LEMMA InHandHolds == ListsHold <=> \A list : InHand(list) => ListHolds(list)
  BY DEF ListsHold, InHand

\* The same for the state after a step.
LEMMA InHandHoldsNext == ListsHold' <=> \A list : InHand(list)' => ListHolds(list)'
  BY DEF ListsHold, InHand, ListHolds

\* A list in hand is a list of shards.
LEMMA InHandType ==
  ASSUME CacheType, NEW list, InHand(list)
  PROVE  list \in Lists /\ list.rows \subseteq Nat /\ list.change \in Nat
<1>1. list \in Lists
  <2>1. ASSUME NEW r \in Readers PROVE query[r].list \in Lists
    BY DEF CacheType, Queries
  <2> QED BY <2>1 DEF InHand, CacheType
<1> QED BY <1>1 DEF Lists

\* After a step every list in hand was in hand before, but for its marks, or has
\* just been read.
OldOrNew ==
  \A list :
    InHand(list)' =>
      \/ \E old : InHand(old) /\ list.rows = old.rows /\ list.change = old.change
      \/ list.rows = catalog /\ list.change = changes /\ UNCHANGED <<catalog, changes>>

\* A step changes the catalog not at all, or once, and then it empties it or the
\* newest shard stays one of the two newest.
OneChange ==
  \/ UNCHANGED <<catalog, changes>>
  \/ changes' = changes + 1 /\ (catalog' = {} \/ Newest \in {Newest', Prior'})

\* A list that is at most one change old stays complete over one more change of the right kind.
LEMMA ListsStep ==
  ASSUME CacheType, StoreInv, ListsHold, OldOrNew, OneChange,
         Len(shards) <= Len(shards'), Len(shards') \in Nat
  PROVE  ListsHold'
<1>0. Len(shards) \in Nat /\ changes \in Nat /\ catalog \subseteq 1..Len(shards)
  BY NewestAndPrior DEF StoreInv, StoreType, CatalogType
<1>1. 1..Len(shards) \subseteq 1..Len(shards')
  BY <1>0
<1>2. ASSUME NEW list, NEW old, InHand(old), list.rows = old.rows, list.change = old.change
      PROVE  ListHolds(list)'
  <2>1. old.change \in Nat /\ ListHolds(old)
    BY <1>2, InHandType, InHandHolds
  <2> DEFINE shard == Max(old.rows \cup {0})
  <2> HIDE DEF shard
  <2>2. /\ old.rows \subseteq 1..Len(shards) /\ old.change <= changes
        /\ changes = old.change => shard = Newest
        /\ changes = old.change + 1 => catalog = {} \/ shard \in {Newest, Prior}
    BY <2>1 DEF ListHolds, shard
  <2>3. /\ old.change <= changes'
        /\ changes' = old.change => shard = Newest'
        /\ changes' = old.change + 1 => catalog' = {} \/ shard \in {Newest', Prior'}
    <3>1. CASE UNCHANGED <<catalog, changes>>
      BY <2>2, <3>1, CatalogStays
    <3>2. CASE changes' = changes + 1 /\ (catalog' = {} \/ Newest \in {Newest', Prior'})
      BY <1>0, <2>1, <2>2, <3>2
    <3> QED BY <3>1, <3>2 DEF OneChange
  <2>4. list.rows \subseteq 1..Len(shards')
    BY <1>1, <1>2, <2>2
  <2> QED BY <1>2, <2>3, <2>4 DEF ListHolds, shard
<1>3. ASSUME NEW list, list.rows = catalog, list.change = changes, UNCHANGED <<catalog, changes>>
      PROVE  ListHolds(list)'
  <2>1. Max(list.rows \cup {0}) = Newest /\ Newest' = Newest
    BY <1>3, CatalogStays DEF Newest
  <2> QED BY <1>0, <1>1, <1>3, <2>1 DEF ListHolds
<1>4. ASSUME NEW list, InHand(list)' PROVE ListHolds(list)'
  BY <1>2, <1>3, <1>4 DEF OldOrNew
<1> QED BY <1>4, InHandHoldsNext

-----------------------------------------------------------------------------
(* What queries want *)

\* The log and the uploaded shards only grow, recall gains new records only, and a
\* dataset that is live again is another one.
Grows ==
  /\ life <= life' /\ (life' = life => (live' => live))
  /\ lsn <= lsn' /\ \A n \in 1..lsn : lifeOf'[n] = lifeOf[n]
  /\ recall' \cap (1..lsn) \subseteq recall
  /\ Len(shards) <= Len(shards')
  /\ \A g \in 1..Len(shards) : shards'[g] = shards[g]

\* A thread has gone on without a new scan.
GoesOn(r) ==
  /\ query'[r].life = query[r].life /\ query'[r].want = query[r].want
  /\ query'[r].found = query[r].found /\ query'[r].scanned = query[r].scanned
  /\ query[r].scanned => query'[r].list.rows = query[r].list.rows /\ query'[r].pc = "search"
  /\ query'[r].pc # "idle" => query[r].pc # "idle"

WantOf(r) ==
  /\ query[r].life <= life
  /\ query[r].pc # "idle" /\ live /\ query[r].life = life =>
       /\ \A n \in query[r].want : n \in 1..lsn /\ lifeOf[n] = life
       /\ query[r].scanned => query[r].want \cap recall \subseteq Answer(query[r])
  /\ query[r].scanned => query[r].pc = "search"

\* What a scanned query's shard holds does not change any more.
LEMMA AnswerStays ==
  ASSUME CacheType, StoreType, ListsHold, Grows, NEW r \in Readers, GoesOn(r),
         query[r].scanned, query[r].pc = "search"
  PROVE  Answer(query[r])' = Answer(query[r])
<1> DEFINE rows == query[r].list.rows
<1>1. query'[r].list.rows = rows /\ query'[r].found = query[r].found
  BY DEF GoesOn
<1>2. rows \subseteq 1..Len(shards) /\ Len(shards) \in Nat
  BY NewestAndPrior DEF ListsHold, ListHolds
<1> HIDE DEF rows
<1>3. Max(rows \cup {0}) \in rows \cup {0}
  <2>1. rows \cup {0} \subseteq 0..Len(shards) /\ rows \cup {0} # {}
    BY <1>2
  <2> QED BY <1>2, <2>1, MaxIsLargest
<1>4. Shard(query[r])' = Max(rows \cup {0}) /\ Shard(query[r]) = Max(rows \cup {0})
  BY <1>1 DEF Shard, rows
<1>5. Shard(query[r]) = 0 \/ shards'[Shard(query[r])] = shards[Shard(query[r])]
  BY <1>2, <1>3, <1>4 DEF Grows
<1>6. Records(Shard(query[r]))' = Records(Shard(query[r]))
  BY <1>4, <1>5 DEF Records
<1> QED BY <1>1, <1>6 DEF Answer

\* What a query must find stays findable in its list or in recall while it goes on.
LEMMA WantStays ==
  ASSUME CacheType, StoreType, ListsHold, Grows, NEW r \in Readers, GoesOn(r), WantOf(r),
         life \in Nat, life' \in Nat, lsn \in Nat, lsn' \in Nat
  PROVE  WantOf(r)'
<1>0. query[r].life \in Nat
  BY DEF CacheType, Queries
<1>1. query'[r].life <= life'
  BY <1>0 DEF WantOf, GoesOn, Grows
<1>2. ASSUME query'[r].pc # "idle", live', query'[r].life = life'
      PROVE  /\ \A n \in query'[r].want : n \in 1..lsn' /\ lifeOf'[n] = life'
             /\ query'[r].scanned => query'[r].want \cap recall' \subseteq Answer(query[r])'
  <2>1. query[r].pc # "idle" /\ live /\ query[r].life = life /\ life' = life
    BY <1>0, <1>2 DEF WantOf, GoesOn, Grows
  <2>2. \A n \in query[r].want : n \in 1..lsn /\ lifeOf[n] = life
    BY <2>1 DEF WantOf
  <2>3. 1..lsn \subseteq 1..lsn'
    BY DEF Grows
  <2>4. \A n \in query'[r].want : n \in 1..lsn' /\ lifeOf'[n] = life'
    BY <2>1, <2>2, <2>3 DEF GoesOn, Grows
  <2>5. ASSUME query'[r].scanned
        PROVE  query'[r].want \cap recall' \subseteq Answer(query[r])'
    <3>1. query[r].scanned /\ query[r].pc = "search"
      BY <2>5 DEF GoesOn, WantOf
    <3>2. Answer(query[r])' = Answer(query[r])
      BY <3>1, AnswerStays
    <3>3. query[r].want \cap recall \subseteq Answer(query[r])
      BY <2>1, <3>1 DEF WantOf
    <3>4. query'[r].want \cap recall' \subseteq query[r].want \cap recall
      BY <2>2 DEF GoesOn, Grows
    <3> QED BY <3>2, <3>3, <3>4
  <2> QED BY <2>4, <2>5
<1>3. query'[r].scanned => query'[r].pc = "search"
  BY DEF GoesOn
<1> QED BY <1>1, <1>2, <1>3 DEF WantOf

\* The invariant follows from the parts of it that a step may disturb.
LEMMA CatalogStep ==
  ASSUME CatalogInv, CacheInv', StoreInv', OldOrNew, OneChange, Grows,
         \A r \in Readers : GoesOn(r) \/ WantOf(r)'
  PROVE  CatalogInv'
<1>0. CacheType /\ StoreInv /\ StoreType /\ ListsHold /\ \A r \in Readers : WantOf(r)
  BY DEF CatalogInv, CacheInv, StoreInv, WantInv, WantOf
<1>1. /\ life \in Nat /\ lsn \in Nat /\ life' \in Nat /\ lsn' \in Nat
      /\ Len(shards') \in Nat
  BY <1>0 DEF StoreInv, StoreType, LogType, ShardType
<1>2. ListsHold'
  BY <1>0, <1>1, ListsStep DEF Grows
<1>3. \A r \in Readers : WantOf(r)'
  BY <1>0, <1>1, WantStays
<1>4. WantInv'
  BY <1>3 DEF WantInv, WantOf
<1> QED BY <1>2, <1>4 DEF CatalogInv

\* The lists and the queries are not touched.
LEMMA NothingInHandMoves ==
  ASSUME UNCHANGED <<entry, query>>, CacheType, WantInv
  PROVE  OldOrNew /\ \A r \in Readers : GoesOn(r)
<1>1. OldOrNew
  BY DEF OldOrNew, InHand
<1>2. \A r \in Readers : GoesOn(r)
  BY DEF GoesOn, WantInv
<1> QED BY <1>1, <1>2

\* Nothing but the fold's place, time or the connection moves.
LEMMA StoreStays ==
  ASSUME StoreInv, UNCHANGED <<live, life, lsn, recall, lifeOf, shards>>
  PROVE  Grows
<1>1. life \in Nat /\ lsn \in Nat /\ Len(shards) \in Nat
  BY DEF StoreInv, StoreType, LogType, ShardType
<1> QED BY <1>1 DEF Grows

\* Steps that touch neither store nor cache: the clock, the listener, faults.
LEMMA QuietSteps ==
  ASSUME CatalogInv, StoreInv', UNCHANGED <<storeVars, shards, catalog, changes, cacheVars, query>>,
         now' = now \/ (now < MaxTime /\ now' = now + 1)
  PROVE  CatalogInv'
<1>1. CacheInv'
  BY CacheStays DEF CatalogInv
<1>2. Grows
  BY StoreStays DEF CatalogInv, storeVars
<1>3. OldOrNew /\ \A r \in Readers : GoesOn(r)
  BY NothingInHandMoves DEF CatalogInv, CacheInv, cacheVars
<1>4. OneChange
  BY DEF OneChange
<1> QED BY <1>1, <1>2, <1>3, <1>4, CatalogStep

\* Writes, a new life and a new shard that nobody knows of yet.
LEMMA StoreSteps ==
  ASSUME CatalogInv, recall_upsert_vectors \/ create_dataset_endpoint \/ BuildShard
  PROVE  CatalogInv'
<1>0. UNCHANGED <<now, catalog, changes, entry, gen, query>>
  BY DEF recall_upsert_vectors, create_dataset_endpoint, BuildShard, catalogVars, cacheVars
<1>1. CacheInv'
  BY <1>0, CacheStays DEF CatalogInv, cacheVars
<1>2. StoreInv'
  BY StoreUpsert, StoreCreate, StoreBuild DEF CatalogInv
<1>3. OldOrNew /\ \A r \in Readers : GoesOn(r)
  BY <1>0, NothingInHandMoves DEF CatalogInv, CacheInv
<1>4. OneChange
  BY <1>0 DEF OneChange
<1>5. /\ life \in Nat /\ lsn \in Nat /\ Len(shards) \in Nat /\ lifeOf \in Seq(Nat)
      /\ Len(lifeOf) = lsn /\ shards \in Seq(Shards)
  BY DEF CatalogInv, StoreInv, StoreType, LogType, ShardType
<1>6. CASE recall_upsert_vectors
  <2>1. /\ lsn' = lsn + 1 /\ recall' = recall \cup {lsn + 1} /\ lifeOf' = Append(lifeOf, life)
        /\ UNCHANGED <<live, life, shards>>
    BY <1>6 DEF recall_upsert_vectors, catalogVars
  <2>2. \A n \in 1..lsn : lifeOf'[n] = lifeOf[n] /\ n # lsn + 1
    BY <1>5, <2>1
  <2>3. Grows
    BY <1>5, <2>1, <2>2 DEF Grows
  <2> QED BY <1>1, <1>2, <1>3, <1>4, <2>3, CatalogStep
<1>7. CASE create_dataset_endpoint
  <2>1. /\ life' = life + 1 /\ UNCHANGED <<lsn, recall, lifeOf, shards>>
    BY <1>7 DEF create_dataset_endpoint, create_dataset, catalogVars
  <2>2. Grows
    BY <1>5, <2>1 DEF Grows
  <2> QED BY <1>1, <1>2, <1>3, <1>4, <2>2, CatalogStep
<1>8. CASE BuildShard
  <2>1. UNCHANGED <<live, life, lsn, recall, lifeOf>>
    BY <1>8 DEF BuildShard, storeVars
  <2>2. \A g \in 1..Len(shards) : shards'[g] = shards[g]
    BY <1>5, <1>8 DEF BuildShard
  <2>3. Len(shards') = Len(shards) + 1
    BY <1>5, <1>8 DEF BuildShard
  <2>4. Grows
    BY <1>5, <2>1, <2>2, <2>3 DEF Grows
  <2> QED BY <1>1, <1>2, <1>3, <1>4, <2>4, CatalogStep
<1> QED BY <1>6, <1>7, <1>8

\* A change of the catalog only marks the lists.
LEMMA ChangeMarks ==
  ASSUME CatalogInv, NEW rows, Change(rows)
  PROVE  OldOrNew /\ \A r \in Readers : GoesOn(r)
<1>0. /\ CacheInv /\ now \in Nat /\ entry \in [at : Nat, list : Lists]
      /\ \A r \in Readers : query[r] \in Queries /\ query[r].list \in Lists
  BY DEF CatalogInv, CacheInv, CacheType, Queries
<1>1. \A list \in Lists : Aged(list).rows = list.rows /\ Aged(list).change = list.change
  BY <1>0, AgedEffect
<1>2. ASSUME NEW r \in Readers
      PROVE  /\ query'[r].pc = query[r].pc /\ query'[r].life = query[r].life
             /\ query'[r].want = query[r].want /\ query'[r].found = query[r].found
             /\ query'[r].scanned = query[r].scanned
             /\ query'[r].list.rows = query[r].list.rows
             /\ query'[r].list.change = query[r].list.change
  <2>1. CASE query'[r] = query[r]
    BY <2>1
  <2>2. CASE query'[r] = [query[r] EXCEPT !.list = Aged(query[r].list)]
    <3>1. /\ query'[r].list = Aged(query[r].list)
          /\ query'[r].pc = query[r].pc /\ query'[r].life = query[r].life
          /\ query'[r].want = query[r].want /\ query'[r].found = query[r].found
          /\ query'[r].scanned = query[r].scanned
      BY <1>0, <2>2 DEF Queries
    <3> QED BY <1>0, <1>1, <3>1
  <2> QED BY <1>0, <2>1, <2>2, ChangeEffect
<1>3. entry' # NoEntry => /\ entry # NoEntry
                          /\ entry'.list.rows = entry.list.rows
                          /\ entry'.list.change = entry.list.change
  <2>1. CASE entry # NoEntry
    <3>1. entry' = [entry EXCEPT !.list = Aged(entry.list)]
      BY <1>0, <2>1, ChangeEffect
    <3>2. entry'.list = Aged(entry.list) /\ entry.list \in Lists
      BY <1>0, <3>1
    <3> QED BY <1>1, <2>1, <3>2
  <2> QED BY <1>0, <2>1, ChangeEffect
<1>4. OldOrNew
  <2> SUFFICES ASSUME NEW list, InHand(list)'
               PROVE  \E old : InHand(old) /\ list.rows = old.rows /\ list.change = old.change
    BY DEF OldOrNew
  <2>1. CASE entry' # NoEntry /\ list = entry'.list
    BY <1>3, <2>1 DEF InHand
  <2>2. CASE \E r \in Readers : query'[r].pc \in {"install", "search"} /\ list = query'[r].list
    <3> PICK r \in Readers : query'[r].pc \in {"install", "search"} /\ list = query'[r].list
      BY <2>2
    <3>1. InHand(query[r].list)
      BY <1>2 DEF InHand
    <3> QED BY <1>2, <3>1
  <2> QED BY <2>1, <2>2 DEF InHand
<1>5. \A r \in Readers : GoesOn(r)
  BY <1>2 DEF GoesOn, CatalogInv, WantInv
<1> QED BY <1>4, <1>5

\* Steps that change the catalog.
LEMMA ChangeSteps ==
  ASSUME CatalogInv, delete_dataset_endpoint \/ add_shard \/ SweepAndTrim
  PROVE  CatalogInv'
<1>0. UNCHANGED <<now, gen>> /\ StoreInv /\ CacheInv
  BY DEF delete_dataset_endpoint, add_shard, SweepAndTrim, CatalogInv
<1>1. StoreInv'
  BY <1>0, StoreDelete, StoreCommit, StoreSweep
<1>2. /\ life \in Nat /\ lsn \in Nat /\ Len(shards) \in Nat
  BY <1>0 DEF StoreInv, StoreType, LogType, ShardType
<1>3. ASSUME NEW rows, Change(rows), OneChange, Grows PROVE CatalogInv'
  <2>1. CacheInv'
    BY <1>0, <1>3, CacheChange
  <2>2. OldOrNew /\ \A r \in Readers : GoesOn(r)
    BY <1>3, ChangeMarks
  <2> QED BY <1>1, <1>3, <2>1, <2>2, CatalogStep
<1>4. CASE delete_dataset_endpoint
  <2>1. Change({}) /\ live' = FALSE /\ UNCHANGED <<life, lsn, recall, lifeOf, shards>>
    BY <1>4 DEF delete_dataset_endpoint, delete_dataset
  <2>2. OneChange
    BY <2>1 DEF Change, OneChange
  <2>3. Grows
    BY <1>2, <2>1 DEF Grows
  <2> QED BY <1>3, <2>1, <2>2, <2>3
<1>5. CASE add_shard
  <2>1. Change(catalog \cup {fold.shard})
    BY <1>5 DEF add_shard
  <2>2. OneChange
    BY <1>0, <1>5, CommitEffect DEF OneChange
  <2>3. Grows
    BY <1>0, <1>5, StoreStays, CommitEffect
  <2> QED BY <1>3, <2>1, <2>2, <2>3
<1>6. CASE SweepAndTrim
  <2>1. Grows
    BY <1>0, <1>2, <1>6, SweepEffect DEF Grows
  <2>2. CASE changes' = changes /\ catalog' = catalog /\ UNCHANGED <<entry, query>>
    <3>1. CacheInv'
      BY <1>0, <2>2, CacheStays DEF cacheVars
    <3>2. OldOrNew /\ \A r \in Readers : GoesOn(r)
      BY <2>2, NothingInHandMoves DEF CatalogInv, CacheInv
    <3>3. OneChange
      BY <2>2 DEF OneChange
    <3> QED BY <1>1, <2>1, <3>1, <3>2, <3>3, CatalogStep
  <2>3. CASE changes' = changes + 1 /\ Change(catalog')
    <3> PICK rows : rows = catalog'
      OBVIOUS
    <3>1. Change(rows)
      BY <2>3 DEF Change
    <3>2. OneChange
      BY <1>0, <1>6, <2>3, SweepEffect DEF OneChange
    <3> QED BY <1>3, <2>1, <3>1, <3>2
  <2> QED BY <1>0, <1>6, <2>2, <2>3, SweepEffect
<1> QED BY <1>4, <1>5, <1>6

\* An announced change empties the cache and marks the lists about to be installed.
LEMMA ListenerSteps ==
  ASSUME CatalogInv, Dispatch \/ Displaced
  PROVE  CatalogInv'
<1>0. /\ UNCHANGED <<live, life, lsn, recall, lifeOf, shards, catalog, changes, fold>>
      /\ entry' = NoEntry /\ StoreInv /\ CacheInv
      /\ \A r \in Readers : query[r] \in Queries /\ query[r].list \in Lists
  BY DEF Dispatch, Displaced, invalidate, storeVars, catalogVars, CatalogInv, CacheInv,
         CacheType, Queries
<1>1. CacheInv'
  BY <1>0, CacheDispatch, CacheDisplaced
<1>2. StoreInv'
  BY <1>0, StoreQuiet DEF StoreInv, StoreType, CatalogType
<1>3. Grows
  BY <1>0, StoreStays
<1>4. OneChange
  BY <1>0 DEF OneChange
<1>5. ASSUME NEW r \in Readers
      PROVE  /\ query'[r].pc = query[r].pc /\ query'[r].life = query[r].life
             /\ query'[r].want = query[r].want /\ query'[r].found = query[r].found
             /\ query'[r].scanned = query[r].scanned
             /\ query'[r].list.rows = query[r].list.rows
             /\ query'[r].list.change = query[r].list.change
  <2>1. CASE query'[r] = query[r]
    BY <2>1
  <2>2. CASE query'[r] = [query[r] EXCEPT !.list = Called(query[r].list, Head(wire))]
    <3>1. /\ query'[r].list = Called(query[r].list, Head(wire))
          /\ query'[r].pc = query[r].pc /\ query'[r].life = query[r].life
          /\ query'[r].want = query[r].want /\ query'[r].found = query[r].found
          /\ query'[r].scanned = query[r].scanned
      BY <1>0, <2>2 DEF Queries
    <3>2. /\ Called(query[r].list, Head(wire)).rows = query[r].list.rows
          /\ Called(query[r].list, Head(wire)).change = query[r].list.change
      BY <1>0 DEF Called, Lists
    <3> QED BY <3>1, <3>2
  <2> QED BY <2>1, <2>2 DEF Dispatch, Displaced
<1>6. OldOrNew
  <2> SUFFICES ASSUME NEW list, InHand(list)'
               PROVE  \E old : InHand(old) /\ list.rows = old.rows /\ list.change = old.change
    BY DEF OldOrNew
  <2> PICK r \in Readers : query'[r].pc \in {"install", "search"} /\ list = query'[r].list
    BY <1>0 DEF InHand
  <2>1. InHand(query[r].list)
    BY <1>5 DEF InHand
  <2> QED BY <1>5, <2>1
<1>7. \A r \in Readers : GoesOn(r)
  BY <1>5 DEF GoesOn, CatalogInv, WantInv
<1> QED BY <1>1, <1>2, <1>3, <1>4, <1>6, <1>7, CatalogStep

\* What every step of a thread leaves alone.
LEMMA ReaderFrame ==
  ASSUME CatalogInv, NEW r \in Readers, NEW q, query' = [query EXCEPT ![r] = q],
         UNCHANGED <<live, life, lsn, recall, lifeOf, shards, catalog, changes, fold>>
  PROVE  /\ query'[r] = q /\ \A s \in Readers : s # r => query'[s] = query[s] /\ GoesOn(s)
         /\ StoreInv' /\ Grows /\ OneChange
         /\ query[r] \in Queries /\ query[r].list \in Lists
<1>1. query \in [Readers -> Queries] /\ StoreInv
  BY DEF CatalogInv, CacheInv, CacheType
<1>2. query'[r] = q /\ \A s \in Readers : s # r => query'[s] = query[s]
  BY <1>1
<1>3. \A s \in Readers : s # r => GoesOn(s)
  BY <1>2 DEF GoesOn, CatalogInv, WantInv
<1>4. StoreInv'
  BY <1>1, StoreQuiet DEF StoreInv, StoreType, CatalogType
<1>5. Grows /\ OneChange
  BY <1>1, StoreStays DEF OneChange
<1>6. query[r] \in Queries /\ query[r].list \in Lists
  BY <1>1 DEF Queries
<1> QED BY <1>2, <1>3, <1>4, <1>5, <1>6

\* A thread's list, and the entry, come from what was in hand or from the catalog.
LEMMA ReaderLists ==
  ASSUME CatalogInv, NEW r \in Readers, UNCHANGED <<catalog, changes>>,
         \A s \in Readers : s # r => query'[s] = query[s],
         \/ entry' = entry
         \/ InHand(entry'.list),
         query'[r].pc \in {"install", "search"} =>
           \/ InHand(query'[r].list)
           \/ query'[r].list.rows = catalog /\ query'[r].list.change = changes
  PROVE  OldOrNew
<1> SUFFICES ASSUME NEW list, InHand(list)'
             PROVE  \/ \E old : /\ InHand(old)
                                /\ list.rows = old.rows /\ list.change = old.change
                    \/ list.rows = catalog /\ list.change = changes
  BY DEF OldOrNew
<1>1. CASE entry' # NoEntry /\ list = entry'.list
  <2>1. InHand(list)
    BY <1>1 DEF InHand
  <2> QED BY <2>1
<1>2. CASE \E s \in Readers : query'[s].pc \in {"install", "search"} /\ list = query'[s].list
  <2> PICK s \in Readers : query'[s].pc \in {"install", "search"} /\ list = query'[s].list
    BY <1>2
  <2>1. CASE s = r
    BY <2>1
  <2>2. CASE s # r
    <3>1. InHand(list)
      BY <2>2 DEF InHand
    <3> QED BY <3>1
  <2> QED BY <2>1, <2>2
<1> QED BY <1>1, <1>2 DEF InHand

\* A query looks its list up.
LEMMA LookupStep ==
  ASSUME CatalogInv, NEW r \in Readers, Lookup(r)
  PROVE  CatalogInv'
<1> DEFINE q == [Idle EXCEPT !.at = now, !.want = Acknowledged, !.life = life]
           hit == [q EXCEPT !.pc = "search", !.list = entry.list]
           miss == [q EXCEPT !.pc = "fetch", !.gen = gen]
           new == IF Fresh(entry) THEN hit ELSE miss
<1>0. /\ query' = [query EXCEPT ![r] = new] /\ UNCHANGED entry
      /\ UNCHANGED <<live, life, lsn, recall, lifeOf, shards, catalog, changes, fold>>
  BY DEF Lookup, storeVars, catalogVars, cacheVars
<1>1. /\ new.scanned = FALSE /\ new.life = life /\ new.want = Acknowledged
      /\ new.pc = "search" => Fresh(entry) /\ new.list = entry.list
      /\ new.pc \in {"search", "fetch"}
  BY DEF Idle
<1> HIDE DEF new
<1>2. /\ query'[r] = new /\ \A s \in Readers : s # r => query'[s] = query[s] /\ GoesOn(s)
      /\ StoreInv' /\ Grows /\ OneChange
  BY <1>0, ReaderFrame
<1>3. CacheInv'
  BY CacheLookup DEF CatalogInv, StoreInv
<1>4. OldOrNew
  <2>1. query'[r].pc \in {"install", "search"} => InHand(query'[r].list)
    BY <1>1, <1>2 DEF InHand, Fresh
  <2> QED BY <1>0, <1>2, <2>1, ReaderLists
<1>5. WantOf(r)'
  <2>1. life \in Nat
    BY DEF CatalogInv, StoreInv, StoreType, LogType
  <2> QED BY <1>0, <1>1, <1>2, <2>1 DEF WantOf, Acknowledged
<1> QED BY <1>2, <1>3, <1>4, <1>5, CatalogStep

\* A query fetches its list from the catalog.
LEMMA FetchStep ==
  ASSUME CatalogInv, NEW r \in Readers, list_shards(r)
  PROVE  CatalogInv'
<1> DEFINE list == [rows |-> catalog, change |-> changes, stale |-> Never, called |-> FALSE]
           q == [query[r] EXCEPT !.pc = "install", !.list = list]
<1>0. /\ query' = [query EXCEPT ![r] = q] /\ UNCHANGED entry
      /\ UNCHANGED <<live, life, lsn, recall, lifeOf, shards, catalog, changes, fold>>
  BY DEF list_shards, storeVars, catalogVars, cacheVars, CatalogInv, CacheInv, CacheType
<1>1. /\ query'[r] = q /\ \A s \in Readers : s # r => query'[s] = query[s] /\ GoesOn(s)
      /\ StoreInv' /\ Grows /\ OneChange /\ query[r] \in Queries
  <2> HIDE DEF q
  <2> QED BY <1>0, ReaderFrame
<1>2. /\ query[r].pc = "fetch" /\ q.list.rows = catalog /\ q.list.change = changes
      /\ q.life = query[r].life /\ q.want = query[r].want /\ q.found = query[r].found
      /\ q.scanned = query[r].scanned
  BY <1>1 DEF list_shards, Queries
<1>3. CacheInv'
  BY CacheFetch DEF CatalogInv, StoreInv
<1> HIDE DEF q
<1>4. OldOrNew
  BY <1>0, <1>1, <1>2, ReaderLists
<1>5. GoesOn(r)
  BY <1>1, <1>2 DEF GoesOn, CatalogInv, WantInv
<1> QED BY <1>1, <1>3, <1>4, <1>5, CatalogStep

\* A query installs the list it fetched.
LEMMA InstallStep ==
  ASSUME CatalogInv, NEW r \in Readers, Install(r)
  PROVE  CatalogInv'
<1> DEFINE q == [query[r] EXCEPT !.pc = "search", !.gen = 0]
<1>0. /\ query' = [query EXCEPT ![r] = q] /\ query[r].pc = "install"
      /\ UNCHANGED <<live, life, lsn, recall, lifeOf, shards, catalog, changes, fold>>
      /\ entry' = entry \/ entry'.list = query[r].list
  BY DEF Install, storeVars, catalogVars, CatalogInv, CacheInv, CacheType, Installed
<1>1. /\ query'[r] = q /\ \A s \in Readers : s # r => query'[s] = query[s] /\ GoesOn(s)
      /\ StoreInv' /\ Grows /\ OneChange /\ query[r] \in Queries
  <2> HIDE DEF q
  <2> QED BY <1>0, ReaderFrame
<1>2. /\ q.list = query[r].list /\ q.pc = "search"
      /\ q.life = query[r].life /\ q.want = query[r].want /\ q.found = query[r].found
      /\ q.scanned = query[r].scanned
  BY <1>1 DEF Queries
<1>3. CacheInv'
  BY CacheInstall DEF CatalogInv
<1> HIDE DEF q
<1>4. InHand(query[r].list)
  BY <1>0 DEF InHand
<1>5. OldOrNew
  BY <1>0, <1>1, <1>2, <1>4, ReaderLists
<1>6. GoesOn(r)
  BY <1>0, <1>1, <1>2 DEF GoesOn
<1> QED BY <1>1, <1>3, <1>5, <1>6, CatalogStep

\* The scan finds what is wanted and above the watermark; below it the shard has it.
LEMMA ScanStep ==
  ASSUME CatalogInv, NEW r \in Readers, recall_search(r)
  PROVE  CatalogInv'
<1> DEFINE found == {n \in recall : n > Watermark(Shard(query[r]))}
           q == [query[r] EXCEPT !.scanned = TRUE, !.found = found]
<1>0. /\ query' = [query EXCEPT ![r] = q] /\ query[r].pc = "search" /\ UNCHANGED entry
      /\ UNCHANGED <<live, life, lsn, recall, lifeOf, shards, catalog, changes, fold>>
  BY DEF recall_search, storeVars, catalogVars, cacheVars, CatalogInv, CacheInv, CacheType
<1>1. /\ query'[r] = q /\ \A s \in Readers : s # r => query'[s] = query[s] /\ GoesOn(s)
      /\ StoreInv' /\ Grows /\ OneChange /\ query[r] \in Queries
  <2> HIDE DEF q
  <2> QED BY <1>0, ReaderFrame
<1>2. /\ q.list = query[r].list /\ q.pc = "search" /\ q.found = found
      /\ q.life = query[r].life /\ q.want = query[r].want
  BY <1>0, <1>1 DEF Queries
<1>3. CacheInv'
  BY CacheSearch DEF CatalogInv, StoreInv
<1>4. InHand(query[r].list)
  BY <1>0 DEF InHand
<1>5. OldOrNew
  <2> HIDE DEF q
  <2> QED BY <1>0, <1>1, <1>2, <1>4, ReaderLists
<1>6. ASSUME live, query[r].life = life
      PROVE  query[r].want \cap recall \subseteq found \cup Records(Shard(query[r]))
  <2> SUFFICES ASSUME NEW n \in query[r].want, n \in recall, ~(n > Watermark(Shard(query[r])))
               PROVE  n \in Records(Shard(query[r]))
    OBVIOUS
  <2>1. n \in 1..lsn /\ lifeOf[n] = life
    BY <1>0, <1>6 DEF CatalogInv, WantInv
  <2>2. Shard(query[r]) \in 0..Len(shards) /\ Len(shards) \in Nat
    <3> DEFINE rows == query[r].list.rows
    <3>1. rows \subseteq 1..Len(shards) /\ Len(shards) \in Nat
      BY <1>0, NewestAndPrior DEF CatalogInv, StoreInv, ListsHold, ListHolds
    <3> HIDE DEF rows
    <3>2. rows \cup {0} \subseteq 0..Len(shards) /\ rows \cup {0} # {}
      BY <3>1
    <3>3. Max(rows \cup {0}) \in rows \cup {0}
      BY <3>1, <3>2, MaxIsLargest
    <3> QED BY <3>1, <3>2, <3>3 DEF Shard, rows
  <2>3. n \in Nat /\ n > 0
    BY <2>1 DEF CatalogInv, StoreInv, StoreType, LogType
  <2>4. Shard(query[r]) # 0
    BY <2>3 DEF Watermark
  <2>5. Shard(query[r]) \in 1..Len(shards)
    BY <2>2, <2>4
  <2>6. n <= shards[Shard(query[r])].lsn
    BY <2>3, <2>4, <2>5, ShardFacts DEF Watermark, CatalogInv, StoreInv
  <2> QED BY <1>6, <2>1, <2>4, <2>5, <2>6 DEF Records, CatalogInv, StoreInv, ShardsHold
<1>7. Answer(query[r])' = found \cup Records(Shard(query[r]))
  BY <1>0, <1>1, <1>2 DEF Answer, Shard, Records
<1> HIDE DEF q, found
<1>8. WantOf(r)'
  BY <1>0, <1>1, <1>2, <1>6, <1>7 DEF WantOf, CatalogInv, WantInv
<1> QED BY <1>1, <1>3, <1>5, <1>8, CatalogStep

\* A query searches one shard of its list.
LEMMA SearchStep ==
  ASSUME CatalogInv, NEW r \in Readers, search_one_shard(r)
  PROVE  CatalogInv'
<1> PICK how : query' = [query EXCEPT ![r].load = how]
  BY DEF search_one_shard
<1> DEFINE q == [query[r] EXCEPT !.load = how]
<1>0. /\ query' = [query EXCEPT ![r] = q] /\ query[r].pc = "search" /\ UNCHANGED entry
      /\ UNCHANGED <<live, life, lsn, recall, lifeOf, shards, catalog, changes, fold>>
  BY DEF search_one_shard, storeVars, catalogVars, cacheVars, CatalogInv, CacheInv, CacheType
<1>1. /\ query'[r] = q /\ \A s \in Readers : s # r => query'[s] = query[s] /\ GoesOn(s)
      /\ StoreInv' /\ Grows /\ OneChange /\ query[r] \in Queries
  <2> HIDE DEF q
  <2> QED BY <1>0, ReaderFrame
<1>2. /\ q.list = query[r].list /\ q.pc = "search"
      /\ q.life = query[r].life /\ q.want = query[r].want /\ q.found = query[r].found
      /\ q.scanned = query[r].scanned
  BY <1>0, <1>1 DEF Queries
<1>3. CacheInv'
  BY CacheSearch DEF CatalogInv, StoreInv
<1>4. InHand(query[r].list)
  BY <1>0 DEF InHand
<1> HIDE DEF q
<1>5. OldOrNew
  BY <1>0, <1>1, <1>2, <1>4, ReaderLists
<1>6. GoesOn(r)
  BY <1>0, <1>1, <1>2 DEF GoesOn
<1> QED BY <1>1, <1>3, <1>5, <1>6, CatalogStep

\* A query ends.
LEMMA RespondStep ==
  ASSUME CatalogInv, NEW r \in Readers, Respond(r)
  PROVE  CatalogInv'
<1>0. /\ query' = [query EXCEPT ![r] = Idle] /\ UNCHANGED entry
      /\ UNCHANGED <<live, life, lsn, recall, lifeOf, shards, catalog, changes, fold>>
  BY DEF Respond, storeVars, catalogVars, cacheVars
<1>1. /\ query'[r] = Idle /\ \A s \in Readers : s # r => query'[s] = query[s] /\ GoesOn(s)
      /\ StoreInv' /\ Grows /\ OneChange
  BY <1>0, ReaderFrame
<1>2. Idle.pc = "idle" /\ Idle.scanned = FALSE /\ Idle.life = 0
  BY DEF Idle
<1>3. CacheInv'
  BY CacheSearch DEF CatalogInv, StoreInv
<1>4. OldOrNew
  BY <1>0, <1>1, <1>2, ReaderLists
<1>5. WantOf(r)'
  <2>1. life' \in Nat
    BY <1>1 DEF StoreInv, StoreType, LogType
  <2> QED BY <1>1, <1>2, <2>1 DEF WantOf
<1> QED BY <1>1, <1>3, <1>4, <1>5, CatalogStep

\* The invariant holds at the start.
LEMMA CatalogInit == Init => CatalogInv
<1> SUFFICES ASSUME Init PROVE CatalogInv OBVIOUS
<1>1. ListsHold
  BY DEF Init, ListsHold, Idle
<1>2. WantInv
  BY DEF Init, WantInv, Idle
<1> QED BY <1>1, <1>2, CacheInit, StoreInit DEF CatalogInv

\* Every step keeps the invariant.
LEMMA CatalogNext == CatalogInv /\ [Next]_vars => CatalogInv'
<1> SUFFICES ASSUME CatalogInv, [Next]_vars PROVE CatalogInv' OBVIOUS
<1>0. StoreInv /\ fold \in [pc : {"idle", "built", "committed"}, shard : Nat]
  BY DEF CatalogInv, StoreInv, StoreType, CatalogType
<1>1. CASE recall_upsert_vectors \/ create_dataset_endpoint \/ BuildShard
  BY <1>1, StoreSteps
<1>2. CASE delete_dataset_endpoint \/ add_shard \/ SweepAndTrim
  BY <1>2, ChangeSteps
<1>3. CASE NotifyFails \/ BuilderDies
  <2>1. /\ UNCHANGED <<now, storeVars, shards, catalog, changes, cacheVars, query>>
        /\ fold' \in [pc : {"idle", "built", "committed"}, shard : Nat] /\ fold'.pc # "built"
    BY <1>0, <1>3 DEF NotifyFails, BuilderDies, catalogVars
  <2>2. StoreInv'
    BY <1>0, <2>1, StoreQuiet DEF storeVars
  <2> QED BY <2>1, <2>2, QuietSteps
<1>4. CASE Listen \/ ConnectionDrops \/ Tick \/ UNCHANGED vars
  <2>1. /\ UNCHANGED <<storeVars, shards, catalog, changes, cacheVars, query, fold>>
        /\ now' = now \/ (now < MaxTime /\ now' = now + 1)
    BY <1>4 DEF Listen, ConnectionDrops, Tick, vars, catalogVars
  <2>2. StoreInv'
    BY <1>0, <2>1, StoreQuiet DEF storeVars
  <2> QED BY <2>1, <2>2, QuietSteps
<1>5. CASE Dispatch \/ Displaced
  BY <1>5, ListenerSteps
<1>6. CASE \E r \in Readers : \/ Lookup(r) \/ list_shards(r) \/ Install(r)
                              \/ recall_search(r) \/ search_one_shard(r) \/ Respond(r)
  BY <1>6, LookupStep, FetchStep, InstallStep, ScanStep, SearchStep, RespondStep
<1> QED BY <1>1, <1>2, <1>3, <1>4, <1>5, <1>6 DEF Next

\* The times, the generations, the catalog and the lists in hand stay consistent.
THEOREM CatalogInvariant == Spec => []CatalogInv
  BY CatalogInit, CatalogNext, PTL DEF Spec

\* Whatever the time to live and however slowly threads read Postgres or install
\* what they read, no query resolves from rows that stopped being true a time to
\* live or longer before it asked (get_or_fetch stamps the entry with the clock it
\* read before it asked Postgres).
THEOREM StaleRowsExpireAlways == Spec => []StaleRowsExpire
<1>1. CatalogInv => StaleRowsExpire
  <2> SUFFICES ASSUME CatalogInv, NEW r \in Readers, query[r].pc = "search"
               PROVE  query[r].list.stale + Ttl > query[r].at
    BY DEF StaleRowsExpire
  <2>1. query[r].at < query[r].list.stale + Ttl
    BY DEF CatalogInv, CacheInv, TimeInv
  <2> QED BY <2>1 DEF CatalogInv, CacheInv, CacheType, Queries, Lists
<1> QED BY <1>1, CatalogInvariant, PTL

\* After a change was announced, no list read before it comes into the cache again,
\* for any number of threads that read across any number of announcements.
THEOREM AnnouncedIsGone == Spec => []InvalidationSticks
<1>1. CatalogInv => InvalidationSticks
  BY DEF CatalogInv, CacheInv, GenInv, InvalidationSticks
<1> QED BY <1>1, CatalogInvariant, PTL

\* An answer lacks an acknowledged record of a dataset that is still the one the
\* query found only after two further folds: the trim stays one fold behind, and
\* one change leaves the newest shard among the two newest.
THEOREM OneFoldIsHarmless == Spec => []GapNeedsTwoFolds
<1>1. CatalogInv => GapNeedsTwoFolds
  <2> SUFFICES ASSUME CatalogInv, NEW r \in Readers, Answered(query[r]),
                      NEW n \in query[r].want, n \notin Answer(query[r])
               PROVE  /\ Shard(query[r]) \notin {Newest, Prior}
                      /\ query[r].list.change + 2 <= changes
    BY DEF GapNeedsTwoFolds
  <2>1. query[r].scanned /\ query[r].pc = "search" /\ live /\ life = query[r].life
    BY DEF Answered, CatalogInv, WantInv
  <2>2. n \in 1..lsn /\ lifeOf[n] = life /\ n \notin recall
    BY <2>1 DEF CatalogInv, WantInv
  <2>3. n \in Records(Prior)
    BY <2>1, <2>2 DEF CatalogInv, StoreInv, OneFoldBehind
  <2>4. Prior # 0 /\ Prior \in catalog /\ Newest \in catalog /\ Prior <= Newest /\ Newest # 0
    BY <2>3, NewestAndPrior DEF Records, CatalogInv, StoreInv
  <2>5. n \in Records(Newest)
    BY <2>3, <2>4 DEF Records, CatalogInv, StoreInv, Chained
  <2>6. Shard(query[r]) \notin {Newest, Prior}
    BY <2>3, <2>5 DEF Answer
  <2>7. ListHolds(query[r].list) /\ query[r].list.change \in Nat /\ changes \in Nat
    BY <2>1 DEF CatalogInv, ListsHold, CacheInv, CacheType, Queries, Lists, StoreInv,
                StoreType, CatalogType
  <2>8. query[r].list.change <= changes /\ changes # query[r].list.change
        /\ changes # query[r].list.change + 1
    BY <2>4, <2>6, <2>7 DEF ListHolds, Shard
  <2> QED BY <2>6, <2>7, <2>8
<1> QED BY <1>1, CatalogInvariant, PTL
=============================================================================
