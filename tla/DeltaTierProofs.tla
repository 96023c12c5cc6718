--------------------------- MODULE DeltaTierProofs ---------------------------
(***************************************************************************)
(* Proofs about DeltaTier, for any finite set of ids, any number of        *)
(* queries, writes, folds, compactions and faults and any delta cap.       *)
(*                                                                         *)
(* A retained generation is a chain of bands without a gap; what recall no *)
(* longer holds above its frontier its merge holds.  A generation grows at *)
(* its upper end only, and a delta's ids stay in recall as long as its     *)
(* generation is the newest, so an earlier state of the generation, which  *)
(* a query may hold, is as good as the present one.                        *)
(***************************************************************************)
EXTENDS DeltaTier, FiniteSetTheorems, WellFoundedInduction, TLAPS

ShardRecs == [parent : Nat, lo : Nat, hi : Nat, tombs : SUBSET Ids, vecs : [Ids -> Nat]]

Retained == live_generation \cup grace_generation

\* The recall row of an id is its last write.
StoreInv ==
  /\ last_lsn \in Nat
  /\ recall \in [Ids -> Row] /\ truth \in [Ids -> Nat]
  /\ \A i \in Ids : /\ recall[i].lsn <= last_lsn
                    /\ recall[i].lsn > 0 => Version(recall[i]) = truth[i]

\* A base covers everything from the beginning; a delta names an older shard.
ShardInv ==
  /\ shards \in Seq(ShardRecs)
  /\ \A s \in 1..Len(shards) :
       /\ shards[s].parent < s
       /\ shards[s].lo <= shards[s].hi /\ shards[s].hi <= last_lsn
       /\ shards[s].parent = 0 => shards[s].lo = 0 /\ shards[s].tombs = {}
       /\ shards[s].parent # 0 => shards[s].lo > 0
  /\ catalog \subseteq 1..Len(shards) /\ objects \subseteq 1..Len(shards)

-----------------------------------------------------------------------------
(* Bands: f gives the shards, S is a set of them *)

Cov(f, S) == Max({f[s].hi : s \in S} \cup {0})

Top(f, S) == CHOOSE s \in S : \A t \in S : f[t].lo <= f[s].lo

\* The shards of S that hold or delete an id.
Mentioning(f, S, i) == {s \in S : f[s].vecs[i] > 0} \cup {s \in S : i \in f[s].tombs}

MergeOf(f, S, i) ==
  IF Mentioning(f, S, i) = {} THEN 0 ELSE f[Top(f, Mentioning(f, S, i))].vecs[i]

\* Every band that is not the lowest begins where those below it end.
NoGap(f, S) ==
  \A t \in S : f[t].lo > 0 => f[t].lo = Cov(f, {u \in S : f[u].lo < f[t].lo}) + 1

\* No two shards of S have the same band, and there is no gap below a band.
Chain(f, S) == /\ \A s \in S, t \in S : f[s].lo = f[t].lo => s = t
               /\ NoGap(f, S)

\* What recall does not hold above the frontier of S is in the merge of S.
Holds(S) == \A i \in Ids : recall[i].lsn <= Cov(shards, S) => MergeOf(shards, S, i) = truth[i]

Mentions(s, i) == shards[s].vecs[i] > 0 \/ i \in shards[s].tombs

GenInv ==
  /\ \A S \in {live_generation, grace_generation} : Chain(shards, S) /\ Holds(S)
  /\ \A s \in grace_generation : shards[s].hi <= shards[NewestBase].hi
  /\ \A d \in Deltas : \A i \in Ids : Mentions(d, i) => recall[i].lsn >= shards[d].lo

\* A row of the partition is as it was at the snapshot, or was written since.
SnapInv ==
  /\ snap \in [Ids -> Row]
  /\ pc # "idle" =>
       /\ \A i \in Ids : /\ snap[i].lsn <= last_lsn
                         /\ recall[i] = snap[i] \/ recall[i].lsn > SnapLsn

\* How a shard u that waits for its catalog row is made of the newest generation L: a
\* first base, a compaction, or a delta.
MadeOf(u, L) ==
  \/ /\ L = {} /\ u.parent = 0 /\ u.hi = SnapLsn
     /\ u.vecs = [i \in Ids |-> Version(snap[i])]
  \/ /\ L # {} /\ u.parent = 0 /\ u.hi = Cov(shards, L)
     /\ u.vecs = [i \in Ids |-> MergeOf(shards, L, i)]
  \/ /\ L # {} /\ u.parent = NewestBase
     /\ u.lo = Cov(shards, L) + 1 /\ u.hi = SnapLsn
     /\ u.tombs = {i \in Ids : snap[i].lsn > Cov(shards, L) /\ snap[i].deleted}
     /\ u.vecs = [i \in Ids |-> IF snap[i].lsn > Cov(shards, L) THEN Version(snap[i]) ELSE 0]

JobInv ==
  /\ upload \in 0..Len(shards)
  /\ pc = "written" => /\ upload = Len(shards) /\ upload > 0 /\ upload \notin catalog
                       /\ upload \in objects
                       /\ \A r \in Readers : upload \notin resolved[r]
                       /\ MadeOf(shards[upload], live_generation)
  /\ pc = "sweeping" => stale \cap Retained = {}

RestType ==
  /\ row_count \in Nat /\ faults \in Nat /\ major \in BOOLEAN
  /\ pc \in {"idle", "snapped", "written", "committed", "settled", "sweeping", "swept", "trim"}
  /\ stale \subseteq 1..Len(shards)

Scans == [done : BOOLEAN, timely : BOOLEAN, rows : [Ids -> Row], want : [Ids -> Nat]]

\* A query that resolved the newest generation holds the lower part of it.
ReadInv ==
  /\ resolved \in [Readers -> SUBSET (1..Len(shards))]
  /\ scan \in [Readers -> Scans]
  /\ \A r \in Readers :
       /\ scan[r].done => resolved[r] # {}
       /\ NewestBase \in resolved[r] =>
            /\ resolved[r] \subseteq live_generation
            /\ \A s \in resolved[r], t \in live_generation :
                 shards[t].lo <= shards[s].lo => t \in resolved[r]

\* A query resolved a whole generation, as it was then.
ChainsRead == \A r \in Readers : Chain(shards, resolved[r])

\* A query that holds the shards P of f and the scan x has what it should know of an
\* id in its scan or in the merge of its shards.
GoodAt(f, P, x, i) ==
  IF x.rows[i].lsn > 0 THEN Version(x.rows[i]) = x.want[i] ELSE MergeOf(f, P, i) = x.want[i]

Good(f, P, x) == \A i \in Ids : GoodAt(f, P, x, i)

AllGood == \A r \in Readers : scan[r].done /\ scan[r].timely => Good(shards, resolved[r], scan[r])

DeltaInv == /\ StoreInv /\ ShardInv /\ GenInv /\ SnapInv /\ JobInv /\ RestType /\ ReadInv
            /\ ChainsRead /\ RetainedReadable /\ AllGood

-----------------------------------------------------------------------------
(* Largest members *)

\* A non-empty set of naturals has a least member.
LEMMA LeastNat ==
  ASSUME NEW T, T \subseteq Nat, T # {}
  PROVE  \E m \in T : \A k \in T : m <= k
<1>1. PICK m \in T : \A k \in T : ~ (<<k, m>> \in OpToRel(<, Nat))
  BY ONLY T \subseteq Nat, T # {}, WFMin, NatLessThanWellFounded, Zenon
<1>2. \A k \in T : ~ (k < m)
  BY <1>1 DEF OpToRel
<1> QED BY <1>2

\* A bounded set of naturals has a largest member, and Max is it.
LEMMA MaxIsLargest ==
  ASSUME NEW N \in Nat, NEW T, T \subseteq 0..N, T # {}
  PROVE  Max(T) \in T /\ \A k \in T : k <= Max(T)
<1> DEFINE D == {N - x : x \in T}
<1>0. \A x \in T : x \in 0..N /\ N - x \in Nat
  OBVIOUS
<1>1. D \subseteq Nat /\ D # {}
  BY <1>0
<1> HIDE DEF D
<1>2. PICK d \in D : \A e \in D : d <= e
  BY <1>1, LeastNat
<1>3. PICK m \in T : d = N - m
  BY <1>2 DEF D
<1>4. \A k \in T : k <= m
  <2> SUFFICES ASSUME NEW k \in T PROVE k <= m OBVIOUS
  <2>1. N - m <= N - k
    BY <1>2, <1>3 DEF D
  <2> QED BY <2>1
<1>5. \E x \in T : \A y \in T : x >= y
  BY <1>4
<1>6. Max(T) \in T /\ \A y \in T : Max(T) >= y
  BY <1>5 DEF Max
<1> QED BY <1>6

\* Max is what no member exceeds.
LEMMA MaxIs ==
  ASSUME NEW T, NEW m \in T, T \subseteq Nat, \A k \in T : k <= m
  PROVE  Max(T) = m
<1>0. \A k \in T : k \in Nat
  OBVIOUS
<1>1. \E x \in T : \A y \in T : x >= y
  BY <1>0
<1>2. Max(T) \in T /\ \A y \in T : Max(T) >= y
  BY <1>1 DEF Max
<1>3. Max(T) \in Nat /\ m \in Nat /\ Max(T) >= m /\ m >= Max(T)
  BY <1>0, <1>2
<1> QED BY ONLY <1>3

\* The shards of S have bands up to N.
Bands(f, S, N) ==
  /\ N \in Nat
  /\ \A s \in S : f[s].lo \in Nat /\ f[s].hi \in 0..N /\ f[s].lo <= f[s].hi

\* What Cov is the maximum of.
LEMMA CovIs ==
  ASSUME NEW f, NEW S, NEW N, Bands(f, S, N)
  PROVE  /\ Cov(f, S) \in 0..N
         /\ \A s \in S : f[s].hi <= Cov(f, S)
         /\ Cov(f, S) = 0 \/ \E s \in S : f[s].hi = Cov(f, S)
<1> DEFINE T == {f[s].hi : s \in S} \cup {0}
<1>1. T \subseteq 0..N /\ T # {} /\ N \in Nat
  BY DEF Bands
<1>2. \A k \in T : k = 0 \/ \E s \in S : f[s].hi = k
  OBVIOUS
<1>3. \A s \in S : f[s].hi \in T
  OBVIOUS
<1>4. Cov(f, S) = Max(T)
  BY DEF Cov
<1> HIDE DEF T
<1>5. Max(T) \in T /\ \A k \in T : k <= Max(T)
  BY <1>1, MaxIsLargest
<1> QED BY <1>1, <1>2, <1>3, <1>4, <1>5

\* A bound that is reached is what Cov gives.
LEMMA CovExactly ==
  ASSUME NEW f, NEW S, NEW N, Bands(f, S, N), NEW c \in Nat,
         \A s \in S : f[s].hi <= c, c = 0 \/ \E s \in S : f[s].hi = c
  PROVE  Cov(f, S) = c
<1>1. /\ Cov(f, S) \in 0..N /\ \A s \in S : f[s].hi <= Cov(f, S)
      /\ Cov(f, S) = 0 \/ \E s \in S : f[s].hi = Cov(f, S)
  BY CovIs
<1>2. \A s \in S : f[s].hi \in Nat
  BY DEF Bands
<1>3. N \in Nat
  BY DEF Bands
<1> QED BY <1>1, <1>2, <1>3

\* The shard with the top band is one of them.
LEMMA TopIs ==
  ASSUME NEW f, NEW S, NEW N, Bands(f, S, N), S # {}
  PROVE  Top(f, S) \in S /\ \A t \in S : f[t].lo <= f[Top(f, S)].lo
<1> DEFINE T == {f[s].lo : s \in S}
<1>0. \A s \in S : f[s].lo \in 0..N
  BY DEF Bands
<1>1. T \subseteq 0..N /\ T # {} /\ N \in Nat
  BY <1>0 DEF Bands
<1>2. \A k \in T : \E s \in S : f[s].lo = k
  OBVIOUS
<1>3. \A s \in S : f[s].lo \in T
  OBVIOUS
<1> HIDE DEF T
<1>4. Max(T) \in T /\ \A k \in T : k <= Max(T)
  BY <1>1, MaxIsLargest
<1>5. \E s \in S : \A t \in S : f[t].lo <= f[s].lo
  BY <1>2, <1>3, <1>4
<1> QED BY <1>5 DEF Top

\* Where bands differ, the top one is unique.
LEMMA TopExactly ==
  ASSUME NEW f, NEW S, NEW N, Bands(f, S, N),
         \A s \in S, t \in S : f[s].lo = f[t].lo => s = t,
         NEW x \in S, \A t \in S : f[t].lo <= f[x].lo
  PROVE  Top(f, S) = x
<1>1. Top(f, S) \in S /\ \A t \in S : f[t].lo <= f[Top(f, S)].lo
  BY TopIs
<1>2. \A s \in S : f[s].lo \in Nat
  BY DEF Bands
<1>3. f[x].lo = f[Top(f, S)].lo
  BY <1>1, <1>2
<1> QED BY <1>1, <1>3

-----------------------------------------------------------------------------
(* Chains and merges *)

\* Part of some shards has their bands.
LEMMA BandsPart ==
  ASSUME NEW f, NEW S, NEW N, Bands(f, S, N), NEW P \in SUBSET S
  PROVE  Bands(f, P, N)
  BY DEF Bands

\* The top band among those that mention an id decides.
LEMMA MergeExactly ==
  ASSUME NEW f, NEW S, NEW N, Bands(f, S, N),
         \A s \in S, t \in S : f[s].lo = f[t].lo => s = t,
         NEW i, NEW x \in Mentioning(f, S, i),
         \A t \in Mentioning(f, S, i) : f[t].lo <= f[x].lo
  PROVE  MergeOf(f, S, i) = f[x].vecs[i]
<1> DEFINE M == Mentioning(f, S, i)
<1>1. M \in SUBSET S
  BY DEF Mentioning
<1>2. Bands(f, M, N)
  BY <1>1, BandsPart
<1>3. Top(f, M) = x
  <2> HIDE DEF M
  <2>1. \A s \in M, t \in M : f[s].lo = f[t].lo => s = t
    BY <1>1
  <2>2. x \in M /\ \A t \in M : f[t].lo <= f[x].lo
    BY DEF M
  <2> QED BY <1>2, <2>1, <2>2, TopExactly
<1> QED BY <1>3 DEF MergeOf

\* Shards nobody mentions an id in do not matter for it.
LEMMA MergePart ==
  ASSUME NEW f, NEW S, NEW P \in SUBSET S, NEW i,
         \A s \in S \ P : ~ (f[s].vecs[i] > 0) /\ i \notin f[s].tombs
  PROVE  MergeOf(f, P, i) = MergeOf(f, S, i)
<1>1. Mentioning(f, P, i) = Mentioning(f, S, i)
  BY DEF Mentioning
<1> QED BY <1>1 DEF MergeOf

\* All of this depends on the shards of S alone.
LEMMA CovSame ==
  ASSUME NEW f, NEW g, NEW S, \A s \in S : f[s] = g[s]
  PROVE  Cov(g, S) = Cov(f, S)
<1>1. {f[s].hi : s \in S} = {g[s].hi : s \in S}
  OBVIOUS
<1> QED BY <1>1 DEF Cov

\* Whether shards form a chain depends on these shards alone.
LEMMA ChainSame ==
  ASSUME NEW f, NEW g, NEW S, \A s \in S : f[s] = g[s], Chain(f, S)
  PROVE  Chain(g, S)
<1>1. ASSUME NEW t \in S, g[t].lo > 0
      PROVE  g[t].lo = Cov(g, {u \in S : g[u].lo < g[t].lo}) + 1
  <2> DEFINE B == {u \in S : f[u].lo < f[t].lo}
  <2>1. B = {u \in S : g[u].lo < g[t].lo}
    OBVIOUS
  <2>2. g[t].lo = Cov(f, B) + 1
    BY <1>1 DEF Chain, NoGap
  <2>3. \A s \in B : f[s] = g[s]
    OBVIOUS
  <2> HIDE DEF B
  <2>4. Cov(g, B) = Cov(f, B)
    BY <2>3, CovSame
  <2> QED BY <2>1, <2>2, <2>4
<1> QED BY <1>1 DEF Chain, NoGap

Agree(f, g, S) == \A s \in S : f[s] = g[s]

\* So does what they merge to.
LEMMA MergeSame ==
  ASSUME NEW f, NEW g, NEW S, NEW N, NEW i, Agree(f, g, S), Bands(f, S, N), Chain(f, S)
  PROVE  MergeOf(g, S, i) = MergeOf(f, S, i)
<1>0. /\ \A s \in S : f[s] = g[s]
      /\ \A s \in S, t \in S : f[s].lo = f[t].lo => s = t
  BY DEF Agree, Chain
<1> DEFINE M == Mentioning(f, S, i)
<1>1. M \in SUBSET S /\ Mentioning(g, S, i) = M
  BY <1>0 DEF Mentioning
<1>2. CASE M = {}
  BY <1>1, <1>2 DEF MergeOf
<1>3. CASE M # {}
  <2>1. Bands(f, M, N) /\ Bands(g, S, N)
    BY <1>0, <1>1, BandsPart DEF Bands
  <2> DEFINE x == Top(f, M)
  <2>2. x \in M /\ \A t \in M : f[t].lo <= f[x].lo
    <3> HIDE DEF M
    <3> QED BY <2>1, <1>3, TopIs
  <2> HIDE DEF x, M
  <2>3. x \in Mentioning(g, S, i) /\ \A t \in Mentioning(g, S, i) : g[t].lo <= g[x].lo
    BY <1>0, <1>1, <2>2
  <2>4. \A s \in S, t \in S : g[s].lo = g[t].lo => s = t
    BY <1>0
  <2>5. MergeOf(g, S, i) = g[x].vecs[i]
    BY <2>1, <2>3, <2>4, MergeExactly
  <2>6. MergeOf(f, S, i) = f[x].vecs[i]
    BY <1>3 DEF MergeOf, M, x
  <2> QED BY <1>0, <1>1, <2>2, <2>5, <2>6
<1> QED BY <1>2, <1>3

\* A base alone.
LEMMA ChainOfOne ==
  ASSUME NEW f, NEW u, NEW N, Bands(f, {u}, N), f[u].lo = 0
  PROVE  /\ Chain(f, {u}) /\ Cov(f, {u}) = f[u].hi
         /\ \A i \in Ids : f[u].vecs[i] \in Nat => MergeOf(f, {u}, i) = f[u].vecs[i]
<1>1. Chain(f, {u})
  BY DEF Chain, NoGap
<1>2. f[u].hi \in Nat /\ N \in Nat
  BY DEF Bands
<1>3. Cov(f, {u}) = f[u].hi
  BY <1>2, CovExactly
<1>4. ASSUME NEW i \in Ids, f[u].vecs[i] \in Nat PROVE MergeOf(f, {u}, i) = f[u].vecs[i]
  <2>1. CASE Mentioning(f, {u}, i) = {}
    <3>1. ~ (f[u].vecs[i] > 0)
      BY <2>1 DEF Mentioning
    <3> QED BY <3>1, <2>1, <1>4 DEF MergeOf
  <2>2. CASE Mentioning(f, {u}, i) # {}
    <3>1. u \in Mentioning(f, {u}, i) /\ \A t \in Mentioning(f, {u}, i) : t = u
      BY <2>2 DEF Mentioning
    <3>2. f[u].lo <= f[u].lo
      BY DEF Bands
    <3> QED BY <3>1, <3>2, MergeExactly
  <2> QED BY <2>1, <2>2
<1> QED BY <1>1, <1>3, <1>4

\* A delta that begins where a chain ends.
LEMMA ChainAdd ==
  ASSUME NEW f, NEW S, NEW N, Bands(f, S, N), Chain(f, S),
         NEW u, u \notin S, Bands(f, {u}, N), f[u].lo = Cov(f, S) + 1
  PROVE  /\ Chain(f, S \cup {u}) /\ Cov(f, S \cup {u}) = f[u].hi
         /\ \A s \in S : f[s].lo < f[u].lo
<1> DEFINE T == S \cup {u}
<1>1. /\ N \in Nat /\ Cov(f, S) \in Nat /\ \A s \in S : f[s].hi <= Cov(f, S)
      /\ \A s \in S : f[s].lo \in Nat /\ f[s].hi \in Nat /\ f[s].lo <= f[s].hi
      /\ f[u].lo \in Nat /\ f[u].hi \in Nat /\ f[u].lo <= f[u].hi
  <2>1. Cov(f, S) \in 0..N /\ \A s \in S : f[s].hi <= Cov(f, S)
    BY CovIs
  <2> QED BY <2>1 DEF Bands
<1>2. \A s \in S : f[s].lo < f[u].lo /\ f[s].hi <= f[u].hi
  BY <1>1
<1>3. Bands(f, T, N)
  BY DEF Bands
<1>4. Cov(f, T) = f[u].hi
  <2>1. \A s \in T : f[s].hi <= f[u].hi
    BY <1>1, <1>2
  <2>2. u \in T
    OBVIOUS
  <2> HIDE DEF T
  <2> QED BY <1>1, <1>3, <2>1, <2>2, CovExactly
<1>5. \A s \in T, t \in T : f[s].lo = f[t].lo => s = t
  <2> SUFFICES ASSUME NEW s \in T, NEW t \in T, f[s].lo = f[t].lo PROVE s = t
    OBVIOUS
  <2>1. CASE s \in S /\ t \in S
    BY <2>1 DEF Chain
  <2>2. CASE s = u \/ t = u
    BY <2>2, <1>1, <1>2
  <2> QED BY <2>1, <2>2
<1>6. ASSUME NEW t \in T, f[t].lo > 0
      PROVE  f[t].lo = Cov(f, {v \in T : f[v].lo < f[t].lo}) + 1
  <2>1. CASE t = u
    <3>1. {v \in T : f[v].lo < f[t].lo} = S
      BY <2>1, <1>1, <1>2
    <3> QED BY <3>1, <2>1
  <2>2. CASE t \in S
    <3>1. {v \in T : f[v].lo < f[t].lo} = {v \in S : f[v].lo < f[t].lo}
      BY <2>2, <1>1, <1>2
    <3> QED BY <3>1, <2>2, <1>6 DEF Chain, NoGap
  <2> QED BY <2>1, <2>2
<1> QED BY <1>2, <1>4, <1>5, <1>6 DEF Chain, NoGap

\* T is S and above it u.
OnTop(f, S, u, T) == /\ S \in SUBSET T /\ u \in T /\ \A t \in T \ S : t = u
                     /\ \A s \in S : f[s].lo < f[u].lo

\* What a delta on top says about an id.
LEMMA MergeAdd ==
  ASSUME NEW f, NEW S, NEW u, NEW T, OnTop(f, S, u, T), NEW N, Bands(f, T, N), Chain(f, T), NEW i
  PROVE  /\ f[u].vecs[i] > 0 \/ i \in f[u].tombs => MergeOf(f, T, i) = f[u].vecs[i]
         /\ ~ (f[u].vecs[i] > 0 \/ i \in f[u].tombs) => MergeOf(f, T, i) = MergeOf(f, S, i)
<1>0. /\ S \in SUBSET T /\ u \in T /\ \A t \in T \ S : t = u
      /\ \A s \in S : f[s].lo < f[u].lo
  BY DEF OnTop
<1>1. CASE f[u].vecs[i] > 0 \/ i \in f[u].tombs
  <2>1. u \in Mentioning(f, T, i)
    BY <1>0, <1>1 DEF Mentioning
  <2>2. \A t \in Mentioning(f, T, i) : f[t].lo <= f[u].lo
    BY <1>0 DEF Mentioning, Bands
  <2>3. \A s \in T, t \in T : f[s].lo = f[t].lo => s = t
    BY DEF Chain
  <2>4. MergeOf(f, T, i) = f[u].vecs[i]
    BY <2>1, <2>2, <2>3, MergeExactly
  <2> QED BY <1>1, <2>4
<1>2. CASE ~ (f[u].vecs[i] > 0 \/ i \in f[u].tombs)
  <2>1. \A s \in T \ S : ~ (f[s].vecs[i] > 0) /\ i \notin f[s].tombs
    BY <1>0, <1>2
  <2> QED BY <1>0, <1>2, <2>1, MergePart
<1> QED BY <1>1, <1>2

\* The lower part of a chain is a chain, and the rest lies above its frontier.
LEMMA LowerPart ==
  ASSUME NEW f, NEW S, NEW N, Bands(f, S, N), Chain(f, S), NEW P \in SUBSET S, P # {},
         \A s \in P, t \in S : f[t].lo <= f[s].lo => t \in P
  PROVE  /\ Chain(f, P)
         /\ \A s \in S \ P : f[s].lo > Cov(f, P)
<1>0. /\ Bands(f, P, N)
      /\ \A s \in S : f[s].lo \in Nat
  BY BandsPart DEF Bands
<1>1. ASSUME NEW t \in P, f[t].lo > 0
      PROVE  f[t].lo = Cov(f, {u \in P : f[u].lo < f[t].lo}) + 1
  <2>1. {u \in P : f[u].lo < f[t].lo} = {u \in S : f[u].lo < f[t].lo}
    BY <1>0
  <2> QED BY <1>1, <2>1 DEF Chain, NoGap
<1>2. Chain(f, P)
  BY <1>1 DEF Chain, NoGap
<1>3. ASSUME NEW s \in S \ P PROVE f[s].lo > Cov(f, P)
  <2>1. \A p \in P : f[p].lo < f[s].lo
    BY <1>0
  <2>2. f[s].lo > 0
    BY <2>1, <1>0
  <2> DEFINE B == {u \in S : f[u].lo < f[s].lo}
  <2>3. f[s].lo = Cov(f, B) + 1
    BY <2>2 DEF Chain, NoGap
  <2>4. Bands(f, B, N)
    BY BandsPart
  <2>5. P \subseteq B
    BY <2>1
  <2> HIDE DEF B
  <2>6. Cov(f, B) \in Nat /\ \A u \in B : f[u].hi <= Cov(f, B)
    <3>1. N \in Nat
      BY DEF Bands
    <3> QED BY <2>4, <3>1, CovIs
  <2>7. Cov(f, P) \in Nat /\ (Cov(f, P) = 0 \/ \E p \in P : f[p].hi = Cov(f, P))
    <3>1. N \in Nat
      BY DEF Bands
    <3> QED BY <1>0, <3>1, CovIs
  <2>8. Cov(f, P) <= Cov(f, B)
    BY <2>5, <2>6, <2>7
  <2> QED BY <2>3, <2>6, <2>7, <2>8
<1> QED BY <1>2, <1>3

-----------------------------------------------------------------------------
(* Generations *)

\* The largest of some ordinals, or zero when there is none.
LEMMA MaxOrZero ==
  ASSUME NEW N \in Nat, NEW T, T \subseteq 1..N
  PROVE  /\ Max(T \cup {0}) \in T \cup {0}
         /\ \A t \in T : t <= Max(T \cup {0})
         /\ Max(T \cup {0}) = 0 <=> T = {}
<1> DEFINE U == T \cup {0}
<1>1. U \subseteq 0..N /\ U # {} /\ 0 \in U /\ T \subseteq U
  OBVIOUS
<1>2. Max(U) \in U /\ \A k \in U : k <= Max(U)
  <2> HIDE DEF U
  <2> QED BY <1>1, MaxIsLargest
<1>3. \A t \in T : t \in Nat /\ t > 0
  OBVIOUS
<1>4. PICK m \in U : m = Max(U) /\ \A k \in U : k <= m
  BY <1>2
<1>5. m \in T \cup {0} /\ \A t \in T : t <= m
  BY <1>4
<1>6. m = 0 <=> T = {}
  BY <1>3, <1>5
<1> QED BY <1>4, <1>5, <1>6

\* A maximum is found again in another set that has it and nothing larger.
LEMMA MaxAgain ==
  ASSUME NEW N \in Nat, NEW T, T \subseteq 1..N, NEW V, V \subseteq T,
         Max(T \cup {0}) = 0 \/ Max(T \cup {0}) \in V
  PROVE  Max(V \cup {0}) = Max(T \cup {0})
<1> DEFINE m == Max(T \cup {0})
<1>1. m \in T \cup {0} /\ (\A t \in T : t <= m) /\ (m = 0 <=> T = {})
  BY MaxOrZero
<1>2. \A t \in T : t \in Nat
  OBVIOUS
<1> HIDE DEF m
<1>3. V \cup {0} \subseteq Nat /\ m \in V \cup {0} /\ \A k \in V \cup {0} : k <= m
  <2>1. m \in V \cup {0}
    BY DEF m
  <2>2. m \in Nat
    BY <1>1, <1>2
  <2> QED BY <1>1, <1>2, <2>1, <2>2
<1>4. Max(V \cup {0}) = m
  BY <1>3, MaxIs
<1> QED BY <1>4 DEF m

\* The newest base and the one before it.
LEMMA BaseFacts ==
  ASSUME ShardInv
  PROVE  /\ Bases \subseteq 1..Len(shards) /\ Len(shards) \in Nat
         /\ NewestBase \in Bases \cup {0} /\ (NewestBase = 0 <=> Bases = {})
         /\ \A g \in Bases : g <= NewestBase
         /\ PriorBase \in (Bases \ {NewestBase}) \cup {0}
         /\ \A g \in Bases \ {NewestBase} : g <= PriorBase
         /\ PriorBase = 0 <=> Bases \ {NewestBase} = {}
<1>1. Bases \subseteq 1..Len(shards) /\ Len(shards) \in Nat
  <2>1. Len(shards) \in Nat
    BY DEF ShardInv
  <2>2. catalog \subseteq 1..Len(shards)
    BY DEF ShardInv
  <2> QED BY <2>1, <2>2 DEF Bases
<1>2. /\ NewestBase \in Bases \cup {0} /\ (NewestBase = 0 <=> Bases = {})
      /\ \A g \in Bases : g <= NewestBase
  BY <1>1, MaxOrZero DEF NewestBase
<1> DEFINE R == Bases \ {NewestBase}
<1>3. R \subseteq 1..Len(shards)
  BY <1>1
<1>4. PriorBase = Max(R \cup {0})
  BY DEF PriorBase
<1> HIDE DEF R
<1>5. Max(R \cup {0}) \in R \cup {0} /\ (Max(R \cup {0}) = 0 <=> R = {})
      /\ \A g \in R : g <= Max(R \cup {0})
  BY <1>1, <1>3, MaxOrZero
<1> QED BY <1>1, <1>2, <1>4, <1>5 DEF R

\* The two retained generations.
LEMMA GenFacts ==
  ASSUME ShardInv
  PROVE  /\ live_generation \subseteq catalog /\ grace_generation \subseteq catalog
         /\ live_generation \subseteq 1..Len(shards) /\ grace_generation \subseteq 1..Len(shards)
         /\ live_generation = {} <=> NewestBase = 0
         /\ live_generation # {} => NewestBase \in live_generation
         /\ NewestBase \notin grace_generation
         /\ grace_generation # {} => PriorBase \in grace_generation /\ live_generation # {}
         /\ grace_generation = {} <=> PriorBase = 0
         /\ live_generation # {} => shards[NewestBase].parent = 0 /\ shards[NewestBase].lo = 0
         /\ \A d \in Deltas : shards[d].parent = NewestBase /\ shards[d].lo > 0
<1>1. /\ NewestBase \in Bases \cup {0} /\ (NewestBase = 0 <=> Bases = {})
      /\ PriorBase \in (Bases \ {NewestBase}) \cup {0}
      /\ 0 \notin Bases
  BY BaseFacts
<1>2. Bases \subseteq catalog /\ catalog \subseteq 1..Len(shards)
  BY DEF Bases, ShardInv
<1>3. live_generation \subseteq catalog /\ grace_generation \subseteq catalog
  BY <1>1, <1>2 DEF live_generation, grace_generation, Generation
<1>4. NewestBase \notin grace_generation
  <2>1. NewestBase \in Bases => shards[NewestBase].parent = 0
    BY DEF Bases
  <2> QED BY <2>1, <1>1 DEF grace_generation, Generation
<1>5. live_generation # {} => shards[NewestBase].parent = 0 /\ shards[NewestBase].lo = 0
  <2>1. live_generation # {} => NewestBase \in Bases
    BY <1>1 DEF live_generation
  <2> QED BY <2>1, <1>2 DEF Bases, ShardInv
<1>6. \A d \in Deltas : shards[d].parent = NewestBase /\ shards[d].lo > 0
  <2>1. \A d \in Deltas : d \in catalog /\ shards[d].parent = NewestBase /\ NewestBase # 0
    BY DEF Deltas, live_generation, Generation
  <2> QED BY <2>1, <1>2 DEF ShardInv
<1>7. /\ live_generation = {} <=> NewestBase = 0
      /\ live_generation # {} => NewestBase \in live_generation
      /\ grace_generation # {} => PriorBase \in grace_generation /\ live_generation # {}
      /\ grace_generation = {} <=> PriorBase = 0
  BY <1>1 DEF live_generation, grace_generation, Generation
<1> QED BY <1>2, <1>3, <1>4, <1>5, <1>6, <1>7

\* The fields of a shard.
LEMMA ShardFacts ==
  ASSUME ShardInv, NEW s \in 1..Len(shards)
  PROVE  /\ shards[s] \in ShardRecs
         /\ shards[s].parent \in Nat /\ shards[s].lo \in Nat /\ shards[s].hi \in Nat
         /\ shards[s].tombs \subseteq Ids /\ shards[s].vecs \in [Ids -> Nat]
         /\ s \in Nat
<1>1. shards[s] \in ShardRecs
  BY DEF ShardInv
<1>2. Len(shards) \in Nat
  BY DEF ShardInv
<1> QED BY <1>1, <1>2 DEF ShardRecs

\* All shards have bands up to the last LSN.
LEMMA BandsOf ==
  ASSUME ShardInv, StoreInv, NEW S \in SUBSET (1..Len(shards))
  PROVE  Bands(shards, S, last_lsn)
<1>1. last_lsn \in Nat /\ Len(shards) \in Nat
  BY DEF StoreInv, ShardInv
<1>2. \A s \in S : /\ shards[s] \in ShardRecs
                   /\ shards[s].lo <= shards[s].hi /\ shards[s].hi <= last_lsn
  BY DEF ShardInv
<1>3. \A s \in S : shards[s].lo \in Nat /\ shards[s].hi \in Nat
  BY ONLY <1>2 DEF ShardRecs
<1>4. \A s \in S : shards[s].lo \in Nat /\ shards[s].hi \in 0..last_lsn
                  /\ shards[s].lo <= shards[s].hi
  BY ONLY <1>1, <1>2, <1>3
<1> QED BY ONLY <1>1, <1>4 DEF Bands

-----------------------------------------------------------------------------
(* What a step does to the generations *)

Kept == /\ Len(shards') \in Nat /\ Len(shards) <= Len(shards')
        /\ \A s \in 1..Len(shards) : shards'[s] = shards[s]

\* The steps that leave the two generations as they are.
SameGenerations == /\ Kept
                   /\ live_generation' = live_generation /\ grace_generation' = grace_generation
                   /\ NewestBase' = NewestBase

\* An unchanged catalog means unchanged generations.
LEMMA CatalogStays ==
  ASSUME ShardInv, Kept, catalog' = catalog
  PROVE  SameGenerations
<1>1. Bases' = Bases
  BY DEF Bases, Kept, ShardInv
<1>2. NewestBase' = NewestBase
  BY <1>1 DEF NewestBase
<1>3. PriorBase' = PriorBase
  BY <1>1, <1>2 DEF PriorBase
<1>4. \A d \in catalog : shards'[d] = shards[d]
  BY DEF Kept, ShardInv
<1>5. live_generation' = live_generation
  BY <1>2, <1>4 DEF live_generation, Generation
<1>6. grace_generation' = grace_generation
  BY <1>3, <1>4 DEF grace_generation, Generation
<1> QED BY <1>2, <1>5, <1>6 DEF SameGenerations

\* The rows of superseded shards go.
LEMMA SweepStays ==
  ASSUME ShardInv, shards' = shards, NEW T, T \cap Retained = {}, catalog' = catalog \ T
  PROVE  SameGenerations
<1>0. Kept
  BY DEF Kept, ShardInv
<1>1. /\ NewestBase \in Bases \cup {0} /\ PriorBase \in (Bases \ {NewestBase}) \cup {0}
      /\ Bases \subseteq 1..Len(shards) /\ Len(shards) \in Nat
  BY BaseFacts
<1>2. Bases' = Bases \ T
  BY DEF Bases
<1>3. /\ NewestBase = 0 \/ NewestBase \in Bases \ T
      /\ PriorBase = 0 \/ PriorBase \in (Bases \ T) \ {NewestBase}
  <2>1. live_generation # {} => NewestBase \in live_generation
    BY GenFacts
  <2>2. grace_generation # {} => PriorBase \in grace_generation
    BY GenFacts
  <2>3. /\ live_generation = {} <=> NewestBase = 0
        /\ grace_generation = {} <=> PriorBase = 0
    BY GenFacts
  <2> QED BY <1>1, <2>1, <2>2, <2>3 DEF Retained
<1>4. NewestBase' = NewestBase
  <2>1. Bases \ T \subseteq Bases
    OBVIOUS
  <2>2. Max((Bases \ T) \cup {0}) = Max(Bases \cup {0})
    BY <1>1, <1>3, <2>1, MaxAgain DEF NewestBase
  <2> QED BY <2>2, <1>2 DEF NewestBase
<1>5. PriorBase' = PriorBase
  <2> DEFINE R == Bases \ {NewestBase}
             V == (Bases \ T) \ {NewestBase}
  <2>1. R \subseteq 1..Len(shards) /\ V \subseteq R
    BY <1>1
  <2>2. PriorBase = Max(R \cup {0}) /\ PriorBase' = Max(V \cup {0})
    BY <1>2, <1>4 DEF PriorBase
  <2>3. PriorBase = 0 \/ PriorBase \in V
    BY <1>3
  <2> HIDE DEF R, V
  <2>4. Max(V \cup {0}) = Max(R \cup {0})
    BY <1>1, <2>1, <2>2, <2>3, MaxAgain
  <2> QED BY <2>2, <2>4
<1>6. live_generation' = live_generation
  BY <1>4 DEF live_generation, Generation, Retained
<1>7. grace_generation' = grace_generation
  BY <1>5 DEF grace_generation, Generation, Retained
<1> QED BY <1>0, <1>4, <1>6, <1>7 DEF SameGenerations

\* A new base is a generation of its own; the one before is kept for its readers.
LEMMA NewGeneration ==
  ASSUME ShardInv, shards' = shards, NEW u, u = Len(shards), u > 0, u \notin catalog,
         catalog' = catalog \cup {u}, shards[u].parent = 0
  PROVE  /\ live_generation' = {u} /\ grace_generation' = live_generation
         /\ NewestBase' = u
<1>1. /\ Bases \subseteq 1..Len(shards) /\ Len(shards) \in Nat
      /\ NewestBase \in Bases \cup {0} /\ (NewestBase = 0 <=> Bases = {})
  BY BaseFacts
<1>2. catalog \subseteq 1..Len(shards) /\ u \in 1..Len(shards)
  BY <1>1 DEF ShardInv
<1>3. Bases' = Bases \cup {u} /\ u \notin Bases
  BY DEF Bases
<1>4. NewestBase' = u
  <2> DEFINE W == (Bases \cup {u}) \cup {0}
  <2>0. \A k \in 1..Len(shards) : k \in Nat /\ k <= u
    BY <1>1
  <2>1. W \subseteq Nat /\ u \in W /\ \A k \in W : k <= u
    <3>1. \A k \in Bases : k \in Nat /\ k <= u
      BY <1>1, <2>0
    <3>2. u \in Nat /\ u <= u /\ 0 <= u
      BY <1>1
    <3> QED BY ONLY <3>1, <3>2
  <2>2. NewestBase' = Max(W)
    BY <1>3 DEF NewestBase
  <2> HIDE DEF W
  <2> QED BY <2>1, <2>2, MaxIs
<1>5. PriorBase' = NewestBase
  <2>1. Bases' \ {NewestBase'} = Bases
    BY <1>3, <1>4
  <2> QED BY <2>1 DEF PriorBase, NewestBase
<1>6. \A d \in catalog' : shards[d].parent # u
  <2>0. \A k \in 1..Len(shards) : k \in Nat /\ k <= u /\ shards[k].parent < k
    BY <1>1 DEF ShardInv
  <2>1. \A d \in catalog' : d <= u /\ d \in 1..Len(shards) /\ shards[d].parent < d
    <3>1. \A d \in catalog' : d \in 1..Len(shards)
      BY <1>2
    <3> QED BY <3>1, <2>0
  <2>2. \A d \in 1..Len(shards) : shards[d].parent \in Nat /\ d \in Nat
    BY ShardFacts
  <2> QED BY <1>1, <2>1, <2>2
<1>7. live_generation' = {u}
  BY <1>4, <1>6 DEF live_generation, Generation
<1>8. grace_generation' = live_generation
  BY <1>1, <1>5 DEF live_generation, grace_generation, Generation
<1> QED BY <1>4, <1>7, <1>8

\* A delta joins the newest generation.
LEMMA GrownGeneration ==
  ASSUME ShardInv, shards' = shards, NEW u, u = Len(shards), u > 0, u \notin catalog,
         catalog' = catalog \cup {u}, live_generation # {}, shards[u].parent = NewestBase
  PROVE  /\ live_generation' = live_generation \cup {u}
         /\ grace_generation' = grace_generation
         /\ NewestBase' = NewestBase
<1>1. /\ NewestBase # 0
      /\ PriorBase \in (Bases \ {NewestBase}) \cup {0}
  BY BaseFacts, GenFacts
<1>2. Bases' = Bases
  BY <1>1 DEF Bases
<1>3. NewestBase' = NewestBase
  BY <1>2 DEF NewestBase
<1>4. PriorBase' = PriorBase /\ PriorBase # NewestBase
  BY <1>1, <1>2, <1>3 DEF PriorBase
<1>5. live_generation' = live_generation \cup {u}
  BY <1>1, <1>3 DEF live_generation, Generation
<1>6. grace_generation' = grace_generation
  BY <1>4 DEF grace_generation, Generation
<1> QED BY <1>3, <1>5, <1>6

-----------------------------------------------------------------------------
(* The model's operators in these terms *)

\* Merged, id by id.
LEMMA MergedIs ==
  ASSUME NEW S, NEW i \in Ids
  PROVE  Merged(S)[i] = MergeOf(shards, S, i)
  BY DEF Merged, MergeOf, Holders, Deleters, Mentioning, TopBand, Top

\* What a search shows of an id is what a merge would hold, or nothing, or it missed a
\* newer mention; and nothing when the merge holds nothing and tombstones translate.
LEMMA SearchIs ==
  ASSUME NEW S, NEW N, Bands(shards, S, N), Chain(shards, S), NEW i,
         NEW found \in SUBSET Holders(S, i), NEW mapped \in BOOLEAN,
         NEW hit, hit = Searched(S, i, found, mapped), NEW want, want = MergeOf(shards, S, i)
  PROVE  /\ hit \in {0, want} \/ Missed(S, i, found, mapped)
         /\ mapped /\ want = 0 => hit = 0
         /\ Deleters(S, i) = {} /\ found = Holders(S, i) => hit = want
<1> DEFINE M == Mentioning(shards, S, i)
<1>1. M = Holders(S, i) \cup Deleters(S, i) /\ M \in SUBSET S
  BY DEF Mentioning, Holders, Deleters
<1>2. found # {} => hit = IF Deleters(S, i) # {} /\ mapped THEN 0 ELSE shards[Top(shards, found)].vecs[i]
  BY DEF Searched, NewestCopy, TopBand, Top
<1>3. found = {} => hit = 0
  BY DEF Searched, NewestCopy
<1>4. CASE M = {}
  <2>1. want = 0 /\ found = {}
    BY <1>1, <1>4 DEF MergeOf
  <2> QED BY <2>1, <1>3
<1>5. CASE M # {}
  <2>1. Bands(shards, M, N)
    BY <1>1, BandsPart
  <2> DEFINE x == Top(shards, M)
  <2>2. x \in M /\ \A t \in M : shards[t].lo <= shards[x].lo
    <3> HIDE DEF M
    <3> QED BY <2>1, <1>5, TopIs
  <2>3. want = shards[x].vecs[i]
    BY <1>5 DEF MergeOf
  <2> HIDE DEF M, x
  <2>4. /\ \A s \in S, t \in S : shards[s].lo = shards[t].lo => s = t
        /\ \A s \in S : shards[s].lo \in Nat
    BY DEF Chain, Bands
  <2>5. found \in SUBSET M /\ Bands(shards, found, N)
    BY <1>1, <2>1, BandsPart
  <2>6. x \in found => Top(shards, found) = x
    <3>1. \A s \in found, t \in found : shards[s].lo = shards[t].lo => s = t
      BY <1>1, <2>4, <2>5
    <3> QED BY <2>2, <2>5, <3>1, TopExactly
  <2>7. x \notin found => \A t \in found : shards[x].lo > shards[t].lo
    <3> SUFFICES ASSUME x \notin found, NEW t \in found PROVE shards[x].lo > shards[t].lo
      OBVIOUS
    <3>1. t \in M /\ t # x /\ t \in S /\ x \in S
      BY <1>1, <2>2, <2>5
    <3> QED BY <2>2, <2>4, <3>1
  <2>8. x \in Holders(S, i) => shards[x].vecs[i] > 0
    BY DEF Holders
  <2>9. hit \in {0, want} \/ Missed(S, i, found, mapped)
    <3>1. CASE x \in found
      BY <3>1, <1>2, <2>3, <2>6
    <3>2. CASE x \notin found /\ x \in Holders(S, i)
      BY <3>2, <2>7 DEF Missed
    <3>3. CASE x \in Deleters(S, i)
      <4>1. CASE mapped
        BY <4>1, <3>3 DEF Searched
      <4>2. CASE ~ mapped /\ x \in found
        BY <4>2, <3>1
      <4>3. CASE ~ mapped /\ x \notin found
        BY <4>3, <3>3, <2>7 DEF Missed
      <4> QED BY <4>1, <4>2, <4>3
    <3> QED BY <1>1, <2>2, <3>1, <3>2, <3>3
  <2>10. mapped /\ want = 0 => hit = 0
    <3>1. CASE Deleters(S, i) # {}
      BY <3>1 DEF Searched
    <3>2. CASE Deleters(S, i) = {}
      BY <3>2, <1>1, <2>2, <2>3, <2>8
    <3> QED BY <3>1, <3>2
  <2>11. Deleters(S, i) = {} /\ found = Holders(S, i) => hit = want
    BY <1>1, <1>2, <2>2, <2>3, <2>6
  <2> QED BY <2>9, <2>10, <2>11
<1> QED BY <1>4, <1>5

\* The walk over a chain's bands meets no gap.
LEMMA FrontierIs ==
  ASSUME NEW S, Chain(shards, S)
  PROVE  frontier_watermark(S) = Cov(shards, S)
<1>1. \A s \in S : Contiguous(S, s)
  BY DEF Contiguous, Chain, NoGap, CoveredHi, Cov
<1>2. {s \in S : Contiguous(S, s)} = S
  BY <1>1
<1> QED BY <1>2 DEF frontier_watermark, CoveredHi, Cov

\* The highest LSN in the snapshot.
LEMMA SnapIs ==
  ASSUME NEW N \in Nat, snap \in [Ids -> Row], \A i \in Ids : snap[i].lsn <= N
  PROVE  SnapLsn \in 0..N /\ \A i \in Ids : snap[i].lsn <= SnapLsn
<1> DEFINE T == {snap[i].lsn : i \in Ids} \cup {0}
<1>0. \A i \in Ids : snap[i].lsn \in 0..N
  BY DEF Row
<1>1. T \subseteq 0..N /\ T # {} /\ \A i \in Ids : snap[i].lsn \in T
  BY <1>0
<1>2. SnapLsn = Max(T)
  BY DEF SnapLsn
<1> HIDE DEF T
<1>3. Max(T) \in T /\ \A k \in T : k <= Max(T)
  BY <1>1, MaxIsLargest
<1> QED BY <1>1, <1>2, <1>3

\* No row of the snapshot is above SnapLsn, which is an LSN.
LEMMA SnapBound ==
  ASSUME StoreInv, SnapInv, pc # "idle"
  PROVE  SnapLsn \in 0..last_lsn /\ \A i \in Ids : snap[i].lsn <= SnapLsn
<1>1. last_lsn \in Nat /\ snap \in [Ids -> Row] /\ \A i \in Ids : snap[i].lsn <= last_lsn
  BY DEF StoreInv, SnapInv
<1> QED BY <1>1, SnapIs

-----------------------------------------------------------------------------
(* Writes, shards and the snapshot *)

\* A write puts its row above all others; a trim only removes rows.
LEMMA StoreStep ==
  ASSUME StoreInv, [Next]_vars
  PROVE  StoreInv' /\ last_lsn <= last_lsn'
<1>1. ASSUME NEW i \in Ids, recall_upsert_vectors(i) PROVE StoreInv' /\ last_lsn <= last_lsn'
  <2>1. /\ last_lsn' = last_lsn + 1 /\ last_lsn \in Nat
        /\ recall' \in [Ids -> Row] /\ truth' \in [Ids -> Nat]
    BY <1>1, DeltaAssumption DEF StoreInv, Row, recall_upsert_vectors, Stamp
  <2>2. ASSUME NEW j \in Ids
        PROVE  /\ (recall[j].lsn <= last_lsn)'
               /\ (recall[j].lsn > 0 => Version(recall[j]) = truth[j])'
    <3>1. recall[j].lsn \in Nat
      BY DEF StoreInv, Row
    <3>2. CASE j = i
      BY <1>1, <2>1, <3>2 DEF StoreInv, Version, recall_upsert_vectors, Stamp
    <3>3. CASE j # i
      BY <1>1, <2>1, <3>1, <3>3 DEF StoreInv, recall_upsert_vectors, Stamp
    <3> QED BY <3>2, <3>3
  <2> QED BY <2>1, <2>2 DEF StoreInv
<1>2. ASSUME NEW i \in Deletable, recall_delete_vector(i) PROVE StoreInv' /\ last_lsn <= last_lsn'
  <2>1. /\ last_lsn' = last_lsn + 1 /\ last_lsn \in Nat
        /\ recall' \in [Ids -> Row] /\ truth' \in [Ids -> Nat]
    BY <1>2, DeltaAssumption DEF StoreInv, Row, recall_delete_vector, Stamp
  <2>2. ASSUME NEW j \in Ids
        PROVE  /\ (recall[j].lsn <= last_lsn)'
               /\ (recall[j].lsn > 0 => Version(recall[j]) = truth[j])'
    <3>1. recall[j].lsn \in Nat
      BY DEF StoreInv, Row
    <3>2. CASE j = i
      BY <1>2, <2>1, <3>2 DEF StoreInv, Version, recall_delete_vector, Stamp
    <3>3. CASE j # i
      BY <1>2, <2>1, <3>1, <3>3 DEF StoreInv, recall_delete_vector, Stamp
    <3> QED BY <3>2, <3>3
  <2> QED BY <2>1, <2>2 DEF StoreInv
<1>3. ASSUME Snapshot PROVE StoreInv' /\ last_lsn <= last_lsn'
  <2>1. UNCHANGED <<last_lsn, recall, truth>>
    BY <1>3 DEF Snapshot, storeVars
  <2> QED BY <2>1 DEF StoreInv, Version
<1>4. ASSUME NothingToFold PROVE StoreInv' /\ last_lsn <= last_lsn'
  <2>1. UNCHANGED <<last_lsn, recall, truth>>
    BY <1>4 DEF NothingToFold, EndRun, storeVars
  <2> QED BY <2>1 DEF StoreInv, Version
<1>5. ASSUME BuildDeltaFold PROVE StoreInv' /\ last_lsn <= last_lsn'
  <2>1. UNCHANGED <<last_lsn, recall, truth>>
    BY <1>5 DEF BuildDeltaFold, Put, storeVars
  <2> QED BY <2>1 DEF StoreInv, Version
<1>6. ASSUME CommitShard PROVE StoreInv' /\ last_lsn <= last_lsn'
  <2>1. UNCHANGED <<last_lsn, recall, truth>>
    BY <1>6 DEF CommitShard, storeVars
  <2> QED BY <2>1 DEF StoreInv, Version
<1>7. ASSUME Settle PROVE StoreInv' /\ last_lsn <= last_lsn'
  <2>1. UNCHANGED <<last_lsn, recall, truth>>
    BY <1>7 DEF Settle, Fault, storeVars
  <2> QED BY <2>1 DEF StoreInv, Version
<1>8. ASSUME SweepObjects PROVE StoreInv' /\ last_lsn <= last_lsn'
  <2>1. UNCHANGED <<last_lsn, recall, truth>>
    BY <1>8 DEF SweepObjects, storeVars
  <2> QED BY <2>1 DEF StoreInv, Version
<1>9. ASSUME SweepRows PROVE StoreInv' /\ last_lsn <= last_lsn'
  <2>1. UNCHANGED <<last_lsn, recall, truth>>
    BY <1>9 DEF SweepRows, Fault, storeVars
  <2> QED BY <2>1 DEF StoreInv, Version
<1>10. ASSUME SkipCompaction PROVE StoreInv' /\ last_lsn <= last_lsn'
  <2>1. UNCHANGED <<last_lsn, recall, truth>>
    BY <1>10 DEF SkipCompaction, Fault, storeVars
  <2> QED BY <2>1 DEF StoreInv, Version
<1>11. ASSUME major_compaction PROVE StoreInv' /\ last_lsn <= last_lsn'
  <2>1. UNCHANGED <<last_lsn, recall, truth>>
    BY <1>11 DEF major_compaction, Put, storeVars
  <2> QED BY <2>1 DEF StoreInv, Version
<1>12. ASSUME Trim PROVE StoreInv' /\ last_lsn <= last_lsn'
  <2>1. UNCHANGED <<last_lsn, truth>> /\ last_lsn \in Nat
    BY <1>12 DEF Trim, StoreInv
  <2>2. \A j \in Ids : recall'[j] = recall[j] \/ recall'[j] = NoRow
    BY <1>12 DEF Trim, StoreInv
  <2>3. recall' \in [Ids -> Row]
    <3>1. NoRow \in Row
      BY DEF NoRow, Row
    <3>2. CASE recall' = recall
      BY <3>2 DEF StoreInv
    <3>3. CASE recall' = [i \in Ids |-> IF recall[i].lsn <= grace_watermark THEN NoRow
                                                                      ELSE recall[i]]
      BY <3>1, <3>3 DEF StoreInv
    <3> QED BY <1>12, <3>2, <3>3 DEF Trim
  <2>4. \A j \in Ids : /\ (recall[j].lsn <= last_lsn)'
                       /\ (recall[j].lsn > 0 => Version(recall[j]) = truth[j])'
    BY <2>1, <2>2 DEF StoreInv, NoRow, Version
  <2> QED BY <2>1, <2>3, <2>4 DEF StoreInv
<1>13. ASSUME Abort PROVE StoreInv' /\ last_lsn <= last_lsn'
  <2>1. UNCHANGED <<last_lsn, recall, truth>>
    BY <1>13 DEF Abort, EndRun, Fault, storeVars
  <2> QED BY <2>1 DEF StoreInv, Version
<1>14. ASSUME NEW r \in Readers, ResolveShard(r) PROVE StoreInv' /\ last_lsn <= last_lsn'
  <2>1. UNCHANGED <<last_lsn, recall, truth>>
    BY <1>14 DEF ResolveShard, storeVars
  <2> QED BY <2>1 DEF StoreInv, Version
<1>15. ASSUME NEW r \in Readers, RecallSearch(r) PROVE StoreInv' /\ last_lsn <= last_lsn'
  <2>1. UNCHANGED <<last_lsn, recall, truth>>
    BY <1>15 DEF RecallSearch, storeVars
  <2> QED BY <2>1 DEF StoreInv, Version
<1>16. ASSUME NEW r \in Readers, Respond(r) PROVE StoreInv' /\ last_lsn <= last_lsn'
  <2>1. UNCHANGED <<last_lsn, recall, truth>>
    BY <1>16 DEF Respond, storeVars
  <2> QED BY <2>1 DEF StoreInv, Version
<1>17. ASSUME UNCHANGED vars PROVE StoreInv' /\ last_lsn <= last_lsn'
  <2>1. UNCHANGED <<last_lsn, recall, truth>>
    BY <1>17 DEF vars, storeVars
  <2> QED BY <2>1 DEF StoreInv, Version
<1> QED
  BY <1>1, <1>2, <1>3, <1>4, <1>5, <1>6, <1>7, <1>8, <1>9, <1>10, <1>11, <1>12,
     <1>13, <1>14, <1>15, <1>16, <1>17
     DEF Next, Write, Consolidate, Read

\* A shard that may be put on the list.
Fits(u) == /\ u \in ShardRecs
           /\ u.parent <= Len(shards) /\ u.lo <= u.hi /\ u.hi <= last_lsn
           /\ u.parent = 0 => u.lo = 0 /\ u.tombs = {}
           /\ u.parent # 0 => u.lo > 0

\* A merge holds versions.
LEMMA MergeType ==
  ASSUME StoreInv, ShardInv, NEW S \in SUBSET (1..Len(shards)), NEW i \in Ids
  PROVE  MergeOf(shards, S, i) \in Nat
<1> DEFINE M == Mentioning(shards, S, i)
<1>1. M \in SUBSET S
  BY DEF Mentioning
<1>2. CASE M = {}
  BY <1>2 DEF MergeOf
<1>3. CASE M # {}
  <2>1. Bands(shards, M, last_lsn)
    BY <1>1, BandsOf
  <2> DEFINE x == Top(shards, M)
  <2>2. x \in M
    <3> HIDE DEF M
    <3> QED BY <1>3, <2>1, TopIs
  <2>3. MergeOf(shards, S, i) = shards[x].vecs[i]
    BY <1>3 DEF MergeOf
  <2> HIDE DEF x, M
  <2>4. x \in 1..Len(shards)
    BY <1>1, <2>2
  <2>5. shards[x].vecs \in [Ids -> Nat]
    BY <2>4, ShardFacts
  <2> QED BY <2>3, <2>5
<1> QED BY <1>2, <1>3

\* The newest generation's frontier is an LSN.
LEMMA CovLive ==
  ASSUME StoreInv, ShardInv
  PROVE  /\ live_generation \in SUBSET (1..Len(shards))
         /\ Bands(shards, live_generation, last_lsn)
         /\ Cov(shards, live_generation) \in 0..last_lsn
         /\ CoveredHi(live_generation) = Cov(shards, live_generation)
<1>1. live_generation \in SUBSET (1..Len(shards))
  BY GenFacts
<1>2. Bands(shards, live_generation, last_lsn)
  BY <1>1, BandsOf
<1>3. Cov(shards, live_generation) \in 0..last_lsn
  BY <1>2, CovIs
<1> QED BY <1>1, <1>2, <1>3 DEF CoveredHi, Cov

\* The fields of a row of the snapshot.
LEMMA VersionType ==
  ASSUME SnapInv, NEW i \in Ids
  PROVE  Version(snap[i]) \in Nat /\ snap[i].lsn \in Nat /\ snap[i].deleted \in BOOLEAN
<1>1. snap[i] \in Row
  BY DEF SnapInv
<1> QED BY <1>1 DEF Row, Version

\* The first base.
LEMMA PutBase ==
  ASSUME StoreInv, ShardInv, SnapInv, pc = "snapped", BuildDeltaFold, live_generation = {}
  PROVE  \E u : Put(u, FALSE) /\ Fits(u) /\ MadeOf(u, live_generation)
<1> DEFINE u == [parent |-> 0, lo |-> 0, hi |-> SnapLsn, tombs |-> {},
                 vecs |-> [i \in Ids |-> Version(snap[i])]]
<1>1. Put(u, FALSE)
  BY DEF BuildDeltaFold
<1>2. SnapLsn \in 0..last_lsn /\ last_lsn \in Nat /\ Len(shards) \in Nat
  BY SnapBound DEF StoreInv, ShardInv
<1>3. u \in ShardRecs
  BY <1>2, VersionType DEF ShardRecs
<1>4. Fits(u)
  BY <1>2, <1>3 DEF Fits
<1>5. MadeOf(u, live_generation)
  BY DEF MadeOf
<1> QED BY <1>1, <1>4, <1>5

\* A delta on the newest base.
LEMMA PutDelta ==
  ASSUME StoreInv, ShardInv, SnapInv, pc = "snapped", BuildDeltaFold, live_generation # {}
  PROVE  \E u : Put(u, FALSE) /\ Fits(u) /\ MadeOf(u, live_generation)
<1> DEFINE c == Cov(shards, live_generation)
<1>1. c \in 0..last_lsn /\ CoveredHi(live_generation) = c
  BY CovLive
<1>2. /\ SnapLsn \in 0..last_lsn /\ last_lsn \in Nat /\ Len(shards) \in Nat
      /\ \A i \in Ids : snap[i].lsn <= SnapLsn
  BY SnapBound DEF StoreInv, ShardInv
<1> HIDE DEF c
<1> DEFINE F == {i \in Ids : snap[i].lsn > c}
           u == [parent |-> NewestBase, lo |-> c + 1, hi |-> SnapLsn,
                 tombs |-> {i \in F : snap[i].deleted},
                 vecs |-> [i \in Ids |-> IF i \in F THEN Version(snap[i]) ELSE 0]]
<1>3. ToFold = F /\ covered_lo = c + 1
  BY <1>1 DEF ToFold, covered_lo
<1>4. ToFold # {} /\ Put(u, FALSE)
  <2>1. /\ ToFold # {}
        /\ Put([parent |-> NewestBase, lo |-> covered_lo, hi |-> SnapLsn,
                tombs |-> {i \in ToFold : snap[i].deleted},
                vecs |-> [i \in Ids |-> IF i \in ToFold THEN Version(snap[i]) ELSE 0]], FALSE)
    BY DEF BuildDeltaFold
  <2> HIDE DEF F
  <2> QED BY <1>3, <2>1, Zenon
<1>5. NewestBase \in 1..Len(shards)
  BY GenFacts
<1>6. c + 1 <= SnapLsn /\ c \in Nat
  BY <1>1, <1>2, <1>3, <1>4, VersionType
<1>7. u \in ShardRecs
  <2>1. u.vecs \in [Ids -> Nat]
    BY VersionType
  <2>2. u.tombs \subseteq Ids
    OBVIOUS
  <2> QED BY <1>2, <1>5, <1>6, <2>1, <2>2 DEF ShardRecs
<1>8. Fits(u)
  BY <1>2, <1>5, <1>6, <1>7 DEF Fits
<1>9. MadeOf(u, live_generation)
  <2>1. u.tombs = {i \in Ids : snap[i].lsn > c /\ snap[i].deleted}
    OBVIOUS
  <2>2. u.vecs = [i \in Ids |-> IF snap[i].lsn > c THEN Version(snap[i]) ELSE 0]
    OBVIOUS
  <2>3. u.parent = NewestBase /\ u.lo = c + 1 /\ u.hi = SnapLsn
    OBVIOUS
  <2> HIDE DEF u
  <2> QED BY <2>1, <2>2, <2>3 DEF MadeOf, c
<1> HIDE DEF u
<1> QED BY <1>4, <1>8, <1>9

\* The base a major compaction writes.
LEMMA PutMajor ==
  ASSUME StoreInv, ShardInv, major_compaction
  PROVE  \E u : Put(u, TRUE) /\ Fits(u) /\ MadeOf(u, live_generation)
<1> DEFINE c == Cov(shards, live_generation)
           vecs == [i \in Ids |-> MergeOf(shards, live_generation, i)]
           u == [parent |-> 0, lo |-> 0, hi |-> c, tombs |-> {}, vecs |-> vecs]
<1>1. c \in 0..last_lsn /\ CoveredHi(live_generation) = c /\ last_lsn \in Nat
  BY CovLive DEF StoreInv
<1>2. vecs \in [Ids -> Nat]
  BY CovLive, MergeType
<1>3. Merged(live_generation) = vecs
  <2>1. Merged(live_generation) = [i \in Ids |-> Merged(live_generation)[i]]
    BY DEF Merged
  <2>2. \A i \in Ids : Merged(live_generation)[i] = MergeOf(shards, live_generation, i)
    BY MergedIs
  <2> QED BY <2>1, <2>2
<1>4. live_generation # {}
  <2>1. PICK i \in Ids : Merged(live_generation)[i] > 0
    BY DEF major_compaction, Survivors
  <2>2. MergeOf(shards, {}, i) = 0
    BY DEF MergeOf, Mentioning
  <2> QED BY <2>1, <2>2, MergedIs
<1> HIDE DEF c, vecs
<1>5. Put(u, TRUE)
  BY <1>1, <1>3 DEF major_compaction
<1>6. u \in ShardRecs /\ Len(shards) \in Nat
  BY <1>1, <1>2 DEF ShardRecs, ShardInv
<1>7. Fits(u)
  BY <1>1, <1>6 DEF Fits
<1>8. MadeOf(u, live_generation)
  BY <1>4 DEF MadeOf, c, vecs
<1> QED BY <1>5, <1>7, <1>8

\* The three ways a shard is written.
LEMMA PutRecord ==
  ASSUME StoreInv, ShardInv, SnapInv, BuildDeltaFold \/ major_compaction
  PROVE  \E u : (Put(u, FALSE) \/ Put(u, TRUE)) /\ Fits(u) /\ MadeOf(u, live_generation)
<1>1. CASE BuildDeltaFold
  <2>1. pc = "snapped"
    BY <1>1 DEF BuildDeltaFold
  <2> QED BY <1>1, <2>1, PutBase, PutDelta
<1>2. CASE major_compaction
  BY <1>2, PutMajor
<1> QED BY <1>1, <1>2

\* What a put does to the list.
LEMMA PutEffect ==
  ASSUME ShardInv, NEW u \in ShardRecs, NEW flag, Put(u, flag)
  PROVE  /\ shards' \in Seq(ShardRecs) /\ Len(shards') = Len(shards) + 1
         /\ Kept /\ shards'[Len(shards) + 1] = u /\ Len(shards) \in Nat
         /\ UNCHANGED <<last_lsn, recall, truth, catalog, snap, resolved, scan>>
         /\ objects' = objects \cup {Len(shards) + 1} /\ upload' = Len(shards) + 1
         /\ pc' = "written"
<1>1. shards \in Seq(ShardRecs) /\ shards' = Append(shards, u) /\ Len(shards) \in Nat
  BY DEF ShardInv, Put
<1>2. /\ shards' \in Seq(ShardRecs) /\ Len(shards') = Len(shards) + 1
      /\ shards'[Len(shards) + 1] = u
      /\ \A s \in 1..Len(shards) : shards'[s] = shards[s]
  BY <1>1
<1>3. Kept
  BY <1>1, <1>2 DEF Kept
<1> QED BY <1>1, <1>2, <1>3 DEF Put, storeVars, readVars

\* A shard that was just written is well formed.
LEMMA ShardPut ==
  ASSUME StoreInv, ShardInv, SnapInv, BuildDeltaFold \/ major_compaction
  PROVE  ShardInv' /\ Kept
<1>1. PICK u : (Put(u, FALSE) \/ Put(u, TRUE)) /\ Fits(u)
  BY PutRecord
<1>2. u \in ShardRecs
  BY <1>1 DEF Fits
<1>3. /\ shards' \in Seq(ShardRecs) /\ Len(shards') = Len(shards) + 1
      /\ Kept /\ shards'[Len(shards) + 1] = u /\ Len(shards) \in Nat
      /\ UNCHANGED <<last_lsn, catalog>>
      /\ objects' = objects \cup {Len(shards) + 1}
  BY <1>1, <1>2, PutEffect
<1>4. ASSUME NEW s \in 1..Len(shards')
      PROVE  /\ shards'[s].parent < s
             /\ shards'[s].lo <= shards'[s].hi /\ shards'[s].hi <= last_lsn'
             /\ shards'[s].parent = 0 => shards'[s].lo = 0 /\ shards'[s].tombs = {}
             /\ shards'[s].parent # 0 => shards'[s].lo > 0
  <2>1. CASE s \in 1..Len(shards)
    BY <2>1, <1>3 DEF ShardInv, Kept
  <2>2. CASE s = Len(shards) + 1
    <3>1. u.parent \in Nat
      BY <1>2 DEF ShardRecs
    <3> QED BY <3>1, <2>2, <1>1, <1>3 DEF Fits
  <2> QED BY <2>1, <2>2, <1>3
<1>5. catalog' \subseteq 1..Len(shards') /\ objects' \subseteq 1..Len(shards')
  <2>1. catalog \subseteq 1..Len(shards) /\ objects \subseteq 1..Len(shards)
    BY DEF ShardInv
  <2>2. 1..Len(shards) \subseteq 1..Len(shards') /\ Len(shards) + 1 \in 1..Len(shards')
    BY <1>3
  <2> QED BY <1>3, <2>1, <2>2
<1> QED BY <1>3, <1>4, <1>5 DEF ShardInv

\* Shards that are left alone stay well formed while LSNs grow.
LEMMA ShardStays ==
  ASSUME ShardInv, StoreInv, shards' = shards, last_lsn' \in Nat, last_lsn <= last_lsn',
         catalog' \subseteq 1..Len(shards), objects' \subseteq 1..Len(shards)
  PROVE  ShardInv' /\ Kept
<1>1. Kept
  BY DEF Kept, ShardInv
<1>2. \A s \in 1..Len(shards) : shards[s].hi <= last_lsn'
  <2> SUFFICES ASSUME NEW s \in 1..Len(shards) PROVE shards[s].hi <= last_lsn'
    OBVIOUS
  <2>1. shards[s].hi \in Nat /\ shards[s].hi <= last_lsn /\ last_lsn \in Nat
    BY ShardFacts DEF ShardInv, StoreInv
  <2> QED BY <2>1
<1> QED BY <1>1, <1>2 DEF ShardInv

\* Shards are only ever appended, and well formed.
LEMMA ShardStep ==
  ASSUME StoreInv, ShardInv, SnapInv, JobInv, [Next]_vars
  PROVE  ShardInv' /\ Kept
<1>0. last_lsn' \in Nat /\ last_lsn <= last_lsn' /\ Len(shards) \in Nat
  BY StoreStep DEF StoreInv, ShardInv
<1>1. ASSUME NEW i \in Ids, recall_upsert_vectors(i) PROVE ShardInv' /\ Kept
  <2>1. /\ shards' = shards
        /\ catalog' \subseteq 1..Len(shards) /\ objects' \subseteq 1..Len(shards)
    BY <1>0, <1>1 DEF ShardInv, recall_upsert_vectors, Stamp, catalogVars
  <2> QED BY <1>0, <2>1, ShardStays
<1>2. ASSUME NEW i \in Deletable, recall_delete_vector(i) PROVE ShardInv' /\ Kept
  <2>1. /\ shards' = shards
        /\ catalog' \subseteq 1..Len(shards) /\ objects' \subseteq 1..Len(shards)
    BY <1>0, <1>2 DEF ShardInv, recall_delete_vector, Stamp, catalogVars
  <2> QED BY <1>0, <2>1, ShardStays
<1>3. ASSUME Snapshot PROVE ShardInv' /\ Kept
  <2>1. /\ shards' = shards
        /\ catalog' \subseteq 1..Len(shards) /\ objects' \subseteq 1..Len(shards)
    BY <1>0, <1>3 DEF ShardInv, Snapshot, catalogVars
  <2> QED BY <1>0, <2>1, ShardStays
<1>4. ASSUME NothingToFold PROVE ShardInv' /\ Kept
  <2>1. /\ shards' = shards
        /\ catalog' \subseteq 1..Len(shards) /\ objects' \subseteq 1..Len(shards)
    BY <1>0, <1>4 DEF ShardInv, NothingToFold, EndRun, catalogVars
  <2> QED BY <1>0, <2>1, ShardStays
<1>5. ASSUME BuildDeltaFold PROVE ShardInv' /\ Kept
  BY <1>5, ShardPut
<1>6. ASSUME CommitShard PROVE ShardInv' /\ Kept
  <2>1. /\ shards' = shards
        /\ catalog' \subseteq 1..Len(shards) /\ objects' \subseteq 1..Len(shards)
    BY <1>0, <1>6 DEF ShardInv, JobInv, CommitShard, catalogVars
  <2> QED BY <1>0, <2>1, ShardStays
<1>7. ASSUME Settle PROVE ShardInv' /\ Kept
  <2>1. /\ shards' = shards
        /\ catalog' \subseteq 1..Len(shards) /\ objects' \subseteq 1..Len(shards)
    BY <1>0, <1>7 DEF ShardInv, Settle, Fault, catalogVars
  <2> QED BY <1>0, <2>1, ShardStays
<1>8. ASSUME SweepObjects PROVE ShardInv' /\ Kept
  <2>1. /\ shards' = shards
        /\ catalog' \subseteq 1..Len(shards) /\ objects' \subseteq 1..Len(shards)
    BY <1>0, <1>8 DEF ShardInv, SweepObjects, catalogVars
  <2> QED BY <1>0, <2>1, ShardStays
<1>9. ASSUME SweepRows PROVE ShardInv' /\ Kept
  <2>1. /\ shards' = shards
        /\ catalog' \subseteq 1..Len(shards) /\ objects' \subseteq 1..Len(shards)
    BY <1>0, <1>9 DEF ShardInv, SweepRows, Fault, catalogVars
  <2> QED BY <1>0, <2>1, ShardStays
<1>10. ASSUME SkipCompaction PROVE ShardInv' /\ Kept
  <2>1. /\ shards' = shards
        /\ catalog' \subseteq 1..Len(shards) /\ objects' \subseteq 1..Len(shards)
    BY <1>0, <1>10 DEF ShardInv, SkipCompaction, Fault, catalogVars
  <2> QED BY <1>0, <2>1, ShardStays
<1>11. ASSUME major_compaction PROVE ShardInv' /\ Kept
  BY <1>11, ShardPut
<1>12. ASSUME Trim PROVE ShardInv' /\ Kept
  <2>1. /\ shards' = shards
        /\ catalog' \subseteq 1..Len(shards) /\ objects' \subseteq 1..Len(shards)
    BY <1>0, <1>12 DEF ShardInv, Trim, EndRun, Fault, catalogVars
  <2> QED BY <1>0, <2>1, ShardStays
<1>13. ASSUME Abort PROVE ShardInv' /\ Kept
  <2>1. /\ shards' = shards
        /\ catalog' \subseteq 1..Len(shards) /\ objects' \subseteq 1..Len(shards)
    BY <1>0, <1>13 DEF ShardInv, Abort, EndRun, Fault, catalogVars
  <2> QED BY <1>0, <2>1, ShardStays
<1>14. ASSUME NEW r \in Readers, ResolveShard(r) PROVE ShardInv' /\ Kept
  <2>1. /\ shards' = shards
        /\ catalog' \subseteq 1..Len(shards) /\ objects' \subseteq 1..Len(shards)
    BY <1>0, <1>14 DEF ShardInv, ResolveShard, catalogVars
  <2> QED BY <1>0, <2>1, ShardStays
<1>15. ASSUME NEW r \in Readers, RecallSearch(r) PROVE ShardInv' /\ Kept
  <2>1. /\ shards' = shards
        /\ catalog' \subseteq 1..Len(shards) /\ objects' \subseteq 1..Len(shards)
    BY <1>0, <1>15 DEF ShardInv, RecallSearch, catalogVars
  <2> QED BY <1>0, <2>1, ShardStays
<1>16. ASSUME NEW r \in Readers, Respond(r) PROVE ShardInv' /\ Kept
  <2>1. /\ shards' = shards
        /\ catalog' \subseteq 1..Len(shards) /\ objects' \subseteq 1..Len(shards)
    BY <1>0, <1>16 DEF ShardInv, Respond, catalogVars
  <2> QED BY <1>0, <2>1, ShardStays
<1>17. ASSUME UNCHANGED vars PROVE ShardInv' /\ Kept
  <2>1. /\ shards' = shards
        /\ catalog' \subseteq 1..Len(shards) /\ objects' \subseteq 1..Len(shards)
    BY <1>0, <1>17 DEF ShardInv, vars, catalogVars
  <2> QED BY <1>0, <2>1, ShardStays
<1> QED
  BY <1>1, <1>2, <1>3, <1>4, <1>5, <1>6, <1>7, <1>8, <1>9, <1>10, <1>11, <1>12,
     <1>13, <1>14, <1>15, <1>16, <1>17
     DEF Next, Write, Consolidate, Read

\* Only the commit of a shard changes the retained generations.
LEMMA GensStay ==
  ASSUME StoreInv, ShardInv, SnapInv, JobInv, [Next]_vars
  PROVE  CommitShard \/ SameGenerations
<1>0. Kept
  BY ShardStep
<1>1. ASSUME NEW i \in Ids, recall_upsert_vectors(i) PROVE CommitShard \/ SameGenerations
  <2>1. catalog' = catalog
    BY <1>1 DEF recall_upsert_vectors, Stamp, catalogVars
  <2> QED BY <1>0, <2>1, CatalogStays
<1>2. ASSUME NEW i \in Deletable, recall_delete_vector(i) PROVE CommitShard \/ SameGenerations
  <2>1. catalog' = catalog
    BY <1>2 DEF recall_delete_vector, Stamp, catalogVars
  <2> QED BY <1>0, <2>1, CatalogStays
<1>3. ASSUME Snapshot PROVE CommitShard \/ SameGenerations
  <2>1. catalog' = catalog
    BY <1>3 DEF Snapshot, catalogVars
  <2> QED BY <1>0, <2>1, CatalogStays
<1>4. ASSUME NothingToFold PROVE CommitShard \/ SameGenerations
  <2>1. catalog' = catalog
    BY <1>4 DEF NothingToFold, EndRun, catalogVars
  <2> QED BY <1>0, <2>1, CatalogStays
<1>5. ASSUME BuildDeltaFold PROVE CommitShard \/ SameGenerations
  <2>1. catalog' = catalog
    BY <1>5 DEF BuildDeltaFold, Put, catalogVars
  <2> QED BY <1>0, <2>1, CatalogStays
<1>6. ASSUME CommitShard PROVE CommitShard \/ SameGenerations
  BY <1>6
<1>7. ASSUME Settle PROVE CommitShard \/ SameGenerations
  <2>1. catalog' = catalog
    BY <1>7 DEF Settle, Fault, catalogVars
  <2> QED BY <1>0, <2>1, CatalogStays
<1>8. ASSUME SweepObjects PROVE CommitShard \/ SameGenerations
  <2>1. catalog' = catalog
    BY <1>8 DEF SweepObjects, catalogVars
  <2> QED BY <1>0, <2>1, CatalogStays
<1>9. ASSUME SweepRows PROVE CommitShard \/ SameGenerations
  <2>1. shards' = shards /\ stale \cap Retained = {}
    BY <1>9 DEF SweepRows, JobInv
  <2>2. catalog' = catalog \ stale \/ catalog' = catalog
    BY <1>9 DEF SweepRows
  <2> QED BY <1>0, <2>1, <2>2, SweepStays, CatalogStays
<1>10. ASSUME SkipCompaction PROVE CommitShard \/ SameGenerations
  <2>1. catalog' = catalog
    BY <1>10 DEF SkipCompaction, Fault, catalogVars
  <2> QED BY <1>0, <2>1, CatalogStays
<1>11. ASSUME major_compaction PROVE CommitShard \/ SameGenerations
  <2>1. catalog' = catalog
    BY <1>11 DEF major_compaction, Put, catalogVars
  <2> QED BY <1>0, <2>1, CatalogStays
<1>12. ASSUME Trim PROVE CommitShard \/ SameGenerations
  <2>1. catalog' = catalog
    BY <1>12 DEF Trim, EndRun, Fault, catalogVars
  <2> QED BY <1>0, <2>1, CatalogStays
<1>13. ASSUME Abort PROVE CommitShard \/ SameGenerations
  <2>1. catalog' = catalog
    BY <1>13 DEF Abort, EndRun, Fault, catalogVars
  <2> QED BY <1>0, <2>1, CatalogStays
<1>14. ASSUME NEW r \in Readers, ResolveShard(r) PROVE CommitShard \/ SameGenerations
  <2>1. catalog' = catalog
    BY <1>14 DEF ResolveShard, catalogVars
  <2> QED BY <1>0, <2>1, CatalogStays
<1>15. ASSUME NEW r \in Readers, RecallSearch(r) PROVE CommitShard \/ SameGenerations
  <2>1. catalog' = catalog
    BY <1>15 DEF RecallSearch, catalogVars
  <2> QED BY <1>0, <2>1, CatalogStays
<1>16. ASSUME NEW r \in Readers, Respond(r) PROVE CommitShard \/ SameGenerations
  <2>1. catalog' = catalog
    BY <1>16 DEF Respond, catalogVars
  <2> QED BY <1>0, <2>1, CatalogStays
<1>17. ASSUME UNCHANGED vars PROVE CommitShard \/ SameGenerations
  <2>1. catalog' = catalog
    BY <1>17 DEF vars, catalogVars
  <2> QED BY <1>0, <2>1, CatalogStays
<1> QED
  BY <1>1, <1>2, <1>3, <1>4, <1>5, <1>6, <1>7, <1>8, <1>9, <1>10, <1>11, <1>12,
     <1>13, <1>14, <1>15, <1>16, <1>17
     DEF Next, Write, Consolidate, Read

\* Rows that change after the snapshot change to LSNs above it; none is trimmed meanwhile.
LEMMA SnapStep ==
  ASSUME StoreInv, SnapInv, [Next]_vars
  PROVE  SnapInv'
<1>1. ASSUME NEW i \in Ids, recall_upsert_vectors(i) PROVE SnapInv'
  <2>1. /\ last_lsn' = last_lsn + 1 /\ last_lsn \in Nat /\ UNCHANGED <<snap, pc>>
        /\ \A j \in Ids : recall'[j] = recall[j] \/ recall'[j].lsn = last_lsn + 1
        /\ \A j \in Ids : snap[j].lsn \in Nat
    BY <1>1, VersionType DEF StoreInv, recall_upsert_vectors, Stamp, jobVars
  <2>2. SnapLsn' = SnapLsn
    BY <2>1 DEF SnapLsn
  <2>3. pc # "idle" => SnapLsn \in 0..last_lsn
    BY SnapBound
  <2> QED BY <2>1, <2>2, <2>3 DEF SnapInv
<1>2. ASSUME NEW i \in Deletable, recall_delete_vector(i) PROVE SnapInv'
  <2>1. /\ last_lsn' = last_lsn + 1 /\ last_lsn \in Nat /\ UNCHANGED <<snap, pc>>
        /\ \A j \in Ids : recall'[j] = recall[j] \/ recall'[j].lsn = last_lsn + 1
        /\ \A j \in Ids : snap[j].lsn \in Nat
    BY <1>2, VersionType DEF StoreInv, recall_delete_vector, Stamp, jobVars
  <2>2. SnapLsn' = SnapLsn
    BY <2>1 DEF SnapLsn
  <2>3. pc # "idle" => SnapLsn \in 0..last_lsn
    BY SnapBound
  <2> QED BY <2>1, <2>2, <2>3 DEF SnapInv
<1>3. ASSUME Snapshot PROVE SnapInv'
  <2>1. snap' = recall /\ UNCHANGED <<recall, last_lsn>>
    BY <1>3 DEF Snapshot, storeVars
  <2> QED BY <2>1 DEF StoreInv, SnapInv
<1>4. ASSUME NothingToFold PROVE SnapInv'
  <2>1. pc' = "idle" /\ snap' = [i \in Ids |-> NoRow]
    BY <1>4 DEF NothingToFold, EndRun
  <2>2. NoRow \in Row
    BY DEF NoRow, Row
  <2> QED BY <2>1, <2>2 DEF SnapInv
<1>5. ASSUME BuildDeltaFold PROVE SnapInv'
  <2>1. UNCHANGED <<snap, recall, last_lsn>> /\ (pc' # "idle" => pc # "idle")
    BY <1>5 DEF BuildDeltaFold, Put, storeVars, jobVars
  <2>2. SnapLsn' = SnapLsn
    BY <2>1 DEF SnapLsn
  <2> QED BY <2>1, <2>2 DEF SnapInv
<1>6. ASSUME CommitShard PROVE SnapInv'
  <2>1. UNCHANGED <<snap, recall, last_lsn>> /\ (pc' # "idle" => pc # "idle")
    BY <1>6 DEF CommitShard, storeVars, jobVars
  <2>2. SnapLsn' = SnapLsn
    BY <2>1 DEF SnapLsn
  <2> QED BY <2>1, <2>2 DEF SnapInv
<1>7. ASSUME Settle PROVE SnapInv'
  <2>1. UNCHANGED <<snap, recall, last_lsn>> /\ (pc' # "idle" => pc # "idle")
    BY <1>7 DEF Settle, Fault, storeVars, jobVars
  <2>2. SnapLsn' = SnapLsn
    BY <2>1 DEF SnapLsn
  <2> QED BY <2>1, <2>2 DEF SnapInv
<1>8. ASSUME SweepObjects PROVE SnapInv'
  <2>1. UNCHANGED <<snap, recall, last_lsn>> /\ (pc' # "idle" => pc # "idle")
    BY <1>8 DEF SweepObjects, storeVars, jobVars
  <2>2. SnapLsn' = SnapLsn
    BY <2>1 DEF SnapLsn
  <2> QED BY <2>1, <2>2 DEF SnapInv
<1>9. ASSUME SweepRows PROVE SnapInv'
  <2>1. UNCHANGED <<snap, recall, last_lsn>> /\ (pc' # "idle" => pc # "idle")
    BY <1>9 DEF SweepRows, Fault, storeVars, jobVars
  <2>2. SnapLsn' = SnapLsn
    BY <2>1 DEF SnapLsn
  <2> QED BY <2>1, <2>2 DEF SnapInv
<1>10. ASSUME SkipCompaction PROVE SnapInv'
  <2>1. UNCHANGED <<snap, recall, last_lsn>> /\ (pc' # "idle" => pc # "idle")
    BY <1>10 DEF SkipCompaction, Fault, storeVars, jobVars
  <2>2. SnapLsn' = SnapLsn
    BY <2>1 DEF SnapLsn
  <2> QED BY <2>1, <2>2 DEF SnapInv
<1>11. ASSUME major_compaction PROVE SnapInv'
  <2>1. UNCHANGED <<snap, recall, last_lsn>> /\ (pc' # "idle" => pc # "idle")
    BY <1>11 DEF major_compaction, Put, storeVars, jobVars
  <2>2. SnapLsn' = SnapLsn
    BY <2>1 DEF SnapLsn
  <2> QED BY <2>1, <2>2 DEF SnapInv
<1>12. ASSUME Trim PROVE SnapInv'
  <2>1. pc' = "idle" /\ snap' = [i \in Ids |-> NoRow]
    BY <1>12 DEF Trim, EndRun
  <2>2. NoRow \in Row
    BY DEF NoRow, Row
  <2> QED BY <2>1, <2>2 DEF SnapInv
<1>13. ASSUME Abort PROVE SnapInv'
  <2>1. pc' = "idle" /\ snap' = [i \in Ids |-> NoRow]
    BY <1>13 DEF Abort, EndRun
  <2>2. NoRow \in Row
    BY DEF NoRow, Row
  <2> QED BY <2>1, <2>2 DEF SnapInv
<1>14. ASSUME NEW r \in Readers, ResolveShard(r) PROVE SnapInv'
  <2>1. UNCHANGED <<snap, recall, last_lsn>> /\ (pc' # "idle" => pc # "idle")
    BY <1>14 DEF ResolveShard, storeVars, jobVars
  <2>2. SnapLsn' = SnapLsn
    BY <2>1 DEF SnapLsn
  <2> QED BY <2>1, <2>2 DEF SnapInv
<1>15. ASSUME NEW r \in Readers, RecallSearch(r) PROVE SnapInv'
  <2>1. UNCHANGED <<snap, recall, last_lsn>> /\ (pc' # "idle" => pc # "idle")
    BY <1>15 DEF RecallSearch, storeVars, jobVars
  <2>2. SnapLsn' = SnapLsn
    BY <2>1 DEF SnapLsn
  <2> QED BY <2>1, <2>2 DEF SnapInv
<1>16. ASSUME NEW r \in Readers, Respond(r) PROVE SnapInv'
  <2>1. UNCHANGED <<snap, recall, last_lsn>> /\ (pc' # "idle" => pc # "idle")
    BY <1>16 DEF Respond, storeVars, jobVars
  <2>2. SnapLsn' = SnapLsn
    BY <2>1 DEF SnapLsn
  <2> QED BY <2>1, <2>2 DEF SnapInv
<1>17. ASSUME UNCHANGED vars PROVE SnapInv'
  <2>1. UNCHANGED <<snap, recall, last_lsn>> /\ (pc' # "idle" => pc # "idle")
    BY <1>17 DEF vars, storeVars, jobVars
  <2>2. SnapLsn' = SnapLsn
    BY <2>1 DEF SnapLsn
  <2> QED BY <2>1, <2>2 DEF SnapInv
<1> QED
  BY <1>1, <1>2, <1>3, <1>4, <1>5, <1>6, <1>7, <1>8, <1>9, <1>10, <1>11, <1>12,
     <1>13, <1>14, <1>15, <1>16, <1>17
     DEF Next, Write, Consolidate, Read

\* Every step keeps the types of the remaining variables.
LEMMA RestStep ==
  ASSUME RestType, ShardInv, ShardInv', Kept, [Next]_vars
  PROVE  RestType'
<1>0. /\ catalog \subseteq 1..Len(shards') /\ stale \subseteq 1..Len(shards')
      /\ Len(shards) \in Nat
  BY DEF ShardInv, RestType, Kept
<1>1. ASSUME NEW i \in Ids, recall_upsert_vectors(i) PROVE RestType'
  BY <1>0, <1>1 DEF RestType, recall_upsert_vectors, Stamp, catalogVars, jobVars
<1>2. ASSUME NEW i \in Deletable, recall_delete_vector(i) PROVE RestType'
  BY <1>0, <1>2 DEF RestType, recall_delete_vector, Stamp, catalogVars, jobVars
<1>3. ASSUME Snapshot PROVE RestType'
  BY <1>0, <1>3 DEF RestType, Snapshot, catalogVars, jobVars
<1>4. ASSUME NothingToFold PROVE RestType'
  BY <1>0, <1>4 DEF RestType, NothingToFold, EndRun, catalogVars, jobVars
<1>5. ASSUME BuildDeltaFold PROVE RestType'
  BY <1>0, <1>5 DEF RestType, BuildDeltaFold, Put, catalogVars, jobVars
<1>6. ASSUME CommitShard PROVE RestType'
  BY <1>0, <1>6 DEF RestType, CommitShard, catalogVars, jobVars
<1>7. ASSUME Settle PROVE RestType'
  <2>1. row_count' \in Nat
    <3>1. {i \in Ids : shards[upload].vecs[i] > 0} \in SUBSET Ids
      OBVIOUS
    <3> QED BY <1>7, <3>1, DeltaAssumption, FS_Subset, FS_CardinalityType DEF Settle, RestType
  <2> QED BY <1>0, <1>7, <2>1 DEF RestType, Settle, Fault
<1>8. ASSUME SweepObjects PROVE RestType'
  BY <1>0, <1>8 DEF RestType, superseded_shards, SweepObjects, catalogVars, jobVars
<1>9. ASSUME SweepRows PROVE RestType'
  BY <1>0, <1>9 DEF RestType, SweepRows, Fault, catalogVars, jobVars
<1>10. ASSUME SkipCompaction PROVE RestType'
  BY <1>0, <1>10 DEF RestType, SkipCompaction, Fault, catalogVars, jobVars
<1>11. ASSUME major_compaction PROVE RestType'
  BY <1>0, <1>11 DEF RestType, major_compaction, Put, catalogVars, jobVars
<1>12. ASSUME Trim PROVE RestType'
  <2>1. pc' = "idle" /\ major' = FALSE /\ stale' = {} /\ row_count' = row_count
    BY <1>12 DEF Trim, EndRun, catalogVars
  <2>2. faults' = faults \/ faults' = faults + 1
    BY <1>12 DEF Trim, Fault
  <2>3. row_count' \in Nat /\ faults' \in Nat
    BY <2>1, <2>2 DEF RestType
  <2>4. major' \in BOOLEAN /\ stale' \subseteq 1..Len(shards')
    BY <2>1
  <2> QED BY <2>1, <2>3, <2>4, Zenon DEF RestType
<1>13. ASSUME Abort PROVE RestType'
  <2>1. pc' = "idle" /\ major' = FALSE /\ stale' = {} /\ row_count' = row_count
    BY <1>13 DEF Abort, EndRun, catalogVars
  <2>2. faults' = faults \/ faults' = faults + 1
    BY <1>13 DEF Abort, Fault
  <2>3. row_count' \in Nat /\ faults' \in Nat
    BY <2>1, <2>2 DEF RestType
  <2>4. major' \in BOOLEAN /\ stale' \subseteq 1..Len(shards')
    BY <2>1
  <2> QED BY <2>1, <2>3, <2>4, Zenon DEF RestType
<1>14. ASSUME NEW r \in Readers, ResolveShard(r) PROVE RestType'
  BY <1>0, <1>14 DEF RestType, ResolveShard, catalogVars, jobVars
<1>15. ASSUME NEW r \in Readers, RecallSearch(r) PROVE RestType'
  BY <1>0, <1>15 DEF RestType, RecallSearch, catalogVars, jobVars
<1>16. ASSUME NEW r \in Readers, Respond(r) PROVE RestType'
  BY <1>0, <1>16 DEF RestType, Respond, catalogVars, jobVars
<1>17. ASSUME UNCHANGED vars PROVE RestType'
  BY <1>0, <1>17 DEF RestType, vars, catalogVars, jobVars
<1> QED
  BY <1>1, <1>2, <1>3, <1>4, <1>5, <1>6, <1>7, <1>8, <1>9, <1>10, <1>11, <1>12,
     <1>13, <1>14, <1>15, <1>16, <1>17
     DEF Next, Write, Consolidate, Read

-----------------------------------------------------------------------------
(* What the generations hold *)

\* A retained set of shards is read the same after a step that keeps the shards.
LEMMA ReadSame ==
  ASSUME StoreInv, ShardInv, Kept, NEW S \in SUBSET (1..Len(shards)), Chain(shards, S)
  PROVE  /\ Chain(shards', S) /\ Cov(shards', S) = Cov(shards, S)
         /\ \A i \in Ids : MergeOf(shards', S, i) = MergeOf(shards, S, i)
<1>1. \A s \in S : shards[s] = shards'[s]
  BY DEF Kept
<1>2. Bands(shards, S, last_lsn) /\ \A s \in S, t \in S : shards[s].lo = shards[t].lo => s = t
  BY BandsOf DEF Chain
<1>3. PICK f : f = shards
  OBVIOUS
<1>4. PICK g : g = shards'
  OBVIOUS
<1>5. Chain(g, S)
  BY <1>1, <1>3, <1>4, ChainSame
<1>6. Cov(g, S) = Cov(f, S)
  BY <1>1, <1>3, <1>4, CovSame
<1>7. ASSUME NEW i \in Ids PROVE MergeOf(g, S, i) = MergeOf(f, S, i)
  <2>1. Agree(f, g, S)
    BY <1>1, <1>3, <1>4 DEF Agree
  <2>2. Bands(f, S, last_lsn) /\ Chain(f, S)
    BY <1>2, <1>3
  <2> QED BY <2>1, <2>2, MergeSame
<1> QED BY <1>3, <1>4, <1>5, <1>6, <1>7

\* A step that keeps the generations keeps them sound if the changed rows do.
LEMMA GenSame ==
  ASSUME StoreInv, ShardInv, GenInv, SameGenerations,
         \A S \in {live_generation, grace_generation} : \A i \in Ids :
           recall'[i].lsn <= Cov(shards, S) => MergeOf(shards, S, i) = truth'[i],
         \A d \in Deltas : \A i \in Ids : Mentions(d, i) => recall'[i].lsn >= shards[d].lo
  PROVE  GenInv'
<1>0. /\ Kept /\ live_generation' = live_generation /\ grace_generation' = grace_generation
      /\ NewestBase' = NewestBase
  BY DEF SameGenerations
<1>1. /\ live_generation \subseteq 1..Len(shards) /\ grace_generation \subseteq 1..Len(shards)
      /\ grace_generation # {} => NewestBase \in 1..Len(shards)
  BY GenFacts
<1>2. ASSUME NEW S \in {live_generation, grace_generation}
      PROVE  Chain(shards', S) /\ Holds(S)'
  <2>1. S \in SUBSET (1..Len(shards)) /\ Chain(shards, S)
    BY <1>1 DEF GenInv
  <2>2. /\ Chain(shards', S) /\ Cov(shards', S) = Cov(shards, S)
        /\ \A i \in Ids : MergeOf(shards', S, i) = MergeOf(shards, S, i)
    BY <1>0, <2>1, ReadSame
  <2> QED BY <2>2 DEF Holds
<1>3. (\A S \in {live_generation, grace_generation} : Chain(shards, S) /\ Holds(S))'
  BY <1>0, <1>2
<1>4. (\A s \in grace_generation : shards[s].hi <= shards[NewestBase].hi)'
  BY <1>0, <1>1 DEF GenInv, Kept
<1>5. (\A d \in Deltas : \A i \in Ids : Mentions(d, i) => recall[i].lsn >= shards[d].lo)'
  <2>1. Deltas' = Deltas /\ Deltas \subseteq 1..Len(shards)
    BY <1>0, <1>1 DEF Deltas
  <2>2. \A d \in Deltas : shards'[d] = shards[d]
    BY <2>1, <1>0 DEF Kept
  <2> QED BY <2>1, <2>2 DEF Mentions
<1> QED BY <1>3, <1>4, <1>5 DEF GenInv

\* A write is above every frontier.
LEMMA GenWrite ==
  ASSUME StoreInv, ShardInv, GenInv, SameGenerations, NEW i \in Ids,
         \A j \in Ids : j # i => recall'[j] = recall[j] /\ truth'[j] = truth[j],
         recall'[i].lsn = last_lsn + 1
  PROVE  GenInv'
<1>1. /\ live_generation \subseteq 1..Len(shards) /\ grace_generation \subseteq 1..Len(shards)
      /\ last_lsn \in Nat
  BY GenFacts DEF StoreInv
<1>2. ASSUME NEW S \in {live_generation, grace_generation}, NEW j \in Ids,
             recall'[j].lsn <= Cov(shards, S)
      PROVE  MergeOf(shards, S, j) = truth'[j]
  <2>1. Cov(shards, S) \in 0..last_lsn
    BY <1>1, BandsOf, CovIs
  <2>2. j # i
    BY <1>1, <1>2, <2>1
  <2>3. Holds(S)
    BY DEF GenInv
  <2> QED BY <1>2, <2>2, <2>3 DEF Holds
<1>3. ASSUME NEW d \in Deltas, NEW j \in Ids, Mentions(d, j)
      PROVE  recall'[j].lsn >= shards[d].lo
  <2>1. recall[j].lsn >= shards[d].lo
    BY <1>3 DEF GenInv
  <2>2. d \in 1..Len(shards)
    BY <1>1 DEF Deltas
  <2>3. shards[d].lo \in Nat /\ recall[j].lsn \in Nat /\ recall[j].lsn <= last_lsn
    BY <2>2, ShardFacts DEF StoreInv, Row
  <2>4. CASE j = i
    BY <1>1, <2>1, <2>3, <2>4
  <2>5. CASE j # i
    BY <2>1, <2>5
  <2> QED BY <2>4, <2>5
<1> QED BY <1>2, <1>3, GenSame

\* The deltas of the newest generation lie above its base, and that above the prior
\* generation.
LEMMA AboveGrace ==
  ASSUME StoreInv, ShardInv, GenInv
  PROVE  /\ Cov(shards, grace_generation) \in Nat
         /\ Cov(shards, grace_generation) <= Cov(shards, live_generation)
         /\ \A d \in Deltas : shards[d].lo > Cov(shards, grace_generation)
<1> DEFINE G == grace_generation
           L == live_generation
<1>1. /\ L \in SUBSET (1..Len(shards)) /\ G \in SUBSET (1..Len(shards)) /\ last_lsn \in Nat
      /\ Chain(shards, L)
  BY GenFacts DEF StoreInv, GenInv
<1>2. Bands(shards, L, last_lsn) /\ Bands(shards, G, last_lsn)
  BY <1>1, BandsOf
<1>3. /\ Cov(shards, G) \in 0..last_lsn
      /\ Cov(shards, G) = 0 \/ \E s \in G : shards[s].hi = Cov(shards, G)
  BY <1>2, CovIs
<1>4. Cov(shards, L) \in 0..last_lsn /\ \A s \in L : shards[s].hi <= Cov(shards, L)
  BY <1>2, CovIs
<1>5. G # {} => /\ NewestBase \in L /\ shards[NewestBase].hi \in Nat
                /\ Cov(shards, G) <= shards[NewestBase].hi
  <2>1. G # {} => NewestBase \in L
    BY GenFacts
  <2>2. G # {} => shards[NewestBase].hi \in Nat
    BY <2>1, <1>1, ShardFacts
  <2>3. \A s \in G : shards[s].hi <= shards[NewestBase].hi
    BY DEF GenInv
  <2> QED BY <1>3, <2>1, <2>2, <2>3
<1>6. G = {} => Cov(shards, G) = 0
  BY <1>3
<1>7. Cov(shards, G) <= Cov(shards, L)
  <2>1. CASE G = {}
    BY <1>1, <1>4, <1>6, <2>1
  <2>2. CASE G # {}
    <3>1. shards[NewestBase].hi <= Cov(shards, L)
      BY <1>4, <1>5, <2>2
    <3>2. Cov(shards, G) \in Nat /\ Cov(shards, L) \in Nat
      BY <1>1, <1>3, <1>4
    <3> HIDE DEF G, L
    <3> QED BY <1>5, <2>2, <3>1, <3>2
  <2> QED BY <2>1, <2>2
<1>8. ASSUME NEW d \in Deltas PROVE shards[d].lo > Cov(shards, G)
  <2>1. d \in L /\ L # {} /\ shards[d].lo > 0
    BY GenFacts DEF Deltas
  <2> DEFINE B == {t \in L : shards[t].lo < shards[d].lo}
  <2>2. shards[d].lo = Cov(shards, B) + 1
    BY <1>1, <2>1 DEF Chain, NoGap
  <2>3. NewestBase \in B
    BY <2>1, GenFacts
  <2>4. Bands(shards, B, last_lsn)
    BY <1>2, BandsPart
  <2> HIDE DEF B
  <2>5. Cov(shards, B) \in 0..last_lsn /\ shards[NewestBase].hi <= Cov(shards, B)
    BY <2>3, <2>4, CovIs
  <2> QED BY <1>1, <1>3, <1>5, <1>6, <2>2, <2>5
<1> QED BY <1>1, <1>3, <1>7, <1>8

\* The trim takes no row that a retained generation needs.
LEMMA GenTrim ==
  ASSUME StoreInv, ShardInv, GenInv, SameGenerations, Trim
  PROVE  GenInv'
<1> DEFINE w == Cov(shards, grace_generation)
<1>1. /\ w \in Nat /\ w <= Cov(shards, live_generation)
      /\ \A d \in Deltas : shards[d].lo > w
  BY AboveGrace
<1>2. grace_watermark = w
  BY DEF grace_watermark, CoveredHi, Cov
<1> HIDE DEF w
<1>3. \A i \in Ids : recall'[i] = recall[i] \/ (recall[i].lsn <= w /\ recall'[i] = NoRow)
  BY <1>2 DEF Trim, StoreInv
<1>4. truth' = truth
  BY DEF Trim
<1>5. ASSUME NEW S \in {live_generation, grace_generation}, NEW i \in Ids,
             recall'[i].lsn <= Cov(shards, S)
      PROVE  MergeOf(shards, S, i) = truth'[i]
  <2>1. Holds(S)
    BY DEF GenInv
  <2>2. CASE recall'[i] = recall[i]
    BY <1>4, <1>5, <2>1, <2>2 DEF Holds
  <2>3. CASE recall[i].lsn <= w
    <3>1. S \in SUBSET (1..Len(shards))
      BY GenFacts
    <3>2. Cov(shards, S) \in 0..last_lsn /\ last_lsn \in Nat
      BY <3>1, BandsOf, CovIs DEF StoreInv
    <3>3. w <= Cov(shards, S)
      BY <1>1, <3>2 DEF w
    <3>4. recall[i].lsn \in Nat
      BY DEF StoreInv, Row
    <3>5. recall[i].lsn <= Cov(shards, S)
      BY <1>1, <2>3, <3>2, <3>3, <3>4
    <3> QED BY <1>4, <2>1, <3>5 DEF Holds
  <2> QED BY <1>3, <2>2, <2>3
<1>6. ASSUME NEW d \in Deltas, NEW i \in Ids, Mentions(d, i)
      PROVE  recall'[i].lsn >= shards[d].lo
  <2>1. recall[i].lsn >= shards[d].lo /\ shards[d].lo > w
    BY <1>1, <1>6 DEF GenInv
  <2>2. d \in 1..Len(shards)
    BY GenFacts DEF Deltas
  <2>3. recall[i].lsn \in Nat /\ shards[d].lo \in Nat
    BY <2>2, ShardFacts DEF StoreInv, Row
  <2>4. ~ (recall[i].lsn <= w)
    BY <1>1, <2>1, <2>3
  <2> QED BY <1>3, <2>1, <2>4
<1> QED BY <1>5, <1>6, GenSame

\* What a commit finds.
LEMMA CommitFacts ==
  ASSUME StoreInv, ShardInv, JobInv, CommitShard
  PROVE  /\ upload = Len(shards) /\ upload > 0 /\ upload \notin catalog /\ upload \in objects
         /\ upload \in 1..Len(shards) /\ MadeOf(shards[upload], live_generation)
         /\ UNCHANGED <<shards, last_lsn, recall, truth, snap, upload, objects, resolved, scan>>
         /\ catalog' = catalog \cup {upload} /\ pc = "written"
         /\ Bands(shards, {upload}, last_lsn)
<1>1. pc = "written"
  BY DEF CommitShard
<1>2. /\ upload = Len(shards) /\ upload > 0 /\ upload \notin catalog /\ upload \in objects
      /\ upload \in 1..Len(shards) /\ MadeOf(shards[upload], live_generation)
  BY <1>1 DEF JobInv, ShardInv
<1>3. Bands(shards, {upload}, last_lsn)
  BY <1>2, BandsOf
<1> QED BY <1>1, <1>2, <1>3 DEF CommitShard, storeVars, readVars

\* A row that is not above the snapshot is the one in the snapshot.
LEMMA SnapRow ==
  ASSUME StoreInv, SnapInv, pc # "idle", NEW i \in Ids, recall[i].lsn <= SnapLsn
  PROVE  recall[i] = snap[i] /\ recall[i].lsn \in Nat
<1>1. SnapLsn \in Nat /\ recall[i].lsn \in Nat
  BY SnapBound DEF StoreInv, Row
<1>2. recall[i] = snap[i] \/ recall[i].lsn > SnapLsn
  BY DEF SnapInv
<1> QED BY <1>1, <1>2

\* The first base holds what the snapshot holds.
LEMMA FirstBaseHolds ==
  ASSUME StoreInv, ShardInv, GenInv, SnapInv, JobInv, CommitShard, live_generation = {},
         shards[upload].parent = 0, shards[upload].hi = SnapLsn,
         shards[upload].vecs = [i \in Ids |-> Version(snap[i])]
  PROVE  Chain(shards, {upload}) /\ Holds({upload})
<1>1. /\ upload \in 1..Len(shards) /\ Bands(shards, {upload}, last_lsn) /\ pc # "idle"
  BY CommitFacts
<1>2. shards[upload].lo = 0 /\ shards[upload].vecs \in [Ids -> Nat]
  BY <1>1, ShardFacts DEF ShardInv
<1>3. /\ Chain(shards, {upload}) /\ Cov(shards, {upload}) = SnapLsn
      /\ \A i \in Ids : MergeOf(shards, {upload}, i) = Version(snap[i])
  <2>1. /\ Chain(shards, {upload}) /\ Cov(shards, {upload}) = shards[upload].hi
        /\ \A i \in Ids : shards[upload].vecs[i] \in Nat
                        => MergeOf(shards, {upload}, i) = shards[upload].vecs[i]
    <3>1. Bands(shards, {upload}, last_lsn) /\ shards[upload].lo = 0
      BY ONLY <1>1, <1>2
    <3> QED BY ONLY <3>1, ChainOfOne, ZenonT(30)
  <2>2. \A i \in Ids : shards[upload].vecs[i] \in Nat /\ shards[upload].vecs[i] = Version(snap[i])
    BY <1>2
  <2> QED BY <2>1, <2>2
<1>4. ASSUME NEW i \in Ids, recall[i].lsn <= SnapLsn PROVE Version(snap[i]) = truth[i]
  <2>1. recall[i] = snap[i] /\ recall[i].lsn \in Nat
    BY <1>1, <1>4, SnapRow
  <2>2. CASE recall[i].lsn > 0
    BY <2>1, <2>2 DEF StoreInv
  <2>3. CASE recall[i].lsn = 0
    <3>1. Holds({})
      BY DEF GenInv
    <3>2. MergeOf(shards, {}, i) = 0
      BY DEF MergeOf, Mentioning
    <3>3. Bands(shards, {}, last_lsn)
      BY DEF Bands, StoreInv
    <3>4. Cov(shards, {}) \in Nat
      BY <3>3, CovIs DEF StoreInv
    <3>5. truth[i] = 0
      BY <2>3, <3>1, <3>2, <3>4 DEF Holds
    <3> QED BY <2>1, <2>3, <3>5 DEF Version
  <2> QED BY <2>1, <2>2, <2>3
<1> QED BY <1>3, <1>4 DEF Holds

\* The new base holds what the generation it was made of holds.
LEMMA CompactedHolds ==
  ASSUME StoreInv, ShardInv, GenInv, JobInv, CommitShard,
         shards[upload].parent = 0, shards[upload].hi = Cov(shards, live_generation),
         shards[upload].vecs = [i \in Ids |-> MergeOf(shards, live_generation, i)]
  PROVE  Chain(shards, {upload}) /\ Holds({upload})
<1>1. upload \in 1..Len(shards) /\ Bands(shards, {upload}, last_lsn)
  BY CommitFacts
<1>2. shards[upload].lo = 0 /\ shards[upload].vecs \in [Ids -> Nat]
  BY <1>1, ShardFacts DEF ShardInv
<1>3. /\ Chain(shards, {upload}) /\ Cov(shards, {upload}) = Cov(shards, live_generation)
      /\ \A i \in Ids : MergeOf(shards, {upload}, i) = MergeOf(shards, live_generation, i)
  <2>1. /\ Chain(shards, {upload}) /\ Cov(shards, {upload}) = shards[upload].hi
        /\ \A i \in Ids : shards[upload].vecs[i] \in Nat
                        => MergeOf(shards, {upload}, i) = shards[upload].vecs[i]
    <3>1. Bands(shards, {upload}, last_lsn) /\ shards[upload].lo = 0
      BY ONLY <1>1, <1>2
    <3> QED BY ONLY <3>1, ChainOfOne, ZenonT(30)
  <2>2. \A i \in Ids : /\ shards[upload].vecs[i] \in Nat
                       /\ shards[upload].vecs[i] = MergeOf(shards, live_generation, i)
    BY <1>2
  <2> QED BY <2>1, <2>2
<1>4. Holds(live_generation)
  BY DEF GenInv
<1> QED BY <1>3, <1>4 DEF Holds

\* A generation with one more delta.
LEMMA DeltaHolds ==
  ASSUME StoreInv, ShardInv, GenInv, SnapInv, JobInv, CommitShard,
         shards[upload].lo = Cov(shards, live_generation) + 1,
         shards[upload].hi = SnapLsn,
         shards[upload].tombs = {i \in Ids : snap[i].lsn > Cov(shards, live_generation)
                                              /\ snap[i].deleted},
         shards[upload].vecs = [i \in Ids |-> IF snap[i].lsn > Cov(shards, live_generation)
                                               THEN Version(snap[i]) ELSE 0]
  PROVE  /\ Chain(shards, live_generation \cup {upload})
         /\ Holds(live_generation \cup {upload})
         /\ \A s \in live_generation : shards[s].lo < shards[upload].lo
         /\ \A i \in Ids : Mentions(upload, i) => recall[i].lsn >= shards[upload].lo
<1> DEFINE L == live_generation
           c == Cov(shards, L)
           u == upload
<1>1. /\ u \notin L /\ Bands(shards, {u}, last_lsn) /\ pc # "idle" /\ u \in 1..Len(shards)
  BY CommitFacts, GenFacts
<1>2. /\ L \in SUBSET (1..Len(shards)) /\ Bands(shards, L, last_lsn) /\ c \in 0..last_lsn
      /\ last_lsn \in Nat
  BY CovLive DEF StoreInv
<1>3. Chain(shards, L) /\ Holds(L)
  BY DEF GenInv
<1>4. /\ Chain(shards, L \cup {u}) /\ Cov(shards, L \cup {u}) = SnapLsn
      /\ \A s \in L : shards[s].lo < shards[u].lo
  <2> HIDE DEF L
  <2>1. shards[u].lo = Cov(shards, L) + 1
    BY DEF L
  <2>2. shards[u].hi = SnapLsn
    OBVIOUS
  <2> HIDE DEF u
  <2>3. Bands(shards, L, last_lsn) /\ Bands(shards, {u}, last_lsn) /\ u \notin L /\ Chain(shards, L)
    BY <1>1, <1>2, <1>3
  <2>4. /\ Chain(shards, L \cup {u}) /\ Cov(shards, L \cup {u}) = shards[u].hi
        /\ \A s \in L : shards[s].lo < shards[u].lo
    BY ONLY <2>1, <2>3, ChainAdd, Zenon
  <2> QED BY <2>2, <2>4
<1>5. Bands(shards, L \cup {u}, last_lsn)
  <2>1. L \cup {u} \in SUBSET (1..Len(shards))
    BY <1>1, <1>2
  <2> QED BY <2>1, BandsOf
<1>6. ASSUME NEW i \in Ids
      PROVE  /\ shards[u].vecs[i] > 0 \/ i \in shards[u].tombs
                  => MergeOf(shards, L \cup {u}, i) = shards[u].vecs[i]
             /\ ~ (shards[u].vecs[i] > 0 \/ i \in shards[u].tombs)
                  => MergeOf(shards, L \cup {u}, i) = MergeOf(shards, L, i)
  <2> HIDE DEF L, u
  <2>1. PICK T : T = L \cup {u}
    OBVIOUS
  <2>2. Bands(shards, T, last_lsn) /\ Chain(shards, T)
        /\ \A s \in L : shards[s].lo < shards[u].lo
    BY <1>4, <1>5, <2>1
  <2>4. OnTop(shards, L, u, T)
    BY <2>1, <2>2 DEF OnTop
  <2>3. /\ shards[u].vecs[i] > 0 \/ i \in shards[u].tombs
              => MergeOf(shards, T, i) = shards[u].vecs[i]
        /\ ~ (shards[u].vecs[i] > 0 \/ i \in shards[u].tombs)
              => MergeOf(shards, T, i) = MergeOf(shards, L, i)
    BY ONLY <2>2, <2>4, MergeAdd
  <2> QED BY <2>1, <2>3
<1>7. ASSUME NEW i \in Ids
      PROVE  /\ shards[u].vecs[i] = IF snap[i].lsn > c THEN Version(snap[i]) ELSE 0
             /\ i \in shards[u].tombs <=> snap[i].lsn > c /\ snap[i].deleted
  OBVIOUS
<1>8. ASSUME NEW i \in Ids
      PROVE  /\ snap[i].lsn \in Nat /\ snap[i].deleted \in BOOLEAN /\ recall[i].lsn \in Nat
             /\ snap[i].lsn <= SnapLsn /\ SnapLsn \in Nat
             /\ recall[i] = snap[i] \/ recall[i].lsn > SnapLsn
  BY <1>1, SnapBound, VersionType DEF StoreInv, SnapInv, Row
<1>9. shards[u].lo = c + 1
  OBVIOUS
<1> HIDE DEF c, L, u
<1>10. ASSUME NEW i \in Ids, recall[i].lsn <= SnapLsn
       PROVE  MergeOf(shards, L \cup {u}, i) = truth[i]
  <2>1. recall[i] = snap[i]
    BY <1>8, <1>10
  <2>2. CASE snap[i].lsn > c
    <3>1. Version(snap[i]) = truth[i]
      BY <1>2, <1>8, <2>1, <2>2 DEF StoreInv
    <3>2. shards[u].vecs[i] > 0 \/ i \in shards[u].tombs
      BY <1>2, <1>7, <1>8, <2>2 DEF Version
    <3> QED BY <1>6, <1>7, <2>2, <3>1, <3>2
  <2>3. CASE ~ (snap[i].lsn > c)
    <3>1. ~ (shards[u].vecs[i] > 0) /\ i \notin shards[u].tombs
      BY <1>7, <2>3
    <3>2. recall[i].lsn <= Cov(shards, L)
      BY <1>2, <1>8, <2>1, <2>3 DEF c
    <3> QED BY <1>3, <1>6, <3>1, <3>2 DEF Holds
  <2> QED BY <2>2, <2>3
<1>11. ASSUME NEW i \in Ids, Mentions(u, i) PROVE recall[i].lsn >= shards[u].lo
  <2>1. snap[i].lsn > c
    BY <1>7, <1>11 DEF Mentions
  <2> QED BY <1>2, <1>8, <1>9, <2>1
<1>12. Holds(L \cup {u})
  BY <1>4, <1>10 DEF Holds
<1> QED BY <1>4, <1>11, <1>12 DEF L, u

\* A commit starts a generation, or adds to the newest one at its upper end.
LEMMA CommitCases ==
  ASSUME StoreInv, ShardInv, GenInv, SnapInv, JobInv, CommitShard
  PROVE  \/ /\ live_generation' = {upload} /\ grace_generation' = live_generation
            /\ NewestBase' = upload
            /\ Chain(shards, {upload}) /\ Holds({upload})
            /\ Cov(shards, live_generation) <= shards[upload].hi
            /\ Cov(shards, {upload}) = shards[upload].hi
            /\ \A s \in live_generation : shards[s].hi <= shards[upload].hi
         \/ /\ live_generation' = live_generation \cup {upload}
            /\ grace_generation' = grace_generation
            /\ NewestBase' = NewestBase /\ NewestBase \in live_generation
            /\ Chain(shards, live_generation \cup {upload})
            /\ Holds(live_generation \cup {upload})
            /\ \A s \in live_generation : shards[s].lo < shards[upload].lo
            /\ \A i \in Ids : Mentions(upload, i) => recall[i].lsn >= shards[upload].lo
<1>1. /\ upload = Len(shards) /\ upload > 0 /\ upload \notin catalog
      /\ MadeOf(shards[upload], live_generation) /\ upload \in 1..Len(shards)
      /\ shards' = shards /\ catalog' = catalog \cup {upload} /\ pc # "idle"
      /\ Bands(shards, {upload}, last_lsn)
  BY CommitFacts
<1>2. /\ Bands(shards, live_generation, last_lsn)
      /\ Cov(shards, live_generation) \in 0..last_lsn /\ last_lsn \in Nat
  BY CovLive DEF StoreInv
<1>3. \A s \in live_generation : shards[s].hi <= Cov(shards, live_generation)
  BY <1>2, CovIs
<1>4. shards[upload].lo \in Nat /\ shards[upload].hi \in Nat
  BY <1>1, ShardFacts
<1>5. ASSUME shards[upload].parent = 0, Chain(shards, {upload}), Holds({upload}),
             Cov(shards, live_generation) <= shards[upload].hi,
             \A s \in live_generation : shards[s].hi <= shards[upload].hi
      PROVE  /\ live_generation' = {upload} /\ grace_generation' = live_generation
             /\ NewestBase' = upload
             /\ Cov(shards, {upload}) = shards[upload].hi
  <2>1. /\ live_generation' = {upload} /\ grace_generation' = live_generation
        /\ NewestBase' = upload
    BY <1>1, <1>5, NewGeneration
  <2>2. \A s \in {upload} : shards[s].hi <= shards[upload].hi
    BY <1>4
  <2>3. Cov(shards, {upload}) = shards[upload].hi
    BY <1>1, <1>4, <2>2, CovExactly
  <2> QED BY <2>1, <2>3
<1>6. CASE /\ live_generation = {} /\ shards[upload].parent = 0
           /\ shards[upload].hi = SnapLsn
           /\ shards[upload].vecs = [i \in Ids |-> Version(snap[i])]
  <2>1. Chain(shards, {upload}) /\ Holds({upload})
    BY <1>6, FirstBaseHolds
  <2>2. Cov(shards, live_generation) = 0
    <3>1. \A s \in live_generation : shards[s].hi <= 0
      BY <1>6
    <3> QED BY <1>2, <3>1, CovExactly
  <2>3. \A s \in live_generation : shards[s].hi <= shards[upload].hi
    BY <1>6
  <2>4. Cov(shards, live_generation) <= shards[upload].hi
    BY <1>4, <2>2
  <2> QED BY <1>5, <1>6, <2>1, <2>3, <2>4
<1>7. CASE /\ live_generation # {} /\ shards[upload].parent = 0
           /\ shards[upload].hi = Cov(shards, live_generation)
           /\ shards[upload].vecs = [i \in Ids |-> MergeOf(shards, live_generation, i)]
  <2>1. Chain(shards, {upload}) /\ Holds({upload})
    BY <1>7, CompactedHolds
  <2>2. /\ Cov(shards, live_generation) <= shards[upload].hi
        /\ \A s \in live_generation : shards[s].hi <= shards[upload].hi
    BY <1>3, <1>4, <1>7
  <2> QED BY <1>5, <1>7, <2>1, <2>2
<1>8. CASE /\ live_generation # {} /\ shards[upload].parent = NewestBase
           /\ shards[upload].lo = Cov(shards, live_generation) + 1
           /\ shards[upload].hi = SnapLsn
           /\ shards[upload].tombs = {i \in Ids : snap[i].lsn > Cov(shards, live_generation)
                                                  /\ snap[i].deleted}
           /\ shards[upload].vecs = [i \in Ids |->
                                       IF snap[i].lsn > Cov(shards, live_generation)
                                       THEN Version(snap[i]) ELSE 0]
  <2>1. /\ live_generation' = live_generation \cup {upload}
        /\ grace_generation' = grace_generation /\ NewestBase' = NewestBase
    BY <1>1, <1>8, GrownGeneration
  <2>2. NewestBase \in live_generation
    BY <1>8, GenFacts
  <2>3. /\ Chain(shards, live_generation \cup {upload})
        /\ Holds(live_generation \cup {upload})
        /\ \A s \in live_generation : shards[s].lo < shards[upload].lo
        /\ \A i \in Ids : Mentions(upload, i) => recall[i].lsn >= shards[upload].lo
    BY <1>8, DeltaHolds
  <2> QED BY <2>1, <2>2, <2>3
<1> QED BY <1>1, <1>6, <1>7, <1>8 DEF MadeOf

\* A commit keeps both generations sound.
LEMMA GenCommit ==
  ASSUME StoreInv, ShardInv, GenInv, SnapInv, JobInv, CommitShard
  PROVE  GenInv'
<1>1. UNCHANGED <<shards, recall, truth>>
  BY CommitFacts
<1>2. \A S \in {live_generation, grace_generation} : Chain(shards, S) /\ Holds(S)
  BY DEF GenInv
<1>3. ASSUME NEW S, Chain(shards, S), Holds(S) PROVE Chain(shards', S) /\ Holds(S)'
  BY <1>1, <1>3 DEF Holds
<1>4. CASE /\ live_generation' = {upload} /\ grace_generation' = live_generation
           /\ NewestBase' = upload
           /\ Chain(shards, {upload}) /\ Holds({upload})
           /\ \A s \in live_generation : shards[s].hi <= shards[upload].hi
  <2>1. ASSUME NEW S \in {live_generation', grace_generation'}
        PROVE  Chain(shards', S) /\ Holds(S)'
    <3>1. PICK A : A = {upload}
      OBVIOUS
    <3>2. PICK B : B = live_generation
      OBVIOUS
    <3>3. Chain(shards, A) /\ Holds(A) /\ Chain(shards, B) /\ Holds(B)
      BY <1>2, <1>4, <3>1, <3>2
    <3>4. S = A \/ S = B
      BY <1>4, <3>1, <3>2
    <3> QED BY <1>3, <3>3, <3>4
  <2>2. (\A S \in {live_generation, grace_generation} : Chain(shards, S) /\ Holds(S))'
    BY <2>1
  <2>3. (\A s \in grace_generation : shards[s].hi <= shards[NewestBase].hi)'
    BY <1>1, <1>4
  <2>4. Deltas' = {}
    BY <1>4 DEF Deltas
  <2> QED BY <2>2, <2>3, <2>4 DEF GenInv
<1>5. CASE /\ live_generation' = live_generation \cup {upload}
           /\ grace_generation' = grace_generation
           /\ NewestBase' = NewestBase /\ NewestBase \in live_generation
           /\ Chain(shards, live_generation \cup {upload})
           /\ Holds(live_generation \cup {upload})
           /\ \A i \in Ids : Mentions(upload, i) => recall[i].lsn >= shards[upload].lo
  <2>1. ASSUME NEW S \in {live_generation', grace_generation'}
        PROVE  Chain(shards', S) /\ Holds(S)'
    <3>1. PICK A : A = live_generation \cup {upload}
      OBVIOUS
    <3>2. PICK B : B = grace_generation
      OBVIOUS
    <3>3. Chain(shards, A) /\ Holds(A) /\ Chain(shards, B) /\ Holds(B)
      BY <1>2, <1>5, <3>1, <3>2
    <3>4. S = A \/ S = B
      BY <1>5, <3>1, <3>2
    <3> QED BY <1>3, <3>3, <3>4
  <2>2. (\A S \in {live_generation, grace_generation} : Chain(shards, S) /\ Holds(S))'
    BY <2>1
  <2>3. (\A s \in grace_generation : shards[s].hi <= shards[NewestBase].hi)'
    BY <1>1, <1>5 DEF GenInv
  <2>4. Deltas' \subseteq Deltas \cup {upload}
    BY <1>5 DEF Deltas
  <2>5. \A d \in Deltas' : \A i \in Ids : Mentions(d, i) => recall[i].lsn >= shards[d].lo
    BY <1>5, <2>4 DEF GenInv
  <2>6. (\A d \in Deltas : \A i \in Ids : Mentions(d, i) => recall[i].lsn >= shards[d].lo)'
    BY <1>1, <2>5 DEF Mentions
  <2> QED BY <2>2, <2>3, <2>6 DEF GenInv
<1> QED BY <1>4, <1>5, CommitCases

\* Every step keeps the generations sound.
LEMMA GenStep ==
  ASSUME StoreInv, ShardInv, GenInv, SnapInv, JobInv, [Next]_vars
  PROVE  GenInv'
<1>0. CommitShard \/ SameGenerations
  BY GensStay
<1>a. ASSUME UNCHANGED <<recall, truth>>, ~ CommitShard PROVE GenInv'
  <2>1. \A S \in {live_generation, grace_generation} : \A i \in Ids :
          recall'[i].lsn <= Cov(shards, S) => MergeOf(shards, S, i) = truth'[i]
    BY <1>a DEF GenInv, Holds
  <2>2. \A d \in Deltas : \A i \in Ids : Mentions(d, i) => recall'[i].lsn >= shards[d].lo
    BY <1>a DEF GenInv
  <2> QED BY <1>0, <1>a, <2>1, <2>2, GenSame
<1>1. ASSUME NEW i \in Ids, recall_upsert_vectors(i) PROVE GenInv'
  <2>1. i \in Ids /\ (CommitShard => FALSE)
    BY <1>1 DEF recall_upsert_vectors, Stamp, StoreInv, CommitShard, storeVars
  <2>2. /\ \A j \in Ids : j # i => recall'[j] = recall[j] /\ truth'[j] = truth[j]
        /\ recall'[i].lsn = last_lsn + 1
    BY <1>1, <2>1 DEF StoreInv, recall_upsert_vectors, Stamp
  <2> QED BY <1>0, <2>1, <2>2, GenWrite
<1>2. ASSUME NEW i \in Deletable, recall_delete_vector(i) PROVE GenInv'
  <2>1. i \in Ids /\ (CommitShard => FALSE)
    BY <1>2, DeltaAssumption DEF recall_delete_vector, Stamp, StoreInv, CommitShard, storeVars
  <2>2. /\ \A j \in Ids : j # i => recall'[j] = recall[j] /\ truth'[j] = truth[j]
        /\ recall'[i].lsn = last_lsn + 1
    BY <1>2, <2>1 DEF StoreInv, recall_delete_vector, Stamp
  <2> QED BY <1>0, <2>1, <2>2, GenWrite
<1>3. ASSUME Snapshot PROVE GenInv'
  <2>1. UNCHANGED <<recall, truth>>
    BY <1>3 DEF Snapshot, storeVars
  <2> QED BY <2>1, <1>a, GenCommit
<1>4. ASSUME NothingToFold PROVE GenInv'
  <2>1. UNCHANGED <<recall, truth>>
    BY <1>4 DEF NothingToFold, EndRun, storeVars
  <2> QED BY <2>1, <1>a, GenCommit
<1>5. ASSUME BuildDeltaFold PROVE GenInv'
  <2>1. UNCHANGED <<recall, truth>>
    BY <1>5 DEF BuildDeltaFold, Put, storeVars
  <2> QED BY <2>1, <1>a, GenCommit
<1>6. ASSUME CommitShard PROVE GenInv'
  BY <1>6, GenCommit
<1>7. ASSUME Settle PROVE GenInv'
  <2>1. UNCHANGED <<recall, truth>>
    BY <1>7 DEF Settle, Fault, storeVars
  <2> QED BY <2>1, <1>a, GenCommit
<1>8. ASSUME SweepObjects PROVE GenInv'
  <2>1. UNCHANGED <<recall, truth>>
    BY <1>8 DEF SweepObjects, storeVars
  <2> QED BY <2>1, <1>a, GenCommit
<1>9. ASSUME SweepRows PROVE GenInv'
  <2>1. UNCHANGED <<recall, truth>>
    BY <1>9 DEF SweepRows, Fault, storeVars
  <2> QED BY <2>1, <1>a, GenCommit
<1>10. ASSUME SkipCompaction PROVE GenInv'
  <2>1. UNCHANGED <<recall, truth>>
    BY <1>10 DEF SkipCompaction, Fault, storeVars
  <2> QED BY <2>1, <1>a, GenCommit
<1>11. ASSUME major_compaction PROVE GenInv'
  <2>1. UNCHANGED <<recall, truth>>
    BY <1>11 DEF major_compaction, Put, storeVars
  <2> QED BY <2>1, <1>a, GenCommit
<1>12. ASSUME Trim PROVE GenInv'
  <2>1. ~ CommitShard
    BY <1>12 DEF Trim, CommitShard
  <2> QED BY <1>0, <1>12, <2>1, GenTrim
<1>13. ASSUME Abort PROVE GenInv'
  <2>1. UNCHANGED <<recall, truth>>
    BY <1>13 DEF Abort, EndRun, Fault, storeVars
  <2> QED BY <2>1, <1>a, GenCommit
<1>14. ASSUME NEW r \in Readers, ResolveShard(r) PROVE GenInv'
  <2>1. UNCHANGED <<recall, truth>>
    BY <1>14 DEF ResolveShard, storeVars
  <2> QED BY <2>1, <1>a, GenCommit
<1>15. ASSUME NEW r \in Readers, RecallSearch(r) PROVE GenInv'
  <2>1. UNCHANGED <<recall, truth>>
    BY <1>15 DEF RecallSearch, storeVars
  <2> QED BY <2>1, <1>a, GenCommit
<1>16. ASSUME NEW r \in Readers, Respond(r) PROVE GenInv'
  <2>1. UNCHANGED <<recall, truth>>
    BY <1>16 DEF Respond, storeVars
  <2> QED BY <2>1, <1>a, GenCommit
<1>17. ASSUME UNCHANGED vars PROVE GenInv'
  <2>1. UNCHANGED <<recall, truth>>
    BY <1>17 DEF vars, storeVars
  <2> QED BY <2>1, <1>a, GenCommit
<1> QED
  BY <1>1, <1>2, <1>3, <1>4, <1>5, <1>6, <1>7, <1>8, <1>9, <1>10, <1>11, <1>12,
     <1>13, <1>14, <1>15, <1>16, <1>17
     DEF Next, Write, Consolidate, Read

-----------------------------------------------------------------------------
(* The consolidation *)

\* A step next to the consolidation leaves what it has in hand as it is.
LEMMA JobSame ==
  ASSUME ShardInv, JobInv, SameGenerations,
         UNCHANGED <<shards, catalog, objects, pc, snap, upload, stale>>,
         \A r \in Readers : resolved'[r] \in {resolved[r], {}, live_generation}
  PROVE  JobInv'
<1>1. /\ live_generation' = live_generation /\ grace_generation' = grace_generation
      /\ NewestBase' = NewestBase
  BY DEF SameGenerations
<1>2. upload' \in 0..Len(shards')
  BY DEF JobInv
<1>3. ASSUME pc' = "written"
      PROVE  /\ upload' = Len(shards') /\ upload' > 0 /\ upload' \notin catalog'
             /\ upload' \in objects'
             /\ \A r \in Readers : upload' \notin resolved'[r]
             /\ MadeOf(shards[upload], live_generation)'
  <2>1. /\ upload = Len(shards) /\ upload > 0 /\ upload \notin catalog /\ upload \in objects
        /\ \A r \in Readers : upload \notin resolved[r]
        /\ MadeOf(shards[upload], live_generation)
    BY <1>3 DEF JobInv
  <2>2. upload \notin live_generation
    BY <2>1, GenFacts
  <2>3. \A r \in Readers : upload \notin resolved'[r]
    BY <2>1, <2>2
  <2>4. SnapLsn' = SnapLsn
    BY DEF SnapLsn
  <2>5. MadeOf(shards[upload], live_generation)'
    BY <2>1, <1>1, <2>4 DEF MadeOf
  <2> QED BY <2>1, <2>3, <2>5
<1>4. ASSUME pc' = "sweeping" PROVE (stale \cap Retained)' = {}
  BY <1>1, <1>4 DEF JobInv, Retained
<1> QED BY <1>2, <1>3, <1>4 DEF JobInv

\* Outside the two critical places there is nothing to keep.
LEMMA JobOut ==
  ASSUME JobInv, ShardInv, Kept, upload' \in {0, upload},
         pc' \notin {"written", "sweeping"}
  PROVE  JobInv'
<1>1. Len(shards) \in Nat
  BY DEF ShardInv
<1>2. upload' \in 0..Len(shards')
  BY <1>1 DEF JobInv, Kept
<1> QED BY <1>2 DEF JobInv

\* A shard that was just written waits for its row.
LEMMA JobPut ==
  ASSUME StoreInv, ShardInv, SnapInv, GenInv, ReadInv, BuildDeltaFold \/ major_compaction
  PROVE  JobInv'
<1>1. PICK u : (Put(u, FALSE) \/ Put(u, TRUE)) /\ Fits(u) /\ MadeOf(u, live_generation)
  BY PutRecord
<1>2. u \in ShardRecs
  BY <1>1 DEF Fits
<1>3. /\ Len(shards') = Len(shards) + 1
      /\ Kept /\ shards'[Len(shards) + 1] = u /\ Len(shards) \in Nat
      /\ UNCHANGED <<catalog, snap, resolved>>
      /\ objects' = objects \cup {Len(shards) + 1} /\ upload' = Len(shards) + 1
      /\ pc' = "written"
  BY <1>1, <1>2, PutEffect
<1>4. SameGenerations
  BY <1>3, CatalogStays
<1>5. PICK L : L = live_generation
  OBVIOUS
<1>6. L \in SUBSET (1..Len(shards)) /\ Chain(shards, L)
  BY <1>5, GenFacts DEF GenInv
<1>7. /\ Cov(shards', L) = Cov(shards, L)
      /\ \A i \in Ids : MergeOf(shards', L, i) = MergeOf(shards, L, i)
  BY <1>3, <1>6, ReadSame
<1>8. SnapLsn' = SnapLsn
  BY <1>3 DEF SnapLsn
<1>9. MadeOf(u, L)'
  <2>1. MadeOf(u, L)
    BY <1>1, <1>5
  <2>2. NewestBase' = NewestBase
    BY <1>4 DEF SameGenerations
  <2> QED BY <2>1, <2>2, <1>3, <1>7, <1>8 DEF MadeOf
<1>10. MadeOf(shards[upload], live_generation)'
  <2>1. live_generation' = L /\ shards'[upload'] = u
    BY <1>3, <1>4, <1>5 DEF SameGenerations
  <2> QED BY <1>9, <2>1
<1>11. Len(shards) + 1 \notin 1..Len(shards) /\ Len(shards) + 1 > 0
  BY <1>3
<1>12. upload' \notin catalog' /\ \A r \in Readers : upload' \notin resolved'[r]
  <2>1. catalog \subseteq 1..Len(shards)
    BY DEF ShardInv
  <2>2. \A r \in Readers : resolved[r] \subseteq 1..Len(shards)
    BY DEF ReadInv
  <2> QED BY <1>3, <1>11, <2>1, <2>2
<1>13. upload' \in 0..Len(shards') /\ upload' = Len(shards') /\ upload' > 0 /\ upload' \in objects'
  BY <1>3
<1>14. pc' # "sweeping"
  BY <1>3
<1> QED BY <1>10, <1>12, <1>13, <1>14 DEF JobInv

\* Every step keeps the shard in hand what the run made it.
LEMMA JobStep ==
  ASSUME StoreInv, ShardInv, GenInv, SnapInv, JobInv, ReadInv, [Next]_vars
  PROVE  JobInv'
<1>0. (CommitShard \/ SameGenerations) /\ Kept
  BY GensStay, ShardStep
<1>1. ASSUME NEW i \in Ids, recall_upsert_vectors(i) PROVE JobInv'
  <2>1. /\ UNCHANGED <<shards, catalog, objects, pc, snap, upload, stale>>
        /\ \A q \in Readers : resolved'[q] \in {resolved[q], {}, live_generation}
    BY <1>1 DEF recall_upsert_vectors, Stamp, catalogVars, jobVars, readVars
  <2>2. ~ CommitShard
    BY <2>1 DEF CommitShard
  <2> QED BY <1>0, <2>1, <2>2, JobSame
<1>2. ASSUME NEW i \in Deletable, recall_delete_vector(i) PROVE JobInv'
  <2>1. /\ UNCHANGED <<shards, catalog, objects, pc, snap, upload, stale>>
        /\ \A q \in Readers : resolved'[q] \in {resolved[q], {}, live_generation}
    BY <1>2 DEF recall_delete_vector, Stamp, catalogVars, jobVars, readVars
  <2>2. ~ CommitShard
    BY <2>1 DEF CommitShard
  <2> QED BY <1>0, <2>1, <2>2, JobSame
<1>3. ASSUME Snapshot PROVE JobInv'
  <2>1. upload' \in {0, upload} /\ pc' \notin {"written", "sweeping"}
    BY <1>3 DEF Snapshot
  <2> QED BY <1>0, <2>1, JobOut
<1>4. ASSUME NothingToFold PROVE JobInv'
  <2>1. upload' \in {0, upload} /\ pc' \notin {"written", "sweeping"}
    BY <1>4 DEF NothingToFold, EndRun
  <2> QED BY <1>0, <2>1, JobOut
<1>5. ASSUME BuildDeltaFold PROVE JobInv'
  BY <1>5, JobPut
<1>6. ASSUME CommitShard PROVE JobInv'
  <2>1. upload' \in {0, upload} /\ pc' \notin {"written", "sweeping"}
    BY <1>6 DEF CommitShard
  <2> QED BY <1>0, <2>1, JobOut
<1>7. ASSUME Settle PROVE JobInv'
  <2>1. upload' \in {0, upload} /\ pc' \notin {"written", "sweeping"}
    BY <1>7 DEF Settle, Fault
  <2> QED BY <1>0, <2>1, JobOut
<1>8. ASSUME SweepObjects PROVE JobInv'
  <2>1. upload' = upload /\ pc' = "sweeping" /\ stale' = superseded_shards /\ pc # "written"
    BY <1>8 DEF SweepObjects
  <2>2. SameGenerations
    BY <1>0, <2>1 DEF CommitShard
  <2>3. (stale \cap Retained)' = {}
    BY <2>1, <2>2 DEF superseded_shards, SameGenerations, Retained
  <2>4. upload' \in 0..Len(shards')
    BY <1>8 DEF JobInv, SweepObjects
  <2> QED BY <2>1, <2>3, <2>4 DEF JobInv
<1>9. ASSUME SweepRows PROVE JobInv'
  <2>1. upload' \in {0, upload} /\ pc' \notin {"written", "sweeping"}
    BY <1>9 DEF SweepRows, Fault
  <2> QED BY <1>0, <2>1, JobOut
<1>10. ASSUME SkipCompaction PROVE JobInv'
  <2>1. upload' \in {0, upload} /\ pc' \notin {"written", "sweeping"}
    BY <1>10 DEF SkipCompaction, Fault
  <2> QED BY <1>0, <2>1, JobOut
<1>11. ASSUME major_compaction PROVE JobInv'
  BY <1>11, JobPut
<1>12. ASSUME Trim PROVE JobInv'
  <2>1. upload' \in {0, upload} /\ pc' \notin {"written", "sweeping"}
    BY <1>12 DEF Trim, EndRun, Fault
  <2> QED BY <1>0, <2>1, JobOut
<1>13. ASSUME Abort PROVE JobInv'
  <2>1. upload' \in {0, upload} /\ pc' \notin {"written", "sweeping"}
    BY <1>13 DEF Abort, EndRun, Fault
  <2> QED BY <1>0, <2>1, JobOut
<1>14. ASSUME NEW r \in Readers, ResolveShard(r) PROVE JobInv'
  <2>1. /\ UNCHANGED <<shards, catalog, objects, pc, snap, upload, stale>>
        /\ \A q \in Readers : resolved'[q] \in {resolved[q], {}, live_generation}
    BY <1>14 DEF ReadInv, ResolveShard, catalogVars, jobVars, readVars
  <2>2. ~ CommitShard
    BY <2>1 DEF CommitShard
  <2> QED BY <1>0, <2>1, <2>2, JobSame
<1>15. ASSUME NEW r \in Readers, RecallSearch(r) PROVE JobInv'
  <2>1. /\ UNCHANGED <<shards, catalog, objects, pc, snap, upload, stale>>
        /\ \A q \in Readers : resolved'[q] \in {resolved[q], {}, live_generation}
    BY <1>15 DEF RecallSearch, catalogVars, jobVars, readVars
  <2>2. ~ CommitShard
    BY <2>1 DEF CommitShard
  <2> QED BY <1>0, <2>1, <2>2, JobSame
<1>16. ASSUME NEW r \in Readers, Respond(r) PROVE JobInv'
  <2>1. /\ UNCHANGED <<shards, catalog, objects, pc, snap, upload, stale>>
        /\ \A q \in Readers : resolved'[q] \in {resolved[q], {}, live_generation}
    BY <1>16 DEF ReadInv, Respond, catalogVars, jobVars, readVars
  <2>2. ~ CommitShard
    BY <2>1 DEF CommitShard
  <2> QED BY <1>0, <2>1, <2>2, JobSame
<1>17. ASSUME UNCHANGED vars PROVE JobInv'
  <2>1. /\ UNCHANGED <<shards, catalog, objects, pc, snap, upload, stale>>
        /\ \A q \in Readers : resolved'[q] \in {resolved[q], {}, live_generation}
    BY <1>17 DEF vars, catalogVars, jobVars, readVars
  <2>2. ~ CommitShard
    BY <2>1 DEF CommitShard
  <2> QED BY <1>0, <2>1, <2>2, JobSame
<1> QED
  BY <1>1, <1>2, <1>3, <1>4, <1>5, <1>6, <1>7, <1>8, <1>9, <1>10, <1>11, <1>12,
     <1>13, <1>14, <1>15, <1>16, <1>17
     DEF Next, Write, Consolidate, Read

-----------------------------------------------------------------------------
(* Objects and queries *)

\* Every step keeps the objects of the retained generations.
LEMMA ObjectsStep ==
  ASSUME StoreInv, ShardInv, GenInv, SnapInv, JobInv, RetainedReadable, [Next]_vars
  PROVE  RetainedReadable'
<1>0. CommitShard \/ SameGenerations
  BY GensStay
<1>a. ASSUME ~ CommitShard, objects \subseteq objects' PROVE RetainedReadable'
  BY <1>0, <1>a DEF RetainedReadable, SameGenerations
<1>b. ASSUME CommitShard PROVE RetainedReadable'
  <2>1. upload \in objects /\ objects' = objects
    BY <1>b, CommitFacts
  <2>2. live_generation' \cup grace_generation'
          \subseteq live_generation \cup grace_generation \cup {upload}
    <3>1. \/ live_generation' = {upload} /\ grace_generation' = live_generation
          \/ /\ live_generation' = live_generation \cup {upload}
             /\ grace_generation' = grace_generation
      BY <1>b, CommitCases
    <3> QED BY <3>1
  <2> QED BY <2>1, <2>2 DEF RetainedReadable
<1>1. ASSUME NEW i \in Ids, recall_upsert_vectors(i) PROVE RetainedReadable'
  <2>1. objects \subseteq objects'
    BY <1>1 DEF recall_upsert_vectors, Stamp, catalogVars
  <2> QED BY <2>1, <1>a, <1>b
<1>2. ASSUME NEW i \in Deletable, recall_delete_vector(i) PROVE RetainedReadable'
  <2>1. objects \subseteq objects'
    BY <1>2 DEF recall_delete_vector, Stamp, catalogVars
  <2> QED BY <2>1, <1>a, <1>b
<1>3. ASSUME Snapshot PROVE RetainedReadable'
  <2>1. objects \subseteq objects'
    BY <1>3 DEF Snapshot, catalogVars
  <2> QED BY <2>1, <1>a, <1>b
<1>4. ASSUME NothingToFold PROVE RetainedReadable'
  <2>1. objects \subseteq objects'
    BY <1>4 DEF NothingToFold, EndRun, catalogVars
  <2> QED BY <2>1, <1>a, <1>b
<1>5. ASSUME BuildDeltaFold PROVE RetainedReadable'
  <2>1. objects \subseteq objects'
    BY <1>5 DEF BuildDeltaFold, Put, catalogVars
  <2> QED BY <2>1, <1>a, <1>b
<1>6. ASSUME CommitShard PROVE RetainedReadable'
  BY <1>6, <1>b
<1>7. ASSUME Settle PROVE RetainedReadable'
  <2>1. objects \subseteq objects'
    BY <1>7 DEF Settle, Fault, catalogVars
  <2> QED BY <2>1, <1>a, <1>b
<1>8. ASSUME SweepObjects PROVE RetainedReadable'
  <2>1. objects' = objects \ superseded_shards /\ ~ CommitShard
    BY <1>8 DEF SweepObjects, CommitShard
  <2> QED BY <1>0, <2>1 DEF RetainedReadable, SameGenerations, superseded_shards
<1>9. ASSUME SweepRows PROVE RetainedReadable'
  <2>1. objects \subseteq objects'
    BY <1>9 DEF SweepRows, Fault, catalogVars
  <2> QED BY <2>1, <1>a, <1>b
<1>10. ASSUME SkipCompaction PROVE RetainedReadable'
  <2>1. objects \subseteq objects'
    BY <1>10 DEF SkipCompaction, Fault, catalogVars
  <2> QED BY <2>1, <1>a, <1>b
<1>11. ASSUME major_compaction PROVE RetainedReadable'
  <2>1. objects \subseteq objects'
    BY <1>11 DEF major_compaction, Put, catalogVars
  <2> QED BY <2>1, <1>a, <1>b
<1>12. ASSUME Trim PROVE RetainedReadable'
  <2>1. objects \subseteq objects'
    BY <1>12 DEF Trim, EndRun, Fault, catalogVars
  <2> QED BY <2>1, <1>a, <1>b
<1>13. ASSUME Abort PROVE RetainedReadable'
  <2>1. objects \subseteq objects'
    BY <1>13 DEF Abort, EndRun, Fault, catalogVars
  <2> QED BY <2>1, <1>a, <1>b
<1>14. ASSUME NEW r \in Readers, ResolveShard(r) PROVE RetainedReadable'
  <2>1. objects \subseteq objects'
    BY <1>14 DEF ResolveShard, catalogVars
  <2> QED BY <2>1, <1>a, <1>b
<1>15. ASSUME NEW r \in Readers, RecallSearch(r) PROVE RetainedReadable'
  <2>1. objects \subseteq objects'
    BY <1>15 DEF RecallSearch, catalogVars
  <2> QED BY <2>1, <1>a, <1>b
<1>16. ASSUME NEW r \in Readers, Respond(r) PROVE RetainedReadable'
  <2>1. objects \subseteq objects'
    BY <1>16 DEF Respond, catalogVars
  <2> QED BY <2>1, <1>a, <1>b
<1>17. ASSUME UNCHANGED vars PROVE RetainedReadable'
  <2>1. objects \subseteq objects'
    BY <1>17 DEF vars, catalogVars
  <2> QED BY <2>1, <1>a, <1>b
<1> QED
  BY <1>1, <1>2, <1>3, <1>4, <1>5, <1>6, <1>7, <1>8, <1>9, <1>10, <1>11, <1>12,
     <1>13, <1>14, <1>15, <1>16, <1>17
     DEF Next, Write, Consolidate, Read

\* What a query that resolved the set P with the newest base in it may say of P.
LowerPartOf(P, L) == /\ P \subseteq L
                     /\ \A s \in P, t \in L : shards[t].lo <= shards[s].lo => t \in P

\* A query's set stays a lower part of the newest generation while that is its own.
LEMMA ReadFrame ==
  ASSUME StoreInv, ShardInv, GenInv, SnapInv, JobInv, ReadInv, [Next]_vars,
         NEW r \in Readers, NewestBase' \in resolved[r]
  PROVE  LowerPartOf(resolved[r], live_generation)'
         \/ resolved'[r] # resolved[r]
<1>0. Kept /\ (CommitShard \/ SameGenerations)
  BY ShardStep, GensStay
<1> SUFFICES ASSUME resolved'[r] = resolved[r]
             PROVE  LowerPartOf(resolved[r], live_generation)'
  OBVIOUS
<1>1. resolved[r] \subseteq 1..Len(shards) /\ live_generation \subseteq 1..Len(shards)
  BY GenFacts DEF ReadInv
<1>2. NewestBase \in resolved[r] => LowerPartOf(resolved[r], live_generation)
  BY DEF ReadInv, LowerPartOf
<1>3. CASE SameGenerations
  BY <1>0, <1>1, <1>2, <1>3 DEF LowerPartOf, SameGenerations, Kept
<1>4. CASE CommitShard
  <2>1. upload \notin resolved[r]
    BY <1>4, CommitFacts DEF JobInv
  <2>2. shards' = shards /\ upload \in 1..Len(shards)
    BY <1>4, CommitFacts
  <2>3. NewestBase' # upload
    BY <2>1
  <2>4. /\ live_generation' = live_generation \cup {upload} /\ NewestBase' = NewestBase
        /\ \A s \in live_generation : shards[s].lo < shards[upload].lo
    BY <1>4, <2>3, CommitCases
  <2>5. LowerPartOf(resolved[r], live_generation)
    BY <1>2, <2>4
  <2>6. ASSUME NEW p \in resolved[r], NEW t \in live_generation', shards[t].lo <= shards[p].lo
        PROVE  t \in resolved[r]
    <3>1. p \in live_generation /\ shards[p].lo < shards[upload].lo
      BY <2>4, <2>5 DEF LowerPartOf
    <3>2. shards[p].lo \in Nat /\ shards[upload].lo \in Nat
      BY <1>1, <2>2, ShardFacts
    <3>3. t # upload
      BY <2>6, <3>1, <3>2
    <3> QED BY <2>4, <2>5, <2>6, <3>3 DEF LowerPartOf
  <2>7. resolved[r] \subseteq live_generation'
    BY <2>4, <2>5 DEF LowerPartOf
  <2> QED BY <2>2, <2>6, <2>7 DEF LowerPartOf
<1> QED BY <1>0, <1>3, <1>4

\* Steps of others keep what a query holds.
LEMMA ReadStays ==
  ASSUME StoreInv, ShardInv, GenInv, SnapInv, JobInv, ReadInv, [Next]_vars,
         UNCHANGED <<resolved, scan>>
  PROVE  ReadInv'
<1>1. Kept /\ Len(shards) \in Nat
  BY ShardStep DEF ShardInv
<1>2. 1..Len(shards) \subseteq 1..Len(shards')
  BY <1>1 DEF Kept
<1>3. resolved' \in [Readers -> SUBSET (1..Len(shards'))] /\ scan' \in [Readers -> Scans]
  BY <1>2 DEF ReadInv
<1>4. ASSUME NEW r \in Readers
      PROVE  /\ (scan[r].done => resolved[r] # {})'
             /\ (NewestBase \in resolved[r] => LowerPartOf(resolved[r], live_generation))'
  <2>1. NewestBase' \in resolved[r] => LowerPartOf(resolved[r], live_generation)'
    BY ReadFrame
  <2> QED BY <2>1 DEF ReadInv
<1> QED BY <1>3, <1>4 DEF ReadInv, LowerPartOf

\* Every step keeps what queries hold.
LEMMA ReadStep ==
  ASSUME StoreInv, ShardInv, GenInv, SnapInv, JobInv, ReadInv, [Next]_vars
  PROVE  ReadInv'
<1>1. ASSUME NEW i \in Ids, recall_upsert_vectors(i) PROVE ReadInv'
  <2>1. UNCHANGED <<resolved, scan>>
    BY <1>1 DEF recall_upsert_vectors, Stamp, readVars
  <2> QED BY <2>1, ReadStays
<1>2. ASSUME NEW i \in Deletable, recall_delete_vector(i) PROVE ReadInv'
  <2>1. UNCHANGED <<resolved, scan>>
    BY <1>2 DEF recall_delete_vector, Stamp, readVars
  <2> QED BY <2>1, ReadStays
<1>3. ASSUME Snapshot PROVE ReadInv'
  <2>1. UNCHANGED <<resolved, scan>>
    BY <1>3 DEF Snapshot, readVars
  <2> QED BY <2>1, ReadStays
<1>4. ASSUME NothingToFold PROVE ReadInv'
  <2>1. UNCHANGED <<resolved, scan>>
    BY <1>4 DEF NothingToFold, EndRun, readVars
  <2> QED BY <2>1, ReadStays
<1>5. ASSUME BuildDeltaFold PROVE ReadInv'
  <2>1. UNCHANGED <<resolved, scan>>
    BY <1>5 DEF BuildDeltaFold, Put, readVars
  <2> QED BY <2>1, ReadStays
<1>6. ASSUME CommitShard PROVE ReadInv'
  <2>1. UNCHANGED <<resolved, scan>>
    BY <1>6 DEF CommitShard, readVars
  <2> QED BY <2>1, ReadStays
<1>7. ASSUME Settle PROVE ReadInv'
  <2>1. UNCHANGED <<resolved, scan>>
    BY <1>7 DEF Settle, Fault, readVars
  <2> QED BY <2>1, ReadStays
<1>8. ASSUME SweepObjects PROVE ReadInv'
  <2>1. UNCHANGED <<resolved, scan>>
    BY <1>8 DEF SweepObjects, readVars
  <2> QED BY <2>1, ReadStays
<1>9. ASSUME SweepRows PROVE ReadInv'
  <2>1. UNCHANGED <<resolved, scan>>
    BY <1>9 DEF SweepRows, Fault, readVars
  <2> QED BY <2>1, ReadStays
<1>10. ASSUME SkipCompaction PROVE ReadInv'
  <2>1. UNCHANGED <<resolved, scan>>
    BY <1>10 DEF SkipCompaction, Fault, readVars
  <2> QED BY <2>1, ReadStays
<1>11. ASSUME major_compaction PROVE ReadInv'
  <2>1. UNCHANGED <<resolved, scan>>
    BY <1>11 DEF major_compaction, Put, readVars
  <2> QED BY <2>1, ReadStays
<1>12. ASSUME Trim PROVE ReadInv'
  <2>1. UNCHANGED <<resolved, scan>>
    BY <1>12 DEF Trim, EndRun, Fault, readVars
  <2> QED BY <2>1, ReadStays
<1>13. ASSUME Abort PROVE ReadInv'
  <2>1. UNCHANGED <<resolved, scan>>
    BY <1>13 DEF Abort, EndRun, Fault, readVars
  <2> QED BY <2>1, ReadStays
<1>14. ASSUME NEW r \in Readers, ResolveShard(r) PROVE ReadInv'
  <2>1. /\ shards' = shards /\ catalog' = catalog
        /\ resolved \in [Readers -> SUBSET (1..Len(shards))]
        /\ resolved' = [resolved EXCEPT ![r] = live_generation]
    BY <1>14 DEF ReadInv, ResolveShard, catalogVars
  <2>2. Kept /\ live_generation \subseteq 1..Len(shards)
    BY ShardStep, GenFacts
  <2>3. SameGenerations
    BY <2>1, <2>2, CatalogStays
  <2>4. scan \in [Readers -> Scans] /\ scan' \in [Readers -> Scans]
    BY <1>14 DEF ReadInv, ResolveShard
  <2>5. resolved' \in [Readers -> SUBSET (1..Len(shards'))]
    BY <2>1, <2>2
  <2>6. ASSUME NEW q \in Readers
        PROVE  /\ (scan[q].done => resolved[q] # {})'
               /\ (NewestBase \in resolved[q] => LowerPartOf(resolved[q], live_generation))'
    <3>1. CASE q = r
      BY <1>14, <2>1, <2>3, <2>4, <3>1 DEF ResolveShard, SameGenerations, LowerPartOf, NoScan
    <3>2. CASE q # r
      BY <1>14, <2>1, <2>3, <2>4, <3>2 DEF ReadInv, ResolveShard, SameGenerations, LowerPartOf
    <3> QED BY <3>1, <3>2
  <2> QED BY <2>4, <2>5, <2>6 DEF ReadInv, LowerPartOf
<1>15. ASSUME NEW r \in Readers, RecallSearch(r) PROVE ReadInv'
  <2>1. /\ shards' = shards /\ catalog' = catalog /\ resolved' = resolved
        /\ resolved \in [Readers -> SUBSET (1..Len(shards))] /\ scan \in [Readers -> Scans]
        /\ resolved[r] # {}
    BY <1>15 DEF ReadInv, RecallSearch, catalogVars
  <2>2. Kept
    BY ShardStep
  <2>3. SameGenerations
    BY <2>1, <2>2, CatalogStays
  <2>4. PICK x \in Scans : scan' = [scan EXCEPT ![r] = x]
    <3> DEFINE x == [done |-> TRUE,
                     timely |-> NewestBase \in resolved[r] \/ resolved[r] = grace_generation,
                     rows |-> [i \in Ids |-> IF recall[i].lsn > frontier_watermark(resolved[r])
                                             THEN recall[i] ELSE NoRow],
                     want |-> truth]
    <3>1. x.rows \in [Ids -> Row] /\ x.want \in [Ids -> Nat]
      BY DEF StoreInv, NoRow, Row
    <3>2. x \in Scans
      BY <3>1, Zenon DEF Scans
    <3>3. scan' = [scan EXCEPT ![r] = x]
      BY <1>15 DEF RecallSearch
    <3> HIDE DEF x
    <3> QED BY <3>2, <3>3
  <2>5. scan' \in [Readers -> Scans]
    BY <2>1, <2>4
  <2>6. ASSUME NEW q \in Readers
        PROVE  /\ (scan[q].done => resolved[q] # {})'
               /\ (NewestBase \in resolved[q] => LowerPartOf(resolved[q], live_generation))'
    <3>1. (scan[q].done => resolved[q] # {})'
      BY <2>1, <2>4 DEF ReadInv
    <3>2. (NewestBase \in resolved[q] => LowerPartOf(resolved[q], live_generation))'
      BY <2>1, <2>3 DEF ReadInv, SameGenerations, LowerPartOf
    <3> QED BY <3>1, <3>2
  <2> QED BY <2>1, <2>5, <2>6 DEF ReadInv, LowerPartOf
<1>16. ASSUME NEW r \in Readers, Respond(r) PROVE ReadInv'
  <2>1. /\ shards' = shards /\ catalog' = catalog
        /\ resolved \in [Readers -> SUBSET (1..Len(shards))]
        /\ resolved' = [resolved EXCEPT ![r] = {}]
    BY <1>16 DEF ReadInv, Respond, catalogVars
  <2>2. Kept /\ live_generation \subseteq 1..Len(shards)
    BY ShardStep, GenFacts
  <2>3. SameGenerations
    BY <2>1, <2>2, CatalogStays
  <2>4. scan \in [Readers -> Scans] /\ scan' \in [Readers -> Scans]
    <3>1. NoScan \in Scans
      BY DEF NoScan, Scans, NoRow, Row
    <3> QED BY <1>16, <3>1 DEF ReadInv, Respond
  <2>5. resolved' \in [Readers -> SUBSET (1..Len(shards'))]
    BY <2>1, <2>2
  <2>6. ASSUME NEW q \in Readers
        PROVE  /\ (scan[q].done => resolved[q] # {})'
               /\ (NewestBase \in resolved[q] => LowerPartOf(resolved[q], live_generation))'
    <3>1. CASE q = r
      BY <1>16, <2>1, <2>3, <2>4, <3>1 DEF Respond, SameGenerations, LowerPartOf, NoScan
    <3>2. CASE q # r
      BY <1>16, <2>1, <2>3, <2>4, <3>2 DEF ReadInv, Respond, SameGenerations, LowerPartOf
    <3> QED BY <3>1, <3>2
  <2> QED BY <2>4, <2>5, <2>6 DEF ReadInv, LowerPartOf
<1>17. ASSUME UNCHANGED vars PROVE ReadInv'
  <2>1. UNCHANGED <<resolved, scan>>
    BY <1>17 DEF vars, readVars
  <2> QED BY <2>1, ReadStays
<1> QED
  BY <1>1, <1>2, <1>3, <1>4, <1>5, <1>6, <1>7, <1>8, <1>9, <1>10, <1>11, <1>12,
     <1>13, <1>14, <1>15, <1>16, <1>17
     DEF Next, Write, Consolidate, Read

\* Every step keeps the queries' sets chains.
LEMMA ChainsStep ==
  ASSUME StoreInv, ShardInv, GenInv, SnapInv, JobInv, ReadInv, ChainsRead, [Next]_vars
  PROVE  ChainsRead'
<1>0. Kept
  BY ShardStep
<1>a. ASSUME \A r \in Readers : resolved'[r] \in {resolved[r], {}, live_generation}
      PROVE  ChainsRead'
  <2>1. Chain(shards, {}) /\ Chain(shards, live_generation)
    BY DEF Chain, NoGap, GenInv
  <2>2. ASSUME NEW r \in Readers PROVE Chain(shards', resolved'[r])
    <3>1. PICK P : P = resolved'[r]
      OBVIOUS
    <3>2. P \in {resolved[r], {}, live_generation}
      BY <1>a, <3>1
    <3>3. P \in SUBSET (1..Len(shards)) /\ Chain(shards, P)
      BY <2>1, <3>2, GenFacts DEF ReadInv, ChainsRead
    <3>4. Chain(shards', P)
      BY <1>0, <3>3, ReadSame
    <3> QED BY <3>1, <3>4
  <2> QED BY <2>2 DEF ChainsRead
<1>1. ASSUME NEW i \in Ids, recall_upsert_vectors(i) PROVE ChainsRead'
  <2>1. \A q \in Readers : resolved'[q] \in {resolved[q], {}, live_generation}
    BY <1>1 DEF recall_upsert_vectors, Stamp, readVars
  <2> QED BY <2>1, <1>a
<1>2. ASSUME NEW i \in Deletable, recall_delete_vector(i) PROVE ChainsRead'
  <2>1. \A q \in Readers : resolved'[q] \in {resolved[q], {}, live_generation}
    BY <1>2 DEF recall_delete_vector, Stamp, readVars
  <2> QED BY <2>1, <1>a
<1>3. ASSUME Snapshot PROVE ChainsRead'
  <2>1. \A q \in Readers : resolved'[q] \in {resolved[q], {}, live_generation}
    BY <1>3 DEF Snapshot, readVars
  <2> QED BY <2>1, <1>a
<1>4. ASSUME NothingToFold PROVE ChainsRead'
  <2>1. \A q \in Readers : resolved'[q] \in {resolved[q], {}, live_generation}
    BY <1>4 DEF NothingToFold, EndRun, readVars
  <2> QED BY <2>1, <1>a
<1>5. ASSUME BuildDeltaFold PROVE ChainsRead'
  <2>1. \A q \in Readers : resolved'[q] \in {resolved[q], {}, live_generation}
    BY <1>5 DEF BuildDeltaFold, Put, readVars
  <2> QED BY <2>1, <1>a
<1>6. ASSUME CommitShard PROVE ChainsRead'
  <2>1. \A q \in Readers : resolved'[q] \in {resolved[q], {}, live_generation}
    BY <1>6 DEF CommitShard, readVars
  <2> QED BY <2>1, <1>a
<1>7. ASSUME Settle PROVE ChainsRead'
  <2>1. \A q \in Readers : resolved'[q] \in {resolved[q], {}, live_generation}
    BY <1>7 DEF Settle, Fault, readVars
  <2> QED BY <2>1, <1>a
<1>8. ASSUME SweepObjects PROVE ChainsRead'
  <2>1. \A q \in Readers : resolved'[q] \in {resolved[q], {}, live_generation}
    BY <1>8 DEF SweepObjects, readVars
  <2> QED BY <2>1, <1>a
<1>9. ASSUME SweepRows PROVE ChainsRead'
  <2>1. \A q \in Readers : resolved'[q] \in {resolved[q], {}, live_generation}
    BY <1>9 DEF SweepRows, Fault, readVars
  <2> QED BY <2>1, <1>a
<1>10. ASSUME SkipCompaction PROVE ChainsRead'
  <2>1. \A q \in Readers : resolved'[q] \in {resolved[q], {}, live_generation}
    BY <1>10 DEF SkipCompaction, Fault, readVars
  <2> QED BY <2>1, <1>a
<1>11. ASSUME major_compaction PROVE ChainsRead'
  <2>1. \A q \in Readers : resolved'[q] \in {resolved[q], {}, live_generation}
    BY <1>11 DEF major_compaction, Put, readVars
  <2> QED BY <2>1, <1>a
<1>12. ASSUME Trim PROVE ChainsRead'
  <2>1. \A q \in Readers : resolved'[q] \in {resolved[q], {}, live_generation}
    BY <1>12 DEF Trim, EndRun, Fault, readVars
  <2> QED BY <2>1, <1>a
<1>13. ASSUME Abort PROVE ChainsRead'
  <2>1. \A q \in Readers : resolved'[q] \in {resolved[q], {}, live_generation}
    BY <1>13 DEF Abort, EndRun, Fault, readVars
  <2> QED BY <2>1, <1>a
<1>14. ASSUME NEW r \in Readers, ResolveShard(r) PROVE ChainsRead'
  <2>1. \A q \in Readers : resolved'[q] \in {resolved[q], {}, live_generation}
    BY <1>14 DEF ReadInv, ResolveShard, readVars
  <2> QED BY <2>1, <1>a
<1>15. ASSUME NEW r \in Readers, RecallSearch(r) PROVE ChainsRead'
  <2>1. \A q \in Readers : resolved'[q] \in {resolved[q], {}, live_generation}
    BY <1>15 DEF RecallSearch, readVars
  <2> QED BY <2>1, <1>a
<1>16. ASSUME NEW r \in Readers, Respond(r) PROVE ChainsRead'
  <2>1. \A q \in Readers : resolved'[q] \in {resolved[q], {}, live_generation}
    BY <1>16 DEF ReadInv, Respond, readVars
  <2> QED BY <2>1, <1>a
<1>17. ASSUME UNCHANGED vars PROVE ChainsRead'
  <2>1. \A q \in Readers : resolved'[q] \in {resolved[q], {}, live_generation}
    BY <1>17 DEF vars, readVars
  <2> QED BY <2>1, <1>a
<1> QED
  BY <1>1, <1>2, <1>3, <1>4, <1>5, <1>6, <1>7, <1>8, <1>9, <1>10, <1>11, <1>12,
     <1>13, <1>14, <1>15, <1>16, <1>17
     DEF Next, Write, Consolidate, Read

-----------------------------------------------------------------------------
(* Answers *)

\* An answer stays what it is while the shards stay.
LEMMA GoodSame ==
  ASSUME NEW f, NEW g, NEW P, NEW N, Agree(f, g, P), Bands(f, P, N), Chain(f, P),
         NEW x, Good(f, P, x)
  PROVE  Good(g, P, x)
<1>1. \A i \in Ids : MergeOf(g, P, i) = MergeOf(f, P, i)
  BY MergeSame
<1> QED BY <1>1 DEF Good, GoodAt

\* The two kinds of timely query hold a set that recall completes.
LEMMA TimelyHolds ==
  ASSUME StoreInv, ShardInv, GenInv, ReadInv, NEW r \in Readers,
         NewestBase \in resolved[r] \/ resolved[r] = grace_generation
  PROVE  Holds(resolved[r])
<1> DEFINE P == resolved[r]
           L == live_generation
<1>1. CASE P = grace_generation
  BY <1>1 DEF GenInv
<1>2. CASE NewestBase \in P
  <2>1. /\ P \subseteq L /\ P # {}
        /\ \A s \in P, t \in L : shards[t].lo <= shards[s].lo => t \in P
    BY <1>2 DEF ReadInv
  <2>2. /\ L \in SUBSET (1..Len(shards)) /\ Bands(shards, L, last_lsn) /\ Chain(shards, L)
        /\ Holds(L) /\ last_lsn \in Nat
    BY CovLive DEF GenInv, StoreInv
  <2>3. P \in SUBSET L /\ L \ P \subseteq Deltas
    BY <1>2, <2>1 DEF Deltas
  <2>9. \A d \in Deltas : \A i \in Ids : Mentions(d, i) => recall[i].lsn >= shards[d].lo
    BY DEF GenInv
  <2> HIDE DEF P, L
  <2>4. \A s \in L \ P : shards[s].lo > Cov(shards, P)
    BY <2>1, <2>2, <2>3, LowerPart
  <2>5. Bands(shards, P, last_lsn)
    BY <2>2, <2>3, BandsPart
  <2>6. /\ Cov(shards, P) \in 0..last_lsn
        /\ Cov(shards, P) = 0 \/ \E s \in P : shards[s].hi = Cov(shards, P)
    BY <2>5, CovIs
  <2>7. Cov(shards, L) \in 0..last_lsn /\ \A s \in L : shards[s].hi <= Cov(shards, L)
    BY <2>2, CovIs
  <2>8. Cov(shards, P) <= Cov(shards, L)
    BY <2>2, <2>3, <2>6, <2>7
  <2>10. ASSUME NEW i \in Ids, recall[i].lsn <= Cov(shards, P)
         PROVE  MergeOf(shards, P, i) = truth[i]
    <3>1. recall[i].lsn \in Nat
      BY DEF StoreInv, Row
    <3>2. recall[i].lsn <= Cov(shards, L)
      BY <2>2, <2>6, <2>7, <2>8, <2>10, <3>1
    <3>3. MergeOf(shards, L, i) = truth[i]
      BY <2>2, <3>2 DEF Holds
    <3>4. ASSUME NEW s \in L \ P PROVE ~ (shards[s].vecs[i] > 0) /\ i \notin shards[s].tombs
      <4>1. shards[s].lo > Cov(shards, P) /\ s \in Deltas
        BY <2>3, <2>4
      <4>2. shards[s].lo \in Nat
        BY <2>2, ShardFacts
      <4>3. Mentions(s, i) => recall[i].lsn >= shards[s].lo
        BY <2>9, <4>1
      <4>4. ~ Mentions(s, i)
        BY <2>2, <2>6, <2>10, <3>1, <4>1, <4>2, <4>3
      <4> QED BY <4>4 DEF Mentions
    <3>5. MergeOf(shards, P, i) = MergeOf(shards, L, i)
      BY <2>3, <3>4, MergePart
    <3> QED BY <3>3, <3>5
  <2> QED BY <2>10 DEF Holds, P
<1> QED BY <1>1, <1>2

\* What a set of shards holds, with the recall rows above its frontier, is the truth.
LEMMA HeldIs ==
  ASSUME StoreInv, NEW S, Chain(shards, S), Bands(shards, S, last_lsn), Holds(S), NEW i \in Ids
  PROVE  /\ frontier_watermark(S) = Cov(shards, S) /\ Cov(shards, S) \in Nat
         /\ recall[i].lsn \in Nat
         /\ recall[i].lsn > Cov(shards, S) => recall[i].lsn > 0 /\ Version(recall[i]) = truth[i]
         /\ ~ (recall[i].lsn > Cov(shards, S)) => MergeOf(shards, S, i) = truth[i]
<1>1. frontier_watermark(S) = Cov(shards, S)
  BY FrontierIs
<1>2. /\ last_lsn \in Nat /\ recall[i].lsn \in Nat
      /\ recall[i].lsn > 0 => Version(recall[i]) = truth[i]
  BY DEF StoreInv, Row
<1>3. Cov(shards, S) \in Nat
  BY <1>2, CovIs
<1>4. recall[i].lsn <= Cov(shards, S) => MergeOf(shards, S, i) = truth[i]
  BY DEF Holds
<1> QED BY <1>1, <1>2, <1>3, <1>4

\* A scan of a timely query.
LEMMA ScanIsGood ==
  ASSUME StoreInv, ShardInv, GenInv, ReadInv, ChainsRead, NEW r \in Readers,
         NewestBase \in resolved[r] \/ resolved[r] = grace_generation,
         NEW x, x.want = truth,
         x.rows = [i \in Ids |-> IF recall[i].lsn > frontier_watermark(resolved[r])
                                 THEN recall[i] ELSE NoRow]
  PROVE  Good(shards, resolved[r], x)
<1>1. Holds(resolved[r]) /\ Chain(shards, resolved[r])
  BY TimelyHolds DEF ChainsRead
<1>2. PICK P : P = resolved[r]
  OBVIOUS
<1>3. Holds(P) /\ Chain(shards, P) /\ P \in SUBSET (1..Len(shards))
  BY <1>1, <1>2 DEF ReadInv
<1>4. Bands(shards, P, last_lsn)
  BY <1>3, BandsOf
<1>5. ASSUME NEW i \in Ids PROVE GoodAt(shards, P, x, i)
  <2>1. /\ frontier_watermark(P) = Cov(shards, P) /\ Cov(shards, P) \in Nat
        /\ recall[i].lsn \in Nat
        /\ recall[i].lsn > Cov(shards, P) => recall[i].lsn > 0 /\ Version(recall[i]) = truth[i]
        /\ ~ (recall[i].lsn > Cov(shards, P)) => MergeOf(shards, P, i) = truth[i]
    BY <1>3, <1>4, HeldIs
  <2>2. x.rows[i] = IF recall[i].lsn > Cov(shards, P) THEN recall[i] ELSE NoRow
    BY <1>2, <2>1
  <2>3. CASE recall[i].lsn > Cov(shards, P)
    BY <2>1, <2>2, <2>3 DEF GoodAt
  <2>4. CASE ~ (recall[i].lsn > Cov(shards, P))
    <3>1. ~ (x.rows[i].lsn > 0)
      BY <2>2, <2>4 DEF NoRow
    <3> QED BY <2>1, <2>4, <3>1 DEF GoodAt
  <2> QED BY <2>3, <2>4
<1>6. Good(shards, P, x)
  BY <1>5 DEF Good
<1> QED BY <1>2, <1>6

\* The answer of a query that scanned does not change.
LEMMA AnswersStay ==
  ASSUME StoreInv, ShardInv, ReadInv, ChainsRead, Kept, NEW r \in Readers,
         Good(shards, resolved[r], scan[r])
  PROVE  Good(shards', resolved[r], scan[r])
<1>1. PICK f : f = shards
  OBVIOUS
<1>2. PICK g : g = shards'
  OBVIOUS
<1>3. PICK P : P = resolved[r]
  OBVIOUS
<1>4. PICK x : x = scan[r]
  OBVIOUS
<1>5. P \in SUBSET (1..Len(shards)) /\ Chain(shards, P)
  BY <1>3 DEF ReadInv, ChainsRead
<1>6. Bands(shards, P, last_lsn)
  BY <1>5, BandsOf
<1>7. Agree(f, g, P)
  BY <1>1, <1>2, <1>5 DEF Agree, Kept
<1>8. Bands(f, P, last_lsn) /\ Chain(f, P) /\ Good(f, P, x)
  BY <1>1, <1>3, <1>4, <1>5, <1>6
<1>9. Good(g, P, x)
  BY <1>7, <1>8, GoodSame
<1> QED BY <1>2, <1>3, <1>4, <1>9

\* Every step keeps timely answers right.
LEMMA AnswersStep ==
  ASSUME StoreInv, ShardInv, GenInv, SnapInv, JobInv, ReadInv, ChainsRead, AllGood,
         [Next]_vars
  PROVE  AllGood'
<1>0. Kept
  BY ShardStep
<1>g. ASSUME NEW q \in Readers, scan[q].done, scan[q].timely
      PROVE  Good(shards', resolved[q], scan[q])
  <2>1. Good(shards, resolved[q], scan[q])
    BY <1>g DEF AllGood
  <2> QED BY <1>0, <2>1, AnswersStay
<1>a. ASSUME UNCHANGED <<resolved, scan>> PROVE AllGood'
  BY <1>a, <1>g DEF AllGood
<1>1. ASSUME NEW i \in Ids, recall_upsert_vectors(i) PROVE AllGood'
  <2>1. UNCHANGED <<resolved, scan>>
    BY <1>1 DEF recall_upsert_vectors, Stamp, readVars
  <2> QED BY <2>1, <1>a
<1>2. ASSUME NEW i \in Deletable, recall_delete_vector(i) PROVE AllGood'
  <2>1. UNCHANGED <<resolved, scan>>
    BY <1>2 DEF recall_delete_vector, Stamp, readVars
  <2> QED BY <2>1, <1>a
<1>3. ASSUME Snapshot PROVE AllGood'
  <2>1. UNCHANGED <<resolved, scan>>
    BY <1>3 DEF Snapshot, readVars
  <2> QED BY <2>1, <1>a
<1>4. ASSUME NothingToFold PROVE AllGood'
  <2>1. UNCHANGED <<resolved, scan>>
    BY <1>4 DEF NothingToFold, EndRun, readVars
  <2> QED BY <2>1, <1>a
<1>5. ASSUME BuildDeltaFold PROVE AllGood'
  <2>1. UNCHANGED <<resolved, scan>>
    BY <1>5 DEF BuildDeltaFold, Put, readVars
  <2> QED BY <2>1, <1>a
<1>6. ASSUME CommitShard PROVE AllGood'
  <2>1. UNCHANGED <<resolved, scan>>
    BY <1>6 DEF CommitShard, readVars
  <2> QED BY <2>1, <1>a
<1>7. ASSUME Settle PROVE AllGood'
  <2>1. UNCHANGED <<resolved, scan>>
    BY <1>7 DEF Settle, Fault, readVars
  <2> QED BY <2>1, <1>a
<1>8. ASSUME SweepObjects PROVE AllGood'
  <2>1. UNCHANGED <<resolved, scan>>
    BY <1>8 DEF SweepObjects, readVars
  <2> QED BY <2>1, <1>a
<1>9. ASSUME SweepRows PROVE AllGood'
  <2>1. UNCHANGED <<resolved, scan>>
    BY <1>9 DEF SweepRows, Fault, readVars
  <2> QED BY <2>1, <1>a
<1>10. ASSUME SkipCompaction PROVE AllGood'
  <2>1. UNCHANGED <<resolved, scan>>
    BY <1>10 DEF SkipCompaction, Fault, readVars
  <2> QED BY <2>1, <1>a
<1>11. ASSUME major_compaction PROVE AllGood'
  <2>1. UNCHANGED <<resolved, scan>>
    BY <1>11 DEF major_compaction, Put, readVars
  <2> QED BY <2>1, <1>a
<1>12. ASSUME Trim PROVE AllGood'
  <2>1. UNCHANGED <<resolved, scan>>
    BY <1>12 DEF Trim, EndRun, Fault, readVars
  <2> QED BY <2>1, <1>a
<1>13. ASSUME Abort PROVE AllGood'
  <2>1. UNCHANGED <<resolved, scan>>
    BY <1>13 DEF Abort, EndRun, Fault, readVars
  <2> QED BY <2>1, <1>a
<1>14. ASSUME NEW r \in Readers, ResolveShard(r) PROVE AllGood'
  <2>1. /\ scan' = scan /\ resolved[r] = {}
        /\ \A q \in Readers : q # r => resolved'[q] = resolved[q]
    BY <1>14 DEF ResolveShard, ReadInv
  <2>2. ~ scan[r].done
    BY <2>1 DEF ReadInv
  <2>3. \A q \in Readers : scan[q].done => q # r
    BY <2>2
  <2>4. AllGood'
    BY <2>1, <2>3, <1>g DEF AllGood
  <2> QED BY <2>4
<1>15. ASSUME NEW r \in Readers, RecallSearch(r) PROVE AllGood'
  <2> DEFINE x == [done |-> TRUE,
                   timely |-> NewestBase \in resolved[r] \/ resolved[r] = grace_generation,
                   rows |-> [i \in Ids |-> IF recall[i].lsn > frontier_watermark(resolved[r])
                                           THEN recall[i] ELSE NoRow],
                   want |-> truth]
  <2>1. /\ scan' = [scan EXCEPT ![r] = x] /\ scan \in [Readers -> Scans]
        /\ resolved' = resolved /\ shards' = shards
    BY <1>15 DEF RecallSearch, ReadInv, catalogVars
  <2>2. /\ x.timely <=> NewestBase \in resolved[r] \/ resolved[r] = grace_generation
        /\ x.want = truth
        /\ x.rows = [i \in Ids |-> IF recall[i].lsn > frontier_watermark(resolved[r])
                                   THEN recall[i] ELSE NoRow]
    <3>1. x.timely = (NewestBase \in resolved[r] \/ resolved[r] = grace_generation)
      BY Zenon
    <3>2. /\ x.want = truth
          /\ x.rows = [i \in Ids |-> IF recall[i].lsn > frontier_watermark(resolved[r])
                                     THEN recall[i] ELSE NoRow]
      OBVIOUS
    <3> HIDE DEF x
    <3> QED BY <3>1, <3>2, Zenon
  <2> HIDE DEF x
  <2>3. x.timely => Good(shards, resolved[r], x)
    BY <2>2, ScanIsGood
  <2>4. scan'[r] = x /\ \A q \in Readers : q # r => scan'[q] = scan[q]
    BY <2>1
  <2>5. ASSUME NEW q \in Readers, scan'[q].done, scan'[q].timely
        PROVE  Good(shards', resolved'[q], scan'[q])
    <3>1. CASE q = r
      BY <2>1, <2>3, <2>4, <2>5, <3>1
    <3>2. CASE q # r
      BY <2>1, <2>4, <2>5, <3>2, <1>g
    <3> QED BY <3>1, <3>2
  <2>6. AllGood'
    BY <2>5 DEF AllGood
  <2> QED BY <2>6
<1>16. ASSUME NEW r \in Readers, Respond(r) PROVE AllGood'
  <2>1. /\ scan' = [scan EXCEPT ![r] = NoScan] /\ scan \in [Readers -> Scans]
        /\ \A q \in Readers : q # r => resolved'[q] = resolved[q]
    BY <1>16 DEF Respond, ReadInv
  <2>2. ~ scan'[r].done /\ \A q \in Readers : q # r => scan'[q] = scan[q]
    BY <2>1 DEF NoScan
  <2>3. \A q \in Readers : scan'[q].done => q # r
    BY <2>2
  <2>4. AllGood'
    BY <2>1, <2>2, <2>3, <1>g DEF AllGood
  <2> QED BY <2>4
<1>17. ASSUME UNCHANGED vars PROVE AllGood'
  <2>1. UNCHANGED <<resolved, scan>>
    BY <1>17 DEF vars, readVars
  <2> QED BY <2>1, <1>a
<1> QED
  BY <1>1, <1>2, <1>3, <1>4, <1>5, <1>6, <1>7, <1>8, <1>9, <1>10, <1>11, <1>12,
     <1>13, <1>14, <1>15, <1>16, <1>17
     DEF Next, Write, Consolidate, Read

-----------------------------------------------------------------------------
(* The invariant *)

\* The invariant holds at the start.
LEMMA DeltaInit == Init => DeltaInv
<1> SUFFICES ASSUME Init PROVE DeltaInv
  OBVIOUS
<1>1. NoRow \in Row
  BY DEF NoRow, Row
<1>2. StoreInv
  BY <1>1 DEF Init, StoreInv, NoRow
<1>3. ShardInv /\ Len(shards) = 0 /\ shards = <<>>
  BY DEF Init, ShardInv
<1>4. Bases = {}
  BY DEF Init, Bases
<1>5. NewestBase = 0 /\ PriorBase = 0
  BY <1>3, <1>4, BaseFacts
<1>6. live_generation = {} /\ grace_generation = {}
  BY <1>5 DEF live_generation, grace_generation
<1>7. GenInv
  <2>1. Chain(shards, {})
    BY DEF Chain, NoGap
  <2>2. \A i \in Ids : MergeOf(shards, {}, i) = truth[i]
    BY DEF MergeOf, Mentioning, Init
  <2>3. Holds({})
    BY <2>2 DEF Holds
  <2>4. Deltas = {}
    BY <1>6 DEF Deltas
  <2>5. \A s \in grace_generation : shards[s].hi <= shards[NewestBase].hi
    BY <1>6
  <2>6. \A S \in {live_generation, grace_generation} : Chain(shards, S) /\ Holds(S)
    BY <1>6, <2>1, <2>3
  <2> QED BY <2>4, <2>5, <2>6 DEF GenInv
<1>8. SnapInv /\ JobInv
  BY <1>1, <1>3 DEF Init, SnapInv, JobInv
<1>9. RestType
  <2>1. major \in BOOLEAN /\ pc = "idle" /\ stale \subseteq 1..Len(shards)
    BY DEF Init
  <2>2. row_count \in Nat /\ faults \in Nat
    BY DEF Init
  <2> QED BY <2>1, <2>2, Zenon DEF RestType
<1>10. ReadInv
  <2>1. NoScan \in Scans /\ ~ NoScan.done
    BY <1>1 DEF NoScan, Scans
  <2>2. resolved \in [Readers -> SUBSET (1..Len(shards))] /\ scan \in [Readers -> Scans]
    BY <2>1 DEF Init
  <2>3. \A r \in Readers : resolved[r] = {} /\ ~ scan[r].done
    BY <2>1 DEF Init
  <2> QED BY <2>2, <2>3 DEF ReadInv
<1>11. ChainsRead
  BY DEF Init, ChainsRead, Chain, NoGap
<1>12. RetainedReadable
  BY <1>6 DEF RetainedReadable
<1>13. AllGood
  <2>1. \A r \in Readers : ~ scan[r].done
    BY DEF Init, NoScan
  <2> QED BY <2>1 DEF AllGood
<1> QED BY <1>2, <1>3, <1>7, <1>8, <1>9, <1>10, <1>11, <1>12, <1>13 DEF DeltaInv

\* Every step keeps the invariant.
LEMMA DeltaStep == DeltaInv /\ [Next]_vars => DeltaInv'
<1> SUFFICES ASSUME DeltaInv, [Next]_vars PROVE DeltaInv'
  OBVIOUS
<1>1. /\ StoreInv /\ ShardInv /\ GenInv /\ SnapInv /\ JobInv /\ RestType /\ ReadInv
      /\ ChainsRead /\ RetainedReadable /\ AllGood
  BY DEF DeltaInv
<1>2. StoreInv' /\ SnapInv'
  BY <1>1, StoreStep, SnapStep
<1>3. ShardInv' /\ Kept
  BY <1>1, ShardStep
<1>4. RestType'
  BY <1>1, <1>3, RestStep
<1>5. GenInv' /\ JobInv'
  BY <1>1, GenStep, JobStep
<1>6. ReadInv' /\ ChainsRead'
  BY <1>1, ReadStep, ChainsStep
<1>7. RetainedReadable' /\ AllGood'
  BY <1>1, ObjectsStep, AnswersStep
<1> QED BY <1>2, <1>3, <1>4, <1>5, <1>6, <1>7 DEF DeltaInv

\* In every reachable state the retained generations are gapless chains of bands that,
\* with the recall rows above their frontiers, hold the last acknowledged writes; the
\* shard in a builder's hands is what its run makes of the newest generation; a query
\* holds a lower part of the newest generation or a generation that is no longer it.
THEOREM DeltaInvariant == Spec => []DeltaInv
<1>1. Init => DeltaInv
  BY DeltaInit
<1>2. DeltaInv /\ [Next]_vars => DeltaInv'
  BY DeltaStep
<1> QED BY <1>1, <1>2, PTL DEF Spec

-----------------------------------------------------------------------------
(* What it says *)

\* For any number of writes, folds, compactions, sweeps, trims and faults: merging the
\* newest or the prior generation the way a major compaction does, and laying the
\* recall rows above its frontier over it, gives every id what its last acknowledged
\* write left.  No fold or compaction drops an id or brings a deleted one back.
THEOREM CompactionKeepsTheData == Spec => []GenerationsHoldTruth
<1>1. DeltaInv => GenerationsHoldTruth
  <2> SUFFICES ASSUME DeltaInv, NEW S \in {live_generation, grace_generation}
               PROVE  Union(S, Merged(S)) = truth
    BY DEF GenerationsHoldTruth
  <2>1. StoreInv /\ ShardInv /\ GenInv
    BY DEF DeltaInv
  <2>2. S \in SUBSET (1..Len(shards)) /\ Chain(shards, S) /\ Holds(S)
    BY <2>1, GenFacts DEF GenInv
  <2>3. Bands(shards, S, last_lsn)
    BY <2>1, <2>2, BandsOf
  <2>4. ASSUME NEW i \in Ids PROVE Union(S, Merged(S))[i] = truth[i]
    <3>1. /\ frontier_watermark(S) = Cov(shards, S) /\ recall[i].lsn \in Nat
          /\ recall[i].lsn > Cov(shards, S) => Version(recall[i]) = truth[i]
          /\ ~ (recall[i].lsn > Cov(shards, S)) => MergeOf(shards, S, i) = truth[i]
      BY <2>1, <2>2, <2>3, HeldIs
    <3>2. Merged(S)[i] = MergeOf(shards, S, i)
      BY MergedIs
    <3> QED BY <3>1, <3>2 DEF Union, Overridden
  <2>5. Union(S, Merged(S)) = [i \in Ids |-> Union(S, Merged(S))[i]]
    BY DEF Union
  <2>6. truth = [i \in Ids |-> truth[i]]
    BY <2>1 DEF StoreInv
  <2> QED BY <2>4, <2>5, <2>6
<1> QED BY <1>1, DeltaInvariant, PTL

\* A query of the newest generation shows an id's last acknowledged write or nothing,
\* whatever its filter, its top_k cuts and the sidecars leave of the hits, unless what
\* it missed is a newer mention of that id; a deleted id whose tombstone some sidecar
\* translated is not shown even then.
THEOREM PoolingOnlyHides == Spec => []NeverStale
<1>1. DeltaInv => NeverStale
  <2> SUFFICES ASSUME DeltaInv PROVE NeverStale
    OBVIOUS
  <2>1. StoreInv /\ ShardInv /\ GenInv
    BY DEF DeltaInv
  <2>2. PICK S : S = live_generation
    OBVIOUS
  <2>3. S \in SUBSET (1..Len(shards)) /\ Chain(shards, S) /\ Holds(S)
    BY <2>1, <2>2, GenFacts DEF GenInv
  <2>4. Bands(shards, S, last_lsn)
    BY <2>1, <2>3, BandsOf
  <2>5. ASSUME NEW i \in Ids, NEW found \in SUBSET Holders(S, i), NEW mapped \in BOOLEAN,
               NEW seen, seen = Overridden(S, i, Searched(S, i, found, mapped))
        PROVE  /\ seen \in {0, truth[i]} \/ Missed(S, i, found, mapped)
               /\ mapped /\ truth[i] = 0 => seen = 0
    <3>1. /\ frontier_watermark(S) = Cov(shards, S)
          /\ recall[i].lsn > Cov(shards, S) => Version(recall[i]) = truth[i]
          /\ ~ (recall[i].lsn > Cov(shards, S)) => MergeOf(shards, S, i) = truth[i]
      BY <2>1, <2>3, <2>4, HeldIs
    <3>2. PICK hit : hit = Searched(S, i, found, mapped)
      OBVIOUS
    <3>3. CASE recall[i].lsn > Cov(shards, S)
      BY <2>5, <3>1, <3>3 DEF Overridden
    <3>4. CASE ~ (recall[i].lsn > Cov(shards, S))
      <4>1. seen = hit /\ MergeOf(shards, S, i) = truth[i]
        BY <2>5, <3>1, <3>2, <3>4 DEF Overridden
      <4>2. /\ hit \in {0, truth[i]} \/ Missed(S, i, found, mapped)
            /\ mapped /\ truth[i] = 0 => hit = 0
        BY <2>3, <2>4, <3>2, <4>1, SearchIs
      <4> QED BY <4>1, <4>2
    <3> QED BY <3>3, <3>4
  <2> QED BY <2>2, <2>5 DEF NeverStale
<1> QED BY <1>1, DeltaInvariant, PTL

\* A query that resolved the newest generation, at any moment of its life, or the whole
\* prior one, answers from shards and recall scan as of the scan, whatever folds,
\* compactions, sweeps and trims happen between its steps: it shows a stale copy of an
\* id only when it missed a newer mention of it, a deleted id whose tombstone was
\* translated not at all, and it is exact at every id that none of its deltas deletes
\* and none of its cuts takes away.
THEOREM OvertakenQueriesAnswer == Spec => []TimelyAnswers
<1>1. DeltaInv => TimelyAnswers
  <2> SUFFICES ASSUME DeltaInv, NEW r \in Readers, scan[r].done, scan[r].timely,
                      NEW i \in Ids, NEW found \in SUBSET Holders(resolved[r], i),
                      NEW mapped \in BOOLEAN, NEW answer, answer = Answer(r, i, found, mapped),
                      NEW want, want = scan[r].want[i]
               PROVE  /\ answer \in {0, want} \/ Missed(resolved[r], i, found, mapped)
                      /\ mapped /\ want = 0 => answer = 0
                      /\ Deleters(resolved[r], i) = {} /\ found = Holders(resolved[r], i) =>
                           answer = want
    BY DEF TimelyAnswers
  <2>1. StoreInv /\ ShardInv /\ ReadInv /\ ChainsRead /\ AllGood
    BY DEF DeltaInv
  <2>2. PICK P : P = resolved[r]
    OBVIOUS
  <2>3. P \in SUBSET (1..Len(shards)) /\ Chain(shards, P)
    BY <2>1, <2>2 DEF ReadInv, ChainsRead
  <2>4. Bands(shards, P, last_lsn)
    BY <2>1, <2>3, BandsOf
  <2>5. IF scan[r].rows[i].lsn > 0 THEN Version(scan[r].rows[i]) = want
                                   ELSE MergeOf(shards, P, i) = want
    BY <2>1, <2>2 DEF AllGood, Good, GoodAt
  <2>6. CASE scan[r].rows[i].lsn > 0
    BY <2>5, <2>6 DEF Answer
  <2>7. CASE ~ (scan[r].rows[i].lsn > 0)
    <3>1. PICK hit : hit = Searched(P, i, found, mapped)
      OBVIOUS
    <3>2. answer = hit /\ MergeOf(shards, P, i) = want
      BY <2>2, <2>5, <2>7, <3>1 DEF Answer
    <3>3. /\ hit \in {0, want} \/ Missed(P, i, found, mapped)
          /\ mapped /\ want = 0 => hit = 0
          /\ Deleters(P, i) = {} /\ found = Holders(P, i) => hit = want
      BY <2>2, <2>3, <2>4, <3>1, <3>2, SearchIs
    <3> QED BY <2>2, <3>2, <3>3
  <2> QED BY <2>6, <2>7
<1> QED BY <1>1, DeltaInvariant, PTL

\* No sweep takes an object of the two retained generations, and no commit makes a shard
\* live whose object is gone.
THEOREM RetainedObjectsStay == Spec => []RetainedReadable
<1>1. DeltaInv => RetainedReadable
  BY DEF DeltaInv
<1> QED BY <1>1, DeltaInvariant, PTL

\* FrontierIs for the state after a step.
LEMMA FrontierNext ==
  ASSUME NEW S, Chain(shards', S)
  PROVE  frontier_watermark(S)' = Cov(shards', S)
<1>1. \A s \in S : Contiguous(S, s)'
  BY DEF Contiguous, Chain, NoGap, CoveredHi, Cov
<1>2. {s \in S : Contiguous(S, s)'} = S
  BY <1>1
<1> QED BY <1>2 DEF frontier_watermark, CoveredHi, Cov

\* The frontier that queries scan recall above, and that tells a fold which rows are
\* new, never falls: not when a delta joins, not at a major compaction's cut-over, not
\* at a sweep, a crash or a failed call.
THEOREM FrontierIsMonotone == Spec => FrontierNeverRegresses
<1>1. ASSUME DeltaInv, DeltaInv', [Next]_vars
      PROVE  \A new \in {live_generation'} :
               frontier_watermark(new)' >= frontier_watermark(live_generation)
  <2>1. StoreInv /\ ShardInv /\ GenInv /\ SnapInv /\ JobInv
    BY <1>1 DEF DeltaInv
  <2>2. PICK L : L = live_generation
    OBVIOUS
  <2>3. PICK new : new = live_generation'
    OBVIOUS
  <2>4. Chain(shards, L) /\ L \in SUBSET (1..Len(shards))
    BY <2>1, <2>2, GenFacts DEF GenInv
  <2>5. GenInv'
    BY <1>1 DEF DeltaInv
  <2>6. Chain(shards', new)
    BY <2>3, <2>5 DEF GenInv
  <2>7. frontier_watermark(L) = Cov(shards, L) /\ frontier_watermark(new)' = Cov(shards', new)
    BY <2>4, <2>6, FrontierIs, FrontierNext
  <2>8. Bands(shards, L, last_lsn) /\ last_lsn \in Nat
    BY <2>1, <2>4, BandsOf DEF StoreInv
  <2>9. /\ Cov(shards, L) \in Nat
        /\ Cov(shards, L) = 0 \/ \E s \in L : shards[s].hi = Cov(shards, L)
    BY <2>8, CovIs
  <2>10. Cov(shards', new) >= Cov(shards, L)
    <3>1. Kept /\ (CommitShard \/ SameGenerations)
      BY <1>1, <2>1, ShardStep, GensStay
    <3>2. CASE SameGenerations
      <4>1. new = L
        BY <2>2, <2>3, <3>2 DEF SameGenerations
      <4>2. Cov(shards', L) = Cov(shards, L)
        BY <2>1, <2>4, <3>1, ReadSame
      <4> QED BY <2>9, <4>1, <4>2
    <3>3. CASE CommitShard
      <4>1. shards' = shards /\ upload \in 1..Len(shards) /\ Bands(shards, {upload}, last_lsn)
        BY <2>1, <3>3, CommitFacts
      <4>2. CASE /\ live_generation' = {upload}
                 /\ Cov(shards, live_generation) <= shards[upload].hi
                 /\ Cov(shards, {upload}) = shards[upload].hi
        <5>1. shards[upload].hi \in Nat
          BY <2>1, <4>1, ShardFacts
        <5> QED BY <2>2, <2>3, <2>9, <4>1, <4>2, <5>1
      <4>3. CASE live_generation' = live_generation \cup {upload}
        <5>1. L \in SUBSET new /\ new \in SUBSET (1..Len(shards))
          BY <2>2, <2>3, <2>4, <4>1, <4>3
        <5>2. Bands(shards, new, last_lsn)
          BY <2>1, <5>1, BandsOf
        <5>3. Cov(shards, new) \in 0..last_lsn /\ \A s \in new : shards[s].hi <= Cov(shards, new)
          BY <5>2, CovIs
        <5> QED BY <2>8, <2>9, <4>1, <5>1, <5>3
      <4> QED BY <2>1, <3>3, <4>2, <4>3, CommitCases
    <3> QED BY <3>1, <3>2, <3>3
  <2> QED BY <2>2, <2>3, <2>7, <2>10
<1>2. DeltaInv /\ DeltaInv' /\ [Next]_vars =>
        [\A new \in {live_generation'} :
           frontier_watermark(new)' >= frontier_watermark(live_generation)]_<<shards, catalog>>
  BY <1>1
<1> QED BY <1>2, DeltaInvariant, PTL DEF Spec, FrontierNeverRegresses

=============================================================================
