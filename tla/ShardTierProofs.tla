-------------------------- MODULE ShardTierProofs --------------------------
(***************************************************************************)
(* Proofs about ShardTier for every set of threads, every finite set of    *)
(* shards of any sizes, every budget and every selection of disturbances.  *)
(***************************************************************************)
EXTENDS ShardTier, WellFoundedInduction, FiniteSetTheorems, SequenceTheorems, TLAPS

NoDup(q) == \A k, l \in 1..Len(q) : q[k] = q[l] => k = l

\* _INFLIGHT names a thread for a shard exactly while that thread is at work on it.
SingleFlight == \A t \in Threads, u \in Uris : inflight[u] = t <=> Initiates(t, u)

\* Only what does not fit is rejected, and a resident shard always fits.
RejectedAreOut == \A t \in Threads : call[t].pc = "reject" => call[t].uri \notin Resident

BudgetInv ==
  /\ NoDup(lru)
  /\ bytes_used = Bytes(Resident)
  /\ bytes_used <= TierBytes

TierInv ==
  /\ TypeOK
  /\ BudgetInv
  /\ SingleFlight /\ WaitersAreOwed
  /\ NoRedundantDownload /\ RejectedAreOut /\ FilesAccounted

-----------------------------------------------------------------------------
(* Smallest members *)

\* A non-empty set of naturals has a least member.
LEMMA LeastNat ==
  ASSUME NEW T, T \subseteq Nat, T # {}
  PROVE  \E m \in T : \A k \in T : m <= k
<1>1. PICK m \in T : \A k \in T : ~ (<<k, m>> \in OpToRel(<, Nat))
  BY ONLY T \subseteq Nat, T # {}, WFMin, NatLessThanWellFounded, Zenon
<1>2. \A k \in T : ~ (k < m)
  BY <1>1 DEF OpToRel
<1>3. QED BY <1>2

\* Min of a non-empty set of naturals is its least member.
LEMMA MinIsLeast ==
  ASSUME NEW T, T \subseteq Nat, T # {}
  PROVE  Min(T) \in T /\ \A k \in T : Min(T) <= k
<1>1. \E m \in T : \A k \in T : m <= k
  BY LeastNat
<1>2. QED BY <1>1 DEF Min

\* A non-empty collection of finite sets has a member of which no proper part, one
\* element smaller, is a member: what minimal counterexamples are made of.
LEMMA SmallestSet ==
  ASSUME NEW C, C # {}, \A X \in C : IsFiniteSet(X)
  PROVE  \E X \in C : \A x \in X : X \ {x} \notin C
<1> DEFINE T == {Cardinality(X) : X \in C}
<1>1. T \subseteq Nat /\ T # {}
  BY FS_CardinalityType
<1>2. PICK m \in T : \A k \in T : m <= k
  BY <1>1, LeastNat
<1>3. PICK X \in C : Cardinality(X) = m
  OBVIOUS
<1>4. ASSUME NEW x \in X, X \ {x} \in C
      PROVE  FALSE
  <2>1. Cardinality(X \ {x}) = Cardinality(X) - 1
    BY FS_RemoveElement
  <2>2. Cardinality(X \ {x}) \in T
    BY <1>4
  <2>3. m \in Nat
    BY <1>1
  <2>4. QED BY <1>2, <1>3, <2>1, <2>2, <2>3
<1>5. QED BY <1>3, <1>4

-----------------------------------------------------------------------------
(* Sums of sizes *)

\* MapThenSumSet adds up a set by taking its elements out one by one.
Chosen(s) == CHOOSE x \in s : TRUE

Adds(D, g) ==
  g = [s \in D |-> IF s = {} THEN 0 ELSE Size[Chosen(s)] + g[s \ {Chosen(s)}]]

\* Bytes is such a function, if there is one.
LEMMA BytesIsSum ==
  ASSUME NEW S
  PROVE  Bytes(S) = (CHOOSE g : Adds(SUBSET S, g))[S]
BY DEF Bytes, MapThenSumSet, MapThenFoldSet, Adds, Chosen

\* There is one, layer by layer of the subsets.
LEMMA SumExists ==
  ASSUME NEW S, IsFiniteSet(S)
  PROVE  \E g : Adds(SUBSET S, g)
<1> DEFINE D(n) == {s \in SUBSET S : Cardinality(s) <= n}
           Bad == {n \in Nat : ~ \E g : Adds(D(n), g)}
<1>1. \A s \in SUBSET S : /\ IsFiniteSet(s) /\ Cardinality(s) \in Nat
                          /\ Cardinality(s) <= Cardinality(S)
                          /\ Cardinality(s) = 0 <=> s = {}
                          /\ s # {} => /\ Chosen(s) \in s /\ s \ {Chosen(s)} \in SUBSET S
                                       /\ Cardinality(s \ {Chosen(s)}) = Cardinality(s) - 1
  BY FS_Subset, FS_CardinalityType, FS_EmptySet, FS_RemoveElement DEF Chosen
<1>2. Bad = {}
  <2>1. SUFFICES ASSUME Bad # {} PROVE FALSE
    OBVIOUS
  <2>2. PICK m \in Bad : \A k \in Bad : m <= k
    BY <2>1, LeastNat
  <2>3. m # 0
    <3>1. D(0) = {{}}
      <4>1. \A s \in D(0) : s = {}
        <5>1. \A s \in D(0) : s \in SUBSET S /\ Cardinality(s) <= 0
          OBVIOUS
        <5>2. \A s \in D(0) : Cardinality(s) = 0
          <6>1. \A s \in D(0) : Cardinality(s) \in Nat
            BY <1>1, <5>1
          <6> HIDE DEF D
          <6>2. QED BY <5>1, <6>1
        <5>3. QED BY <1>1, <5>1, <5>2
      <4>2. {} \in D(0)
        BY FS_EmptySet
      <4>3. QED BY <4>1, <4>2
    <3>2. Adds(D(0), [s \in D(0) |-> 0])
      BY <3>1 DEF Adds
    <3>3. QED BY <3>2
  <2>4. m \in Nat /\ m - 1 \in Nat /\ m - 1 \notin Bad
    <3>1. m \in Nat
      OBVIOUS
    <3> HIDE DEF Bad
    <3>2. QED BY <2>2, <2>3, <3>1
  <2>5. PICK g : Adds(D(m - 1), g)
    BY <2>4
  <2> DEFINE h == [s \in D(m) |-> IF s \in D(m - 1) THEN g[s]
                                  ELSE Size[Chosen(s)] + g[s \ {Chosen(s)}]]
  <2>6. \A s \in D(m) : s # {} => s \ {Chosen(s)} \in D(m - 1)
    BY <1>1, <2>4
  <2>7. D(m - 1) \subseteq D(m)
    <3>1. \A s \in D(m - 1) : s \in SUBSET S /\ Cardinality(s) \in Nat /\ Cardinality(s) <= m - 1
      BY <1>1
    <3>2. QED BY <2>4, <3>1
  <2>8. \A s \in D(m - 1) : h[s] = g[s]
    BY <2>7
  <2>9. {} \in D(m - 1)
    BY <2>4, FS_EmptySet
  <2>10. \A s \in D(m - 1) : g[s] = IF s = {} THEN 0 ELSE Size[Chosen(s)] + g[s \ {Chosen(s)}]
    BY <2>5 DEF Adds
  <2>11. \A s \in D(m) : h[s] = IF s = {} THEN 0 ELSE Size[Chosen(s)] + g[s \ {Chosen(s)}]
    <3> HIDE DEF D
    <3>1. QED BY <2>7, <2>9, <2>10
  <2>12. h = [s \in D(m) |-> h[s]]
    OBVIOUS
  <2>13. Adds(D(m), h)
    <3> HIDE DEF h, D
    <3>1. \A s \in D(m) : h[s] = IF s = {} THEN 0 ELSE Size[Chosen(s)] + h[s \ {Chosen(s)}]
      BY <2>6, <2>8, <2>11
    <3>2. QED BY <2>12, <3>1 DEF Adds
  <2>14. QED BY <2>13
<1>3. Cardinality(S) \in Nat
  BY FS_CardinalityType
<1>4. D(Cardinality(S)) = SUBSET S
  BY <1>1
<1>5. QED BY <1>2, <1>3, <1>4

\* All of them agree.
LEMMA SumUnique ==
  ASSUME NEW S, NEW T, IsFiniteSet(S), T \subseteq S,
         NEW g, Adds(SUBSET S, g), NEW h, Adds(SUBSET T, h)
  PROVE  g[T] = h[T]
<1> DEFINE C == {X \in SUBSET T : g[X] # h[X]}
<1>1. \A X \in SUBSET T : IsFiniteSet(X)
  BY FS_Subset
<1>2. /\ \A X \in SUBSET T : g[X] = IF X = {} THEN 0 ELSE Size[Chosen(X)] + g[X \ {Chosen(X)}]
      /\ \A X \in SUBSET T : h[X] = IF X = {} THEN 0 ELSE Size[Chosen(X)] + h[X \ {Chosen(X)}]
  BY DEF Adds
<1>3. C = {}
  <2>1. SUFFICES ASSUME C # {} PROVE FALSE
    OBVIOUS
  <2>2. PICK X \in C : \A x \in X : X \ {x} \notin C
    BY <1>1, <2>1, SmallestSet
  <2>3. X # {}
    BY <1>2
  <2>4. Chosen(X) \in X
    BY <2>3 DEF Chosen
  <2>5. g[X \ {Chosen(X)}] = h[X \ {Chosen(X)}]
    BY <2>2, <2>4
  <2>6. QED BY <1>2, <2>3, <2>5
<1>4. QED BY <1>3

\* Bytes, unfolded at the element MapThenSumSet happens to take first.
LEMMA BytesUnfold ==
  ASSUME NEW S, S \subseteq Uris
  PROVE  Bytes(S) = IF S = {} THEN 0 ELSE Size[Chosen(S)] + Bytes(S \ {Chosen(S)})
<1> DEFINE G(T) == CHOOSE g : Adds(SUBSET T, g)
<1>1. \A T \in SUBSET S : IsFiniteSet(T) /\ Adds(SUBSET T, G(T))
  <2>1. ASSUME NEW T \in SUBSET S
        PROVE  IsFiniteSet(T) /\ Adds(SUBSET T, G(T))
    <3>1. IsFiniteSet(T)
      BY TierAssumption, FS_Subset
    <3>2. \E g : Adds(SUBSET T, g)
      BY <3>1, SumExists
    <3>3. QED BY <3>1, <3>2
  <2>2. QED BY <2>1
<1>2. \A T : Bytes(T) = G(T)[T]
  BY BytesIsSum
<1>3. G(S)[S] = IF S = {} THEN 0 ELSE Size[Chosen(S)] + G(S)[S \ {Chosen(S)}]
  <2>1. Adds(SUBSET S, G(S))
    BY <1>1
  <2> HIDE DEF G
  <2>2. QED BY <2>1 DEF Adds
<1>4. \A T \in SUBSET S : G(S)[T] = G(T)[T]
  <2> HIDE DEF G
  <2>1. QED BY <1>1, SumUnique
<1> HIDE DEF G
<1>5. QED BY <1>2, <1>3, <1>4

\* A sum of sizes is a natural number.
LEMMA BytesNat ==
  ASSUME NEW S, S \subseteq Uris
  PROVE  Bytes(S) \in Nat
<1> DEFINE C == {X \in SUBSET Uris : Bytes(X) \notin Nat}
<1>1. \A X \in SUBSET Uris : IsFiniteSet(X)
  BY TierAssumption, FS_Subset
<1>2. C = {}
  <2>1. SUFFICES ASSUME C # {} PROVE FALSE
    OBVIOUS
  <2>2. PICK X \in C : \A x \in X : X \ {x} \notin C
    BY <1>1, <2>1, SmallestSet
  <2>3. X # {}
    <3>1. Bytes({}) = 0
      BY BytesUnfold
    <3>2. QED BY <3>1
  <2>4. Chosen(X) \in X
    BY <2>3 DEF Chosen
  <2>5. Bytes(X \ {Chosen(X)}) \in Nat /\ Size[Chosen(X)] \in Nat
    BY <2>2, <2>4, TierAssumption
  <2>6. Bytes(X) = Size[Chosen(X)] + Bytes(X \ {Chosen(X)})
    BY <2>3, BytesUnfold
  <2>7. QED BY <2>5, <2>6
<1>3. QED BY <1>2

\* The empty set has no bytes; taking any element out takes its size away.
LEMMA BytesRemove ==
  ASSUME NEW S, S \subseteq Uris
  PROVE  /\ Bytes(S) \in Nat
         /\ Bytes({}) = 0
         /\ \A u \in S : Bytes(S) = Size[u] + Bytes(S \ {u})
<1> DEFINE Law(X) == Bytes(X) \in Nat /\ \A u \in X : Bytes(X) = Size[u] + Bytes(X \ {u})
           C == {X \in SUBSET Uris : ~Law(X)}
<1>1. \A X \in SUBSET Uris : IsFiniteSet(X)
  BY TierAssumption, FS_Subset
<1>2. Bytes({}) = 0
  BY BytesUnfold
<1>3. ASSUME NEW X \in SUBSET Uris, \A x \in X : Law(X \ {x})
      PROVE  Law(X)
  <2>1. CASE X = {}
    BY <1>2, <2>1
  <2>2. CASE X # {}
    <3> DEFINE a == Chosen(X)
    <3>1. a \in X
      BY <2>2 DEF Chosen
    <3>2. Bytes(X) = Size[a] + Bytes(X \ {a})
      BY <2>2, BytesUnfold
    <3> HIDE DEF a
    <3>3. \A u \in Uris : Size[u] \in Nat
      BY TierAssumption
    <3>4. Bytes(X) \in Nat
      BY <1>3, <3>1, <3>2, <3>3
    <3>5. ASSUME NEW u \in X
          PROVE  Bytes(X) = Size[u] + Bytes(X \ {u})
      <4>1. CASE u = a
        BY <3>2, <4>1
      <4>2. CASE u # a
        <5>1. Bytes(X \ {a}) = Size[u] + Bytes((X \ {a}) \ {u})
          BY <1>3, <3>1, <4>2
        <5>2. Bytes(X \ {u}) = Size[a] + Bytes((X \ {u}) \ {a})
          BY <1>3, <3>1, <4>2
        <5>3. (X \ {a}) \ {u} = (X \ {u}) \ {a}
          OBVIOUS
        <5>4. Bytes((X \ {u}) \ {a}) \in Nat
          BY BytesNat
        <5>5. QED BY <3>1, <3>2, <3>3, <5>1, <5>2, <5>3, <5>4, SMTT(30)
      <4>3. QED BY <4>1, <4>2
    <3>6. QED BY <3>4, <3>5
  <2>3. QED BY <2>1, <2>2
<1>4. C = {}
  <2>1. SUFFICES ASSUME C # {} PROVE FALSE
    OBVIOUS
  <2>2. PICK X \in C : \A x \in X : X \ {x} \notin C
    BY <1>1, <2>1, SmallestSet
  <2>3. \A x \in X : Law(X \ {x})
    BY <2>2
  <2>4. QED BY <1>3, <2>3
<1>5. QED BY <1>2, <1>4

\* Adding an element adds its size.
LEMMA BytesAdd ==
  ASSUME NEW S, S \subseteq Uris, NEW u \in Uris \ S
  PROVE  Bytes(S \cup {u}) = Bytes(S) + Size[u]
<1> DEFINE T == S \cup {u}
<1>1. T \subseteq Uris /\ u \in T /\ T \ {u} = S
  OBVIOUS
<1> HIDE DEF T
<1>2. Bytes(T) = Size[u] + Bytes(S)
  BY <1>1, BytesRemove
<1>3. Size[u] \in Nat /\ Bytes(S) \in Nat
  BY BytesNat, TierAssumption
<1>4. QED BY <1>2, <1>3 DEF T

\* Taking a part out takes its bytes out.
LEMMA BytesMinus ==
  ASSUME NEW S, S \subseteq Uris, NEW P, P \subseteq S
  PROVE  Bytes(S) = Bytes(P) + Bytes(S \ P)
<1> DEFINE Law(X) == Bytes(S) = Bytes(X) + Bytes(S \ X)
           C == {X \in SUBSET S : ~Law(X)}
<1>1. \A X \in SUBSET S : /\ IsFiniteSet(X) /\ X \subseteq Uris /\ S \ X \subseteq Uris
                          /\ Bytes(X) \in Nat /\ Bytes(S \ X) \in Nat
  BY TierAssumption, FS_Subset, BytesNat
<1>2. \A u \in Uris : Size[u] \in Nat
  BY TierAssumption
<1>3. C = {}
  <2>1. SUFFICES ASSUME C # {} PROVE FALSE
    OBVIOUS
  <2>2. PICK X \in C : \A x \in X : X \ {x} \notin C
    BY <1>1, <2>1, SmallestSet
  <2>3. X # {}
    <3>1. S \ {} = S
      OBVIOUS
    <3>2. Law({})
      <4>1. Bytes({}) = 0 /\ Bytes(S) \in Nat
        BY BytesRemove
      <4>2. QED BY <3>1, <4>1
    <3>3. QED BY <3>2
  <2>4. PICK x : x \in X
    BY <2>3
  <2>5. Bytes(S) = Bytes(X \ {x}) + Bytes(S \ (X \ {x}))
    BY <2>2, <2>4
  <2>6. Bytes(X) = Size[x] + Bytes(X \ {x})
    BY <1>1, <2>4, BytesRemove
  <2>7. Bytes(S \ (X \ {x})) = Bytes(S \ X) + Size[x]
    <3>1. S \ (X \ {x}) = (S \ X) \cup {x} /\ x \in Uris \ (S \ X)
      BY <2>4
    <3>2. QED BY <1>1, <3>1, BytesAdd
  <2>8. Bytes(X \ {x}) \in Nat /\ Bytes(S \ X) \in Nat /\ Size[x] \in Nat
    BY <1>1, <1>2, <2>4
  <2>9. Law(X)
    BY <2>5, <2>6, <2>7, <2>8
  <2>10. QED BY <2>9
<1>4. QED BY <1>3

-----------------------------------------------------------------------------
(* The LRU order *)

\* The members of a list, by index.
LEMMA Members ==
  ASSUME NEW S, NEW q \in Seq(S)
  PROVE  /\ Len(q) \in Nat /\ ToSet(q) \subseteq S
         /\ \A i \in 1..Len(q) : q[i] \in S /\ q[i] \in ToSet(q)
         /\ \A x \in ToSet(q) : \E i \in 1..Len(q) : q[i] = x
<1>1. DOMAIN q = 1..Len(q) /\ Len(q) \in Nat
  BY LenProperties
<1>2. \A i \in 1..Len(q) : q[i] \in S
  BY ElementOfSeq
<1>3. QED BY <1>1, <1>2 DEF ToSet

\* move_to_end, and insertion: a new last entry.
LEMMA AtMruEnd ==
  ASSUME NEW S, NEW q \in Seq(S), NoDup(q), NEW u \in S, u \notin ToSet(q)
  PROVE  /\ Append(q, u) \in Seq(S) /\ NoDup(Append(q, u))
         /\ ToSet(Append(q, u)) = ToSet(q) \cup {u}
<1> DEFINE r == Append(q, u)
<1>1. /\ r \in Seq(S) /\ Len(r) = Len(q) + 1 /\ Len(q) \in Nat
      /\ \A i \in 1..Len(q) : r[i] = q[i]
      /\ r[Len(q) + 1] = u
  BY AppendProperties, LenProperties
<1> HIDE DEF r
<1>2. \A i \in 1..Len(r) : i = Len(q) + 1 \/ i \in 1..Len(q)
  BY <1>1
<1>3. /\ \A i \in 1..Len(q) : i \in 1..Len(r)
      /\ Len(q) + 1 \in 1..Len(r)
  BY <1>1
<1>4. NoDup(r)
  BY <1>1, <1>2, Members DEF NoDup
<1>5. ToSet(r) = ToSet(q) \cup {u}
  <2>1. \A x \in ToSet(r) : x \in ToSet(q) \cup {u}
    BY <1>1, <1>2, Members
  <2>2. \A x \in ToSet(q) : x \in ToSet(r)
    BY <1>1, <1>3, Members
  <2>3. u \in ToSet(r)
    BY <1>1, <1>3, Members
  <2>4. QED BY <2>1, <2>2, <2>3
<1>6. QED BY <1>1, <1>4, <1>5 DEF r

\* The eviction loop leaves the entries above the last one it dropped.
LEMMA LruCut ==
  ASSUME NEW S, NEW q \in Seq(S), NoDup(q), NEW k \in 0..Len(q)
  PROVE  /\ SubSeq(q, k + 1, Len(q)) \in Seq(S) /\ NoDup(SubSeq(q, k + 1, Len(q)))
         /\ {q[i] : i \in 1..k} \subseteq ToSet(q)
         /\ ToSet(SubSeq(q, k + 1, Len(q))) = ToSet(q) \ {q[i] : i \in 1..k}
<1> DEFINE n == Len(q)
           r == SubSeq(q, k + 1, n)
<1>1. n \in Nat /\ k \in Nat /\ k <= n /\ \A i \in 1..n : q[i] \in S
  BY Members
<1>2. /\ r \in Seq(S) /\ Len(r) = n - k
      /\ \A i \in 1..(n - k) : r[i] = q[k + i]
  <2>1. k + 1 \in Int /\ n \in Int /\ \A i \in (k + 1)..n : q[i] \in S
    BY <1>1
  <2>2. /\ r \in Seq(S) /\ Len(r) = IF k + 1 <= n THEN n - (k + 1) + 1 ELSE 0
        /\ \A i \in 1..(n - (k + 1) + 1) : r[i] = q[(k + 1) + i - 1]
    <3> HIDE DEF n
    <3>1. QED BY <2>1, SubSeqProperties
  <2>3. QED BY <1>1, <2>2
<1> HIDE DEF r, n
<1>3. \A i \in 1..Len(r) : k + i \in 1..n /\ r[i] = q[k + i] /\ k + i \notin 1..k
  BY <1>1, <1>2
<1>4. \A j \in 1..n : j \notin 1..k => j - k \in 1..Len(r) /\ r[j - k] = q[j]
  BY <1>1, <1>2
<1>5. NoDup(r)
  <2>1. SUFFICES ASSUME NEW i \in 1..Len(r), NEW j \in 1..Len(r), r[i] = r[j]
                 PROVE  i = j
    BY DEF NoDup
  <2>2. k + i = k + j
    BY <2>1, <1>3 DEF NoDup, n
  <2>3. QED BY <1>1, <1>2, <2>2
<1>6. {q[i] : i \in 1..k} \subseteq ToSet(q)
  BY <1>1, Members DEF n
<1>7. ASSUME NEW x
      PROVE  x \in ToSet(r) <=> x \in ToSet(q) \ {q[i] : i \in 1..k}
  <2>1. ASSUME x \in ToSet(r)
        PROVE  x \in ToSet(q) \ {q[i] : i \in 1..k}
    <3>1. PICK i \in 1..Len(r) : r[i] = x
      BY <1>2, <2>1, Members
    <3>2. k + i \in 1..n /\ q[k + i] = x /\ k + i \notin 1..k
      BY <1>3, <3>1
    <3>3. \A j \in 1..k : j \in 1..n
      BY <1>1
    <3>4. \A j \in 1..k : q[j] # x
      BY <3>2, <3>3 DEF NoDup, n
    <3>5. QED BY <3>2, <3>4, Members DEF n
  <2>2. ASSUME x \in ToSet(q) \ {q[i] : i \in 1..k}
        PROVE  x \in ToSet(r)
    <3>1. PICK j \in 1..n : q[j] = x
      BY <2>2, Members DEF n
    <3>2. j \notin 1..k
      BY <2>2, <3>1
    <3>3. QED BY <1>2, <1>4, <3>1, <3>2, Members
  <2>3. QED BY <2>1, <2>2
<1>8. QED BY <1>2, <1>5, <1>6, <1>7 DEF r, n

\* pop: the other entries keep their order.
LEMMA LruPop ==
  ASSUME NEW S, NEW q \in Seq(S), NoDup(q), NEW u
  PROVE  /\ RemoveFirst(q, u) \in Seq(S) /\ NoDup(RemoveFirst(q, u))
         /\ ToSet(RemoveFirst(q, u)) = ToSet(q) \ {u}
<1> DEFINE n == Len(q)
<1>1. n \in Nat /\ \A i \in 1..n : q[i] \in S
  BY Members
<1>2. CASE \E i \in 1..n : q[i] = u
  <2> DEFINE I == {i \in 1..n : q[i] = u}
             k == Min(I)
             a == SubSeq(q, 1, k - 1)
             b == SubSeq(q, k + 1, n)
             r == a \o b
  <2>1. RemoveFirst(q, u) = r
    <3>1. I # {}
      BY <1>2
    <3>2. SelectInSeq(q, LAMBDA v : v = u) = k
      BY <3>1 DEF SelectInSeq
    <3>3. QED BY <1>2, <3>2 DEF RemoveFirst, RemoveAt
  <2>2. k \in 1..n /\ q[k] = u
    <3>1. I \subseteq Nat /\ I # {}
      BY <1>1, <1>2
    <3>2. k \in I
      BY <3>1, MinIsLeast
    <3>3. QED BY <3>2
  <2> HIDE DEF k
  <2>3. /\ a \in Seq(S) /\ Len(a) = k - 1
        /\ \A i \in 1..(k - 1) : a[i] = q[i]
    <3>1. 1 \in Int /\ k - 1 \in Int /\ \A i \in 1..(k - 1) : q[i] \in S
      BY <1>1, <2>2
    <3>2. /\ a \in Seq(S) /\ Len(a) = IF 1 <= k - 1 THEN (k - 1) - 1 + 1 ELSE 0
          /\ \A i \in 1..((k - 1) - 1 + 1) : a[i] = q[1 + i - 1]
      BY <3>1, SubSeqProperties
    <3>3. QED BY <1>1, <2>2, <3>2
  <2>4. /\ b \in Seq(S) /\ Len(b) = n - k
        /\ \A i \in 1..(n - k) : b[i] = q[k + i]
    <3>1. k + 1 \in Int /\ n \in Int /\ \A i \in (k + 1)..n : q[i] \in S
      BY <1>1, <2>2
    <3> HIDE DEF n
    <3>2. /\ b \in Seq(S) /\ Len(b) = IF k + 1 <= n THEN n - (k + 1) + 1 ELSE 0
          /\ \A i \in 1..(n - (k + 1) + 1) : b[i] = q[(k + 1) + i - 1]
      BY <3>1, SubSeqProperties
    <3>3. QED BY <1>1, <2>2, <3>2
  <2> HIDE DEF a, b, n
  <2>5. /\ r \in Seq(S) /\ Len(r) = Len(a) + Len(b)
        /\ \A i \in 1..Len(r) : r[i] = IF i <= Len(a) THEN a[i] ELSE b[i - Len(a)]
    <3>1. a \in Seq(S) /\ b \in Seq(S)
      BY <2>3, <2>4
    <3>2. QED BY ONLY <3>1, ConcatProperties
  <2> HIDE DEF r
  <2> DEFINE at(i) == IF i < k THEN i ELSE i + 1
  <2>6. Len(r) = n - 1 /\ \A i \in 1..Len(r) : at(i) \in 1..n /\ at(i) # k /\ r[i] = q[at(i)]
    <3>1. Len(r) = n - 1
      BY <1>1, <2>2, <2>3, <2>4, <2>5
    <3>2. \A i \in 1..Len(r) : at(i) \in 1..n /\ at(i) # k
      BY <1>1, <2>2, <3>1
    <3>3. ASSUME NEW i \in 1..Len(r), i < k
          PROVE  r[i] = q[i]
      BY <1>1, <2>2, <2>3, <2>5, <3>1, <3>3
    <3>4. ASSUME NEW i \in 1..Len(r), ~(i < k)
          PROVE  r[i] = q[i + 1]
      <4>1. ~(i <= Len(a)) /\ i - Len(a) \in 1..(n - k) /\ k + (i - Len(a)) = i + 1
        BY <1>1, <2>2, <2>3, <3>1, <3>4
      <4>2. QED BY <2>4, <2>5, <4>1
    <3>5. QED BY <3>1, <3>2, <3>3, <3>4
  <2>7. NoDup(r)
    <3>1. SUFFICES ASSUME NEW i \in 1..Len(r), NEW j \in 1..Len(r), r[i] = r[j]
                   PROVE  i = j
      BY DEF NoDup
    <3>2. at(i) = at(j)
      <4>1. at(i) \in 1..n /\ at(j) \in 1..n /\ q[at(i)] = q[at(j)]
        BY <2>6, <3>1
      <4> HIDE DEF at
      <4>2. QED BY <4>1 DEF NoDup, n
    <3>3. i \in Nat /\ j \in Nat /\ k \in Nat
      BY <2>2, <1>1
    <3>4. QED BY <3>2, <3>3
  <2>8. ASSUME NEW x
        PROVE  x \in ToSet(r) <=> x \in ToSet(q) \ {u}
    <3>1. ASSUME x \in ToSet(r)
          PROVE  x \in ToSet(q) \ {u}
      <4>1. PICK i \in 1..Len(r) : r[i] = x
        BY <2>5, <3>1, Members
      <4>2. at(i) \in 1..n /\ at(i) # k /\ q[at(i)] = x
        BY <2>6, <4>1
      <4>3. x # u
        BY <2>2, <4>2 DEF NoDup, n
      <4>4. QED BY <4>2, <4>3, Members DEF n
    <3>2. ASSUME x \in ToSet(q) \ {u}
          PROVE  x \in ToSet(r)
      <4>1. PICK j \in 1..n : q[j] = x
        BY <3>2, Members DEF n
      <4>2. j # k
        BY <2>2, <3>2, <4>1
      <4>3. PICK i \in 1..Len(r) : at(i) = j
        <5>1. CASE j < k
          <6>1. j \in 1..Len(r) /\ at(j) = j
            BY <1>1, <2>2, <2>6, <5>1
          <6>2. QED BY <6>1
        <5>2. CASE ~(j < k)
          <6>1. j - 1 \in 1..Len(r) /\ at(j - 1) = j
            BY <1>1, <2>2, <2>6, <4>2, <5>2
          <6>2. QED BY <6>1
        <5>3. QED BY <5>1, <5>2
      <4>4. QED BY <2>5, <2>6, <4>1, <4>3, Members
    <3>3. QED BY <3>1, <3>2
  <2>9. QED BY <2>1, <2>5, <2>7, <2>8
<1>3. CASE ~ \E i \in 1..n : q[i] = u
  <2>1. RemoveFirst(q, u) = q
    BY <1>3 DEF RemoveFirst
  <2>2. u \notin ToSet(q)
    BY <1>3, Members
  <2>3. QED BY <2>1, <2>2
<1>4. QED BY <1>2, <1>3

\* A list without repetitions is as long as the set of its members.
LEMMA LenIsCardinality ==
  ASSUME NEW S, NEW q \in Seq(S), NoDup(q)
  PROVE  Len(q) = Cardinality(ToSet(q))
<1>1. Len(q) \in Nat /\ DOMAIN q = 1..Len(q) /\ q \in [1..Len(q) -> ToSet(q)]
  BY LenProperties, Members
<1>2. q \in Bijection(1..Len(q), ToSet(q))
  BY <1>1, Members DEF NoDup, Bijection, Injection, Surjection, IsInjective
<1>3. ExistsBijection(1..Len(q), ToSet(q))
  BY <1>2 DEF ExistsBijection
<1>4. QED BY <1>1, <1>3, FS_CountingElements

-----------------------------------------------------------------------------
(* What the critical sections do to the table *)

\* A hit keeps the table's contents.
LEMMA TouchEffect ==
  ASSUME TypeOK, BudgetInv, NEW u \in Resident, Touch(u)
  PROVE  /\ lru' \in Seq(Uris) /\ NoDup(lru') /\ Resident' = Resident
         /\ UNCHANGED <<young, bytes_used>> /\ BudgetInv'
<1>1. lru \in Seq(Uris) /\ NoDup(lru) /\ u \in Uris
  BY Members DEF TypeOK, BudgetInv, Resident
<1> DEFINE q == RemoveFirst(lru, u)
<1>2. q \in Seq(Uris) /\ NoDup(q) /\ ToSet(q) = Resident \ {u}
  BY <1>1, LruPop DEF Resident
<1> HIDE DEF q
<1>3. /\ Append(q, u) \in Seq(Uris) /\ NoDup(Append(q, u))
      /\ ToSet(Append(q, u)) = ToSet(q) \cup {u}
  BY <1>1, <1>2, AtMruEnd
<1>4. lru' = Append(q, u) /\ UNCHANGED <<young, bytes_used>>
  BY DEF Touch, q
<1>5. Resident' = Resident
  BY <1>2, <1>3, <1>4 DEF Resident
<1>6. BudgetInv'
  BY <1>3, <1>4, <1>5 DEF BudgetInv
<1>7. QED BY <1>3, <1>4, <1>5, <1>6

\* An admission inserts the shard, drops some entries, and ends within the budget.
LEMMA AdmitEffect ==
  ASSUME TypeOK, BudgetInv, NEW u \in Uris, admit_locked(u)
  PROVE  /\ lru' \in Seq(Uris) /\ bytes_used' \in Nat /\ BudgetInv'
         /\ \E gone \in SUBSET (Resident \cup {u}) :
              /\ Resident' = (Resident \cup {u}) \ gone
              /\ young' = (young \cup {u}) \ gone
              /\ Unlink(gone)
<1> DEFINE q     == RemoveFirst(lru, u)
           order == Append(q, u)
           used  == bytes_used - (IF u \in Resident THEN Size[u] ELSE 0) + Size[u]
           K     == {k \in 0..Len(order) : \/ used - Bytes({order[i] : i \in 1..k}) <= TierBytes
                                           \/ k = Len(order)}
           k     == EvictCount(order, used)
           gone  == {order[i] : i \in 1..k}
<1>1. lru \in Seq(Uris) /\ NoDup(lru) /\ Resident \subseteq Uris
  BY Members DEF TypeOK, BudgetInv, Resident
<1>2. q \in Seq(Uris) /\ NoDup(q) /\ ToSet(q) = Resident \ {u}
  BY <1>1, LruPop DEF Resident
<1> HIDE DEF q
<1>3. order \in Seq(Uris) /\ NoDup(order) /\ ToSet(order) = Resident \cup {u}
  <2>1. ToSet(Append(q, u)) = ToSet(q) \cup {u}
    BY <1>2, AtMruEnd
  <2>2. QED BY <1>2, <2>1, AtMruEnd
<1>4. /\ lru' = SubSeq(order, k + 1, Len(order))
      /\ bytes_used' = used - Bytes(gone)
      /\ young' = (young \cup {u}) \ gone
      /\ Unlink(gone)
  BY DEF admit_locked, q
<1> HIDE DEF order
<1>5. used = Bytes(Resident \cup {u})
  <2>1. Size[u] \in Nat /\ bytes_used = Bytes(Resident) /\ bytes_used \in Nat
    BY TierAssumption DEF BudgetInv, TypeOK
  <2>2. CASE u \in Resident
    <3>1. Resident \cup {u} = Resident
      BY <2>2
    <3>2. used = bytes_used
      BY <2>1, <2>2
    <3> HIDE DEF used
    <3>3. QED BY <2>1, <3>1, <3>2
  <2>3. CASE u \notin Resident
    <3>1. Bytes(Resident \cup {u}) = Bytes(Resident) + Size[u]
      BY <1>1, <2>3, BytesAdd
    <3>2. used = bytes_used + Size[u]
      BY <2>1, <2>3
    <3> HIDE DEF used
    <3>3. QED BY <2>1, <3>1, <3>2
  <2>4. QED BY <2>2, <2>3
<1> HIDE DEF used
<1>6. k = Min(K)
  BY DEF EvictCount
<1>7. k \in K
  <2>1. Len(order) \in Nat
    BY <1>3, LenProperties
  <2>2. K \subseteq Nat
    BY <2>1
  <2>3. Len(order) \in K
    BY <2>1
  <2> HIDE DEF K, k
  <2>4. QED BY <1>6, <2>2, <2>3, MinIsLeast
<1> HIDE DEF k
<1>8. k \in 0..Len(order) /\ (used - Bytes(gone) <= TierBytes \/ k = Len(order))
  BY <1>7
<1>9. /\ lru' \in Seq(Uris) /\ NoDup(lru') /\ gone \subseteq ToSet(order)
      /\ ToSet(lru') = ToSet(order) \ gone
  BY <1>3, <1>4, <1>8, LruCut
<1>10. k = Len(order) => gone = ToSet(order)
  BY <1>3, <1>9, Members
<1> HIDE DEF gone
<1>11. Resident' = (Resident \cup {u}) \ gone
  BY <1>3, <1>9 DEF Resident
<1>12. bytes_used' = Bytes(Resident') /\ bytes_used' \in Nat
  <2>1. gone \subseteq Resident \cup {u} /\ Resident \cup {u} \subseteq Uris
    BY <1>1, <1>3, <1>9
  <2>2. Bytes(Resident \cup {u}) = Bytes(gone) + Bytes((Resident \cup {u}) \ gone)
    BY <2>1, BytesMinus
  <2>3. Bytes(gone) \in Nat /\ Bytes((Resident \cup {u}) \ gone) \in Nat
    BY <2>1, BytesNat
  <2>4. QED BY <1>4, <1>5, <1>11, <2>2, <2>3
<1>13. bytes_used' <= TierBytes
  <2>1. CASE used - Bytes(gone) <= TierBytes
    BY <1>4, <2>1
  <2>2. CASE k = Len(order)
    <3>1. Resident' = {}
      BY <1>3, <1>10, <1>11, <2>2
    <3>2. Bytes({}) = 0
      BY BytesRemove
    <3>3. QED BY <1>12, <3>1, <3>2, TierAssumption
  <2>3. QED BY <1>8, <2>1, <2>2
<1>14. BudgetInv'
  BY <1>9, <1>12, <1>13 DEF BudgetInv
<1>15. gone \in SUBSET (Resident \cup {u})
  BY <1>3, <1>9
<1>16. QED BY <1>4, <1>9, <1>11, <1>12, <1>14, <1>15

\* evict takes one entry and its bytes.
LEMMA EvictEffect ==
  ASSUME TypeOK, BudgetInv, NEW u \in Uris, evict(u)
  PROVE  /\ lru' \in Seq(Uris) /\ bytes_used' \in Nat /\ BudgetInv'
         /\ Resident' = Resident \ {u}
<1>1. lru \in Seq(Uris) /\ NoDup(lru) /\ Resident \subseteq Uris
  BY Members DEF TypeOK, BudgetInv, Resident
<1>2. lru' \in Seq(Uris) /\ NoDup(lru') /\ ToSet(lru') = Resident \ {u}
  BY <1>1, LruPop DEF Resident, evict
<1>3. Resident' = Resident \ {u}
  BY <1>2 DEF Resident
<1>4. Bytes(Resident) = Size[u] + Bytes(Resident \ {u})
  BY <1>1, BytesRemove DEF evict
<1>5. Size[u] \in Nat /\ Bytes(Resident \ {u}) \in Nat /\ TierBytes \in Nat
  BY <1>1, BytesNat, TierAssumption
<1>6. bytes_used = Bytes(Resident) /\ bytes_used <= TierBytes /\ bytes_used' = bytes_used - Size[u]
  BY DEF BudgetInv, evict
<1>7. bytes_used' = Bytes(Resident \ {u}) /\ bytes_used' <= TierBytes
  BY <1>4, <1>5, <1>6
<1>8. QED BY <1>2, <1>3, <1>5, <1>7 DEF BudgetInv

\* A resident shard always has the capacity it occupies.
LEMMA ResidentFits ==
  ASSUME TypeOK, BudgetInv, NEW u \in Resident
  PROVE  CapacityFor(u)
<1>1. u \in Uris
  BY Members DEF TypeOK, Resident
<1>2. Size[u] \in Nat /\ bytes_used \in Nat /\ bytes_used <= TierBytes
  BY <1>1, TierAssumption DEF TypeOK, BudgetInv
<1>3. bytes_used - (IF u \in Resident THEN Size[u] ELSE 0) + Size[u] = bytes_used
  BY <1>2
<1>4. QED BY <1>2, <1>3 DEF CapacityFor

-----------------------------------------------------------------------------
(* Calls *)

Plain == {"miss", "get", "admit", "reject", "woken", "open"}
Ended == {"pop", "set", "raised"}

\* The fields of a call by where it is.
LEMMA CallFields ==
  ASSUME NEW c \in Calls
  PROVE  /\ c.pc \in {"idle", "wait"} \cup Plain \cup Ended
         /\ c.pc \in Plain => c \in [pc : Plain, op : Ops, uri : Uris]
         /\ c.pc = "wait" => c \in [pc : {"wait"}, op : Ops, uri : Uris, on : Threads]
         /\ c.pc \in Ended => c \in [pc : Ended, op : Ops, uri : Uris, out : Outcomes]
         /\ c.pc # "idle" => c.op \in Ops /\ c.uri \in Uris
<1>1. CASE c = Idle
  BY <1>1 DEF Idle, Plain, Ended
<1>2. CASE c \in [pc : Plain, op : Ops, uri : Uris]
  BY <1>2 DEF Plain, Ended
<1>3. CASE c \in [pc : {"wait"}, op : Ops, uri : Uris, on : Threads]
  BY <1>3 DEF Plain, Ended
<1>4. CASE c \in [pc : Ended, op : Ops, uri : Uris, out : Outcomes]
  BY <1>4 DEF Plain, Ended
<1>5. QED BY <1>1, <1>2, <1>3, <1>4 DEF Calls, Plain, Ended

\* The calls the actions build.
LEMMA IdleCall == Idle \in Calls /\ Idle.pc = "idle"
BY DEF Calls, Idle

\* Calls at work, woken or returned.
LEMMA PlainCall ==
  ASSUME NEW a \in Plain, NEW op \in Ops, NEW u \in Uris
  PROVE  At(a, op, u) \in Calls /\ At(a, op, u).pc = a /\ At(a, op, u).uri = u
<1>1. At(a, op, u) \in [pc : Plain, op : Ops, uri : Uris]
  BY DEF At
<1>2. QED BY <1>1 DEF At, Calls, Plain

\* Calls that wait on another thread's event.
LEMMA WaitCall ==
  ASSUME NEW op \in Ops, NEW u \in Uris, NEW s \in Threads
  PROVE  LET c == [pc |-> "wait", op |-> op, uri |-> u, on |-> s]
         IN  c \in Calls /\ c.pc = "wait" /\ c.uri = u /\ c.on = s
BY DEF Calls

\* Calls whose outcome is known.
LEMMA EndedCall ==
  ASSUME NEW a \in Ended, NEW op \in Ops, NEW u \in Uris, NEW out \in Outcomes
  PROVE  LET c == [pc |-> a, op |-> op, uri |-> u, out |-> out]
         IN  c \in Calls /\ c.pc = a /\ c.uri = u
<1>1. [pc |-> a, op |-> op, uri |-> u, out |-> out]
         \in [pc : Ended, op : Ops, uri : Uris, out : Outcomes]
  OBVIOUS
<1>2. QED BY <1>1 DEF Calls, Ended

\* Steps that only move the program counter.
LEMMA MovedCalls ==
  ASSUME NEW c \in Calls
  PROVE  /\ c.pc \in Plain =>
              \A a \in Plain : LET d == [c EXCEPT !.pc = a]
                               IN  d \in Calls /\ d.pc = a /\ d.uri = c.uri
         /\ c.pc \in Ended =>
              \A a \in Ended : LET d == [c EXCEPT !.pc = a]
                               IN  d \in Calls /\ d.pc = a /\ d.uri = c.uri
<1>1. ASSUME c.pc \in Plain, NEW a \in Plain
      PROVE  LET d == [c EXCEPT !.pc = a] IN d \in Calls /\ d.pc = a /\ d.uri = c.uri
  <2>1. c \in [pc : Plain, op : Ops, uri : Uris]
    BY <1>1, CallFields
  <2>2. /\ [c EXCEPT !.pc = a] \in [pc : Plain, op : Ops, uri : Uris]
        /\ [c EXCEPT !.pc = a].pc = a /\ [c EXCEPT !.pc = a].uri = c.uri
    BY ONLY <2>1, a \in Plain
  <2>3. QED BY <2>2 DEF Calls, Plain
<1>2. ASSUME c.pc \in Ended, NEW a \in Ended
      PROVE  LET d == [c EXCEPT !.pc = a] IN d \in Calls /\ d.pc = a /\ d.uri = c.uri
  <2>1. c \in [pc : Ended, op : Ops, uri : Uris, out : Outcomes]
    BY <1>2, CallFields
  <2>2. /\ [c EXCEPT !.pc = a] \in [pc : Ended, op : Ops, uri : Uris, out : Outcomes]
        /\ [c EXCEPT !.pc = a].pc = a /\ [c EXCEPT !.pc = a].uri = c.uri
    BY ONLY <2>1, a \in Ended
  <2>3. QED BY <2>2 DEF Calls, Ended
<1>3. QED BY <1>1, <1>2

FlightInv == SingleFlight /\ WaitersAreOwed
FileInv   == NoRedundantDownload /\ RejectedAreOut /\ FilesAccounted

\* What a moved call looks like, and that nobody else's is disturbed.
LEMMA GoEffect ==
  ASSUME TypeOK, NEW t \in Threads, NEW c \in Calls, Go(t, c)
  PROVE  /\ call' \in [Threads -> Calls] /\ call'[t] = c
         /\ \A s \in Threads : s # t => call'[s] = call[s]
BY DEF TypeOK, Go

\* The step of a thread that keeps its part in the single flight: an initiator stays
\* one for its shard, or a thread that is none does not become one and nobody waits on it.
LEMMA FlightKept ==
  ASSUME TypeOK, FlightInv, NEW t \in Threads, NEW c \in Calls, Go(t, c), inflight' = inflight,
         c.pc # "wait",
         \/ call[t].pc \in InitiatorPcs /\ c.pc \in InitiatorPcs /\ c.uri = call[t].uri
         \/ call[t].pc \notin InitiatorPcs \cup {"set"} /\ c.pc \notin InitiatorPcs
  PROVE  FlightInv'
<1>1. /\ call'[t] = c
      /\ \A s \in Threads : s # t => call'[s] = call[s]
  BY GoEffect
<1>2. SingleFlight'
  <2>1. ASSUME NEW s \in Threads, NEW u \in Uris
        PROVE  Initiates(s, u)' <=> Initiates(s, u)
    BY <1>1 DEF Initiates
  <2>2. QED BY <2>1 DEF FlightInv, SingleFlight
<1>3. WaitersAreOwed'
  <2>1. SUFFICES ASSUME NEW s \in Threads, call'[s].pc = "wait"
                 PROVE  /\ call'[call'[s].on].pc \in InitiatorPcs \cup {"set"}
                        /\ call'[call'[s].on].uri = call'[s].uri
    BY DEF WaitersAreOwed
  <2>2. s # t /\ call'[s] = call[s]
    BY <1>1, <2>1
  <2>3. call[s].on \in Threads
    BY <2>1, <2>2, CallFields DEF TypeOK
  <2>4. call[call[s].on].pc \in InitiatorPcs \cup {"set"} /\ call[call[s].on].uri = call[s].uri
    BY <2>1, <2>2 DEF FlightInv, WaitersAreOwed
  <2>5. QED BY <1>1, <2>2, <2>3, <2>4
<1>4. QED BY <1>2, <1>3 DEF FlightInv

\* The step of a thread that leaves table and files alone.
LEMMA FilesKept ==
  ASSUME TypeOK, FileInv, NEW t \in Threads, NEW c \in Calls, Go(t, c),
         Resident' = Resident, UNCHANGED <<disk, stray, removed>>,
         c.pc = "get" => ~Warm(c.uri),
         c.pc = "reject" => c.uri \notin Resident,
         call[t].pc \in {"admit", "reject"} =>
           \/ c.pc \in {"admit", "reject"} /\ c.uri = call[t].uri
           \/ call[t].uri \notin disk \ (Resident \cup stray)
  PROVE  FileInv'
<1>1. /\ call'[t] = c
      /\ \A s \in Threads : s # t => call'[s] = call[s]
  BY GoEffect
<1>2. NoRedundantDownload'
  BY <1>1 DEF FileInv, NoRedundantDownload, Warm
<1>3. RejectedAreOut'
  BY <1>1 DEF FileInv, RejectedAreOut
<1>4. FilesAccounted'
  <2>1. ASSUME NEW x \in disk' \ (Resident' \cup stray')
        PROVE  \E s \in Threads : call'[s].pc \in {"admit", "reject"} /\ call'[s].uri = x
    <3>1. PICK s \in Threads : call[s].pc \in {"admit", "reject"} /\ call[s].uri = x
      BY <2>1 DEF FileInv, FilesAccounted
    <3>2. QED BY <1>1, <2>1, <3>1
  <2>2. Resident' \subseteq disk' \cup removed'
    BY DEF FileInv, FilesAccounted
  <2>3. QED BY <2>1, <2>2 DEF FilesAccounted
<1>5. QED BY <1>2, <1>3, <1>4 DEF FileInv

\* Two threads never work on the same shard.
LEMMA Alone ==
  ASSUME TypeOK, SingleFlight, NEW t \in Threads, NEW s \in Threads,
         call[t].pc \in InitiatorPcs, call[s].pc \in InitiatorPcs, call[s].uri = call[t].uri
  PROVE  s = t
<1>1. call[t].uri \in Uris
  BY CallFields DEF TypeOK, InitiatorPcs
<1>2. QED BY <1>1 DEF SingleFlight, Initiates

\* What an unlink leaves.
LEMMA UnlinkEffect ==
  ASSUME TypeOK, NEW V, Unlink(V)
  PROVE  /\ disk' \subseteq disk /\ disk \ V \subseteq disk'
         /\ disk' \cap V \subseteq stray' /\ stray \ V \subseteq stray'
         /\ stray' \subseteq disk' /\ removed' = removed \ V
BY DEF TypeOK, Unlink

\* The lookups: nothing changes, or an entry is touched.
LEMMA TableKept ==
  ASSUME TypeOK, BudgetInv,
         UNCHANGED residencyVars \/ \E u \in Resident : Touch(u)
  PROVE  /\ lru' \in Seq(Uris) /\ Resident' = Resident /\ UNCHANGED <<young, bytes_used>>
         /\ BudgetInv'
<1>1. CASE UNCHANGED residencyVars
  BY <1>1 DEF residencyVars, TypeOK, Resident, BudgetInv
<1>2. CASE \E u \in Resident : Touch(u)
  BY <1>2, TouchEffect
<1>3. QED BY <1>1, <1>2

\* A thread's step that changes neither files nor the single flight.
LEMMA QuietStep ==
  ASSUME TierInv, NEW t \in Threads, NEW c \in Calls, Go(t, c),
         UNCHANGED residencyVars \/ \E u \in Resident : Touch(u),
         UNCHANGED <<inflight, disk, stray, removed>>,
         c.pc \notin {"wait", "get"},
         \/ call[t].pc \in InitiatorPcs /\ c.pc \in InitiatorPcs /\ c.uri = call[t].uri
         \/ call[t].pc \notin InitiatorPcs \cup {"set"} /\ c.pc \notin InitiatorPcs,
         c.pc = "reject" => c.uri \notin Resident,
         call[t].pc \in {"admit", "reject"} =>
           \/ c.pc \in {"admit", "reject"} /\ c.uri = call[t].uri
           \/ call[t].uri \notin disk \ (Resident \cup stray)
  PROVE  TierInv'
<1>1. TypeOK /\ BudgetInv /\ FlightInv /\ FileInv
  BY DEF TierInv, FlightInv, FileInv
<1>2. /\ lru' \in Seq(Uris) /\ Resident' = Resident /\ UNCHANGED <<young, bytes_used>>
      /\ BudgetInv'
  BY <1>1, TableKept
<1>3. call' \in [Threads -> Calls]
  BY <1>1, GoEffect
<1>4. TypeOK'
  BY <1>1, <1>2, <1>3 DEF TypeOK
<1>5. FlightInv'
  BY <1>1, FlightKept
<1>6. FileInv'
  BY <1>1, <1>2, FilesKept
<1>7. QED BY <1>2, <1>4, <1>5, <1>6 DEF TierInv, FlightInv, FileInv

\* The fast path.
LEMMA CallStep ==
  ASSUME TierInv, NEW t \in Threads, NEW op \in Ops, NEW u \in Uris, Call(t, op, u)
  PROVE  TierInv'
<1>1. UNCHANGED <<inflight, disk, stray, removed>> /\ call[t].pc = "idle"
  BY DEF Call, fileVars
<1>2. PICK a \in {"open", "miss"} :
        /\ Go(t, At(a, op, u))
        /\ UNCHANGED residencyVars \/ \E v \in Resident : Touch(v)
  BY DEF Call, Return, Warm
<1>3. At(a, op, u) \in Calls /\ At(a, op, u).pc = a
  BY PlainCall DEF Plain
<1>4. QED BY <1>1, <1>2, <1>3, QuietStep DEF InitiatorPcs

\* The second look, after an event or on registration, finds the entry.
LEMMA LookAgain ==
  ASSUME TierInv, NEW t \in Threads, call[t].pc \in {"miss", "woken"},
         Warm(call[t].uri), Touch(call[t].uri), Go(t, Return(call[t].op, call[t].uri)),
         UNCHANGED <<inflight, fileVars>>
  PROVE  TierInv'
<1>1. call[t] \in Calls
  BY DEF TierInv, TypeOK
<1>2. call[t].op \in Ops /\ call[t].uri \in Uris
  BY <1>1, CallFields
<1>3. PICK c : c = Return(call[t].op, call[t].uri)
  OBVIOUS
<1>4. c \in Calls /\ c.pc = "open"
  BY <1>2, <1>3, PlainCall DEF Plain, Return
<1>5. UNCHANGED <<inflight, disk, stray, removed>>
  BY DEF fileVars
<1>6. \E u \in Resident : Touch(u)
  BY DEF Warm
<1>7. Go(t, c)
  BY <1>3
<1>8. QED BY <1>4, <1>5, <1>6, <1>7, QuietStep DEF InitiatorPcs

\* Registration: the second look, a wait on the initiator, or the initiator's part.
LEMMA RegisterStep ==
  ASSUME TierInv, NEW t \in Threads, Register(t)
  PROVE  TierInv'
<1> DEFINE u == call[t].uri
           op == call[t].op
<1>1. TypeOK /\ BudgetInv /\ FlightInv /\ FileInv
  BY DEF TierInv, FlightInv, FileInv
<1>2. call[t] \in Calls /\ call[t].pc = "miss"
  BY <1>1 DEF Register, TypeOK
<1>3. op \in Ops /\ u \in Uris
  BY <1>2, CallFields
<1>4. CASE Warm(u) /\ Touch(u) /\ Go(t, Return(op, u)) /\ UNCHANGED inflight
  BY <1>2, <1>4, LookAgain DEF Register
<1>5. ASSUME ~Warm(u), inflight[u] # NoThread, UNCHANGED <<residencyVars, inflight>>,
             Go(t, [pc |-> "wait", op |-> op, uri |-> u, on |-> inflight[u]])
      PROVE  TierInv'
  <2>1. UNCHANGED <<lru, young, bytes_used, inflight, disk, stray, removed>>
    BY <1>5 DEF Register, residencyVars, fileVars
  <2>2. PICK s \in Threads : s = inflight[u]
    BY <1>1, <1>3, <1>5 DEF TypeOK
  <2>3. PICK c : c = [pc |-> "wait", op |-> op, uri |-> u, on |-> s]
    OBVIOUS
  <2>4. c \in Calls /\ c.pc = "wait" /\ c.uri = u /\ c.on = s
    BY <1>3, <2>3, WaitCall
  <2>5. Go(t, c)
    BY <1>5, <2>2, <2>3
  <2>6. /\ call' \in [Threads -> Calls] /\ call'[t] = c
        /\ \A r \in Threads : r # t => call'[r] = call[r]
    BY <1>1, <2>4, <2>5, GoEffect
  <2>7. TypeOK'
    BY <1>1, <2>1, <2>6 DEF TypeOK, Resident
  <2>8. BudgetInv'
    BY <1>1, <2>1 DEF BudgetInv, Resident
  <2>9. FileInv'
    <3>1. Resident' = Resident
      BY <2>1 DEF Resident
    <3>2. QED BY <1>1, <1>2, <2>1, <2>4, <2>5, <3>1, FilesKept
  <2>10. SingleFlight'
    <3>1. ASSUME NEW r \in Threads, NEW x \in Uris
          PROVE  Initiates(r, x)' <=> Initiates(r, x)
      BY <1>2, <2>4, <2>6 DEF Initiates, InitiatorPcs
    <3>2. QED BY <1>1, <2>1, <3>1 DEF FlightInv, SingleFlight
  <2>11. WaitersAreOwed'
    <3>1. Initiates(s, u) /\ s # t
      BY <1>1, <1>2, <1>3, <2>2 DEF FlightInv, SingleFlight, Initiates, InitiatorPcs
    <3>2. ASSUME NEW r \in Threads, call'[r].pc = "wait"
          PROVE  /\ call'[call'[r].on].pc \in InitiatorPcs \cup {"set"}
                 /\ call'[call'[r].on].uri = call'[r].uri
      <4>1. CASE r = t
        BY <2>4, <2>6, <3>1, <4>1 DEF Initiates
      <4>2. CASE r # t
        <5>1. call'[r] = call[r]
          BY <2>6, <4>2
        <5>2. call[r].on \in Threads
          BY <1>1, <3>2, <5>1, CallFields DEF TypeOK
        <5>3. call[call[r].on].pc \in InitiatorPcs \cup {"set"} /\ call[call[r].on].uri = call[r].uri
          BY <1>1, <3>2, <5>1 DEF FlightInv, WaitersAreOwed
        <5>4. call[r].on # t
          BY <1>2, <5>3 DEF InitiatorPcs
        <5>5. QED BY <2>6, <5>1, <5>2, <5>3, <5>4
      <4>3. QED BY <4>1, <4>2
    <3>3. QED BY <3>2 DEF WaitersAreOwed
  <2>12. QED BY <2>7, <2>8, <2>9, <2>10, <2>11 DEF TierInv, FileInv
<1>6. ASSUME ~Warm(u), inflight[u] = NoThread, inflight' = [inflight EXCEPT ![u] = t],
             Step(t, "get"), UNCHANGED residencyVars
      PROVE  TierInv'
  <2>1. UNCHANGED <<lru, young, bytes_used, disk, stray, removed>>
    BY <1>6 DEF Register, residencyVars, fileVars
  <2>2. PICK c : c = [call[t] EXCEPT !.pc = "get"]
    OBVIOUS
  <2>3. c \in Calls /\ c.pc = "get" /\ c.uri = u
    BY <1>2, <2>2, MovedCalls DEF Plain
  <2>4. Go(t, c)
    BY <1>6, <2>2 DEF Step
  <2>5. /\ call' \in [Threads -> Calls] /\ call'[t] = c
        /\ \A r \in Threads : r # t => call'[r] = call[r]
    BY <1>1, <2>3, <2>4, GoEffect
  <2>6. TypeOK'
    BY <1>1, <1>3, <1>6, <2>1, <2>5 DEF TypeOK, Resident
  <2>7. BudgetInv'
    BY <1>1, <2>1 DEF BudgetInv, Resident
  <2>8. FileInv'
    <3>1. Resident' = Resident
      BY <2>1 DEF Resident
    <3>2. QED BY <1>1, <1>2, <1>6, <2>1, <2>3, <2>4, <3>1, FilesKept
  <2>9. SingleFlight'
    <3>1. SUFFICES ASSUME NEW r \in Threads, NEW x \in Uris
                   PROVE  inflight'[x] = r <=> Initiates(r, x)'
      BY DEF SingleFlight
    <3>2. CASE x = u
      <4>1. inflight'[x] = t
        BY <1>1, <1>3, <1>6, <3>2 DEF TypeOK
      <4>2. \A q \in Threads : ~Initiates(q, x)
        BY <1>1, <1>3, <1>6, <3>2, TierAssumption DEF FlightInv, SingleFlight
      <4>3. Initiates(t, x)'
        BY <2>3, <2>5, <3>2 DEF Initiates, InitiatorPcs
      <4>4. r # t => ~Initiates(r, x)'
        BY <2>5, <4>2 DEF Initiates
      <4>5. QED BY <4>1, <4>3, <4>4
    <3>3. CASE x # u
      <4>1. inflight'[x] = inflight[x]
        BY <1>1, <1>3, <1>6, <3>3 DEF TypeOK
      <4>2. Initiates(r, x)' <=> Initiates(r, x)
        BY <1>2, <2>3, <2>5, <3>3 DEF Initiates, InitiatorPcs
      <4>3. QED BY <1>1, <4>1, <4>2 DEF FlightInv, SingleFlight
    <3>4. QED BY <3>2, <3>3
  <2>10. WaitersAreOwed'
    <3>1. ASSUME NEW r \in Threads, call'[r].pc = "wait"
          PROVE  /\ call'[call'[r].on].pc \in InitiatorPcs \cup {"set"}
                 /\ call'[call'[r].on].uri = call'[r].uri
      <4>1. r # t /\ call'[r] = call[r]
        BY <2>3, <2>5, <3>1
      <4>2. call[r].on \in Threads
        BY <1>1, <3>1, <4>1, CallFields DEF TypeOK
      <4>3. call[call[r].on].pc \in InitiatorPcs \cup {"set"} /\ call[call[r].on].uri = call[r].uri
        BY <1>1, <3>1, <4>1 DEF FlightInv, WaitersAreOwed
      <4>4. call[r].on # t
        BY <1>2, <4>3 DEF InitiatorPcs
      <4>5. QED BY <2>5, <4>1, <4>2, <4>3, <4>4
    <3>2. QED BY <3>1 DEF WaitersAreOwed
  <2>11. QED BY <2>6, <2>7, <2>8, <2>9, <2>10 DEF TierInv, FileInv
<1>7. QED BY <1>4, <1>5, <1>6 DEF Register

\* The initiator's steps that only decide how the call ends.
LEMMA EndingStep ==
  ASSUME TierInv, NEW t \in Threads, call[t].pc \in {"get", "admit"}, NEW out \in Outcomes,
         Go(t, Ending(t, out)), UNCHANGED <<residencyVars, inflight, fileVars>>,
         call[t].pc = "admit" => call[t].uri \notin disk
  PROVE  TierInv'
<1>1. call[t] \in Calls
  BY DEF TierInv, TypeOK
<1>2. call[t].op \in Ops /\ call[t].uri \in Uris
  BY <1>1, CallFields
<1>3. PICK c : c = Ending(t, out)
  OBVIOUS
<1>4. c \in Calls /\ c.pc = "pop" /\ c.uri = call[t].uri
  BY <1>2, <1>3, EndedCall DEF Ended, Ending
<1>5. UNCHANGED <<inflight, disk, stray, removed>>
  BY DEF fileVars
<1>6. Go(t, c)
  BY <1>3
<1>7. QED BY <1>4, <1>5, <1>6, QuietStep DEF InitiatorPcs

\* A prewarm that does not fit.
LEMMA RejectStep ==
  ASSUME TierInv, NEW t \in Threads, RejectPrewarm(t)
  PROVE  TierInv'
<1>1. call[t] \in Calls /\ call[t].pc = "admit"
  BY DEF TierInv, TypeOK, RejectPrewarm
<1>2. PICK c : c = [call[t] EXCEPT !.pc = "reject"]
  OBVIOUS
<1>3. c \in Calls /\ c.pc = "reject" /\ c.uri = call[t].uri
  BY <1>1, <1>2, MovedCalls DEF Plain
<1>4. UNCHANGED <<inflight, disk, stray, removed>> /\ UNCHANGED residencyVars
  BY DEF RejectPrewarm, fileVars
<1>5. Go(t, c)
  BY <1>2 DEF RejectPrewarm, Step
<1>6. call[t].uri \notin Resident
  BY ResidentFits DEF RejectPrewarm, TierInv
<1>7. QED BY <1>1, <1>3, <1>4, <1>5, <1>6, QuietStep DEF InitiatorPcs

\* Waiters that wake up or give up, and calls that are over.
LEMMA OutsideStep ==
  ASSUME TierInv, NEW t \in Threads, Wake(t) \/ WaitTimesOut(t) \/ Resume(t)
  PROVE  TierInv'
<1>1. call[t] \in Calls /\ call[t].pc \in {"woken", "wait", "open", "raised"}
  BY DEF TierInv, TypeOK, Wake, WaitTimesOut, Resume
<1>2. call[t].op \in Ops /\ call[t].uri \in Uris
  BY <1>1, CallFields
<1>3. UNCHANGED <<inflight, disk, stray, removed>>
  BY DEF Wake, WaitTimesOut, Resume, fileVars
<1>4. ASSUME Warm(call[t].uri), Touch(call[t].uri), Go(t, Return(call[t].op, call[t].uri)),
             call[t].pc = "woken"
      PROVE  TierInv'
  BY <1>3, <1>4, LookAgain DEF fileVars
<1>5. ASSUME NEW out \in Outcomes, Go(t, Raise(call[t].op, call[t].uri, out)), UNCHANGED residencyVars
      PROVE  TierInv'
  <2>1. PICK c : c = Raise(call[t].op, call[t].uri, out)
    OBVIOUS
  <2>2. c \in Calls /\ c.pc = "raised"
    BY <1>2, <2>1, EndedCall DEF Ended, Raise
  <2>3. Go(t, c)
    BY <1>5, <2>1
  <2>4. QED BY <1>1, <1>3, <1>5, <2>2, <2>3, QuietStep DEF InitiatorPcs
<1>6. ASSUME Resume(t)
      PROVE  TierInv'
  <2>1. Go(t, Idle) /\ UNCHANGED residencyVars
    BY <1>6 DEF Resume
  <2>2. PICK c : c = Idle
    OBVIOUS
  <2>3. c \in Calls /\ c.pc = "idle" /\ Go(t, c)
    BY <2>1, <2>2, IdleCall
  <2>4. QED BY <1>1, <1>3, <2>1, <2>3, QuietStep DEF InitiatorPcs
<1>7. ASSUME Wake(t)
      PROVE  TierInv'
  <2>1. \/ Warm(call[t].uri) /\ Touch(call[t].uri) /\ Go(t, Return(call[t].op, call[t].uri))
        \/ /\ Go(t, Raise(call[t].op, call[t].uri, IF call[t].op = "fetch" THEN "missing" ELSE "full"))
           /\ UNCHANGED residencyVars
    BY <1>7 DEF Wake
  <2>2. (IF call[t].op = "fetch" THEN "missing" ELSE "full") \in Outcomes
    BY DEF Outcomes
  <2>3. call[t].pc = "woken"
    BY <1>7 DEF Wake
  <2>4. QED BY <1>4, <1>5, <2>1, <2>2, <2>3
<1>8. ASSUME WaitTimesOut(t)
      PROVE  TierInv'
  <2>1. Go(t, Raise(call[t].op, call[t].uri, "timeout")) /\ UNCHANGED residencyVars
    BY <1>8 DEF WaitTimesOut
  <2>2. "timeout" \in Outcomes
    BY DEF Outcomes
  <2>3. QED BY <1>5, <2>1, <2>2
<1>9. QED BY <1>6, <1>7, <1>8

\* The downloaded file appears under its local path.
LEMMA DownloadStep ==
  ASSUME TierInv, NEW t \in Threads, Download(t)
  PROVE  TierInv'
<1>1. TypeOK /\ BudgetInv /\ FlightInv /\ FileInv
  BY DEF TierInv, FlightInv, FileInv
<1>2. call[t] \in Calls /\ call[t].pc = "get"
  BY <1>1 DEF TypeOK, Download
<1>3. PICK u \in Uris : u = call[t].uri
  BY <1>2, CallFields
<1>4. PICK c : c = [call[t] EXCEPT !.pc = "admit"]
  OBVIOUS
<1>5. c \in Calls /\ c.pc = "admit" /\ c.uri = u
  BY <1>2, <1>3, <1>4, MovedCalls DEF Plain
<1>6. Go(t, c)
  BY <1>4 DEF Download, Step
<1>7. /\ call' \in [Threads -> Calls] /\ call'[t] = c
      /\ \A s \in Threads : s # t => call'[s] = call[s]
  BY <1>1, <1>5, <1>6, GoEffect
<1>8. /\ UNCHANGED <<lru, young, bytes_used, inflight>> /\ Resident' = Resident
      /\ disk' = disk \cup {u} /\ stray' = stray \ {u} /\ removed' = removed \ {u}
  BY <1>3 DEF Download, residencyVars, Resident
<1>9. TypeOK'
  BY <1>1, <1>7, <1>8 DEF TypeOK
<1>10. BudgetInv'
  BY <1>1, <1>8 DEF BudgetInv
<1>11. FlightInv'
  BY <1>1, <1>2, <1>3, <1>5, <1>6, <1>8, FlightKept DEF InitiatorPcs
<1>12. NoRedundantDownload'
  <2>1. SUFFICES ASSUME NEW s \in Threads, call'[s].pc = "get"
                 PROVE  ~(call'[s].uri \in Resident' /\ call'[s].uri \in disk')
    BY DEF NoRedundantDownload, Warm
  <2>2. s # t /\ call'[s] = call[s]
    BY <1>5, <1>7, <2>1
  <2>3. call[s].uri # u
    BY <1>1, <1>2, <1>3, <2>1, <2>2, Alone DEF FlightInv, InitiatorPcs
  <2>4. ~Warm(call[s].uri)
    BY <1>1, <2>1, <2>2 DEF FileInv, NoRedundantDownload
  <2>5. QED BY <1>8, <2>2, <2>3, <2>4 DEF Warm
<1>13. RejectedAreOut'
  BY <1>1, <1>5, <1>7, <1>8 DEF FileInv, RejectedAreOut
<1>14. FilesAccounted'
  <2>1. Resident' \subseteq disk' \cup removed'
    BY <1>1, <1>8 DEF FileInv, FilesAccounted
  <2>2. ASSUME NEW x \in disk' \ (Resident' \cup stray')
        PROVE  \E s \in Threads : call'[s].pc \in {"admit", "reject"} /\ call'[s].uri = x
    <3>1. CASE x = u
      BY <1>5, <1>7, <3>1
    <3>2. CASE x # u
      <4>1. PICK s \in Threads : call[s].pc \in {"admit", "reject"} /\ call[s].uri = x
        BY <1>1, <1>8, <2>2, <3>2 DEF FileInv, FilesAccounted
      <4>2. s # t
        BY <1>2, <4>1
      <4>3. QED BY <1>7, <4>1, <4>2
    <3>3. QED BY <3>1, <3>2
  <2>3. QED BY <2>1, <2>2 DEF FilesAccounted
<1>15. QED BY <1>9, <1>10, <1>11, <1>12, <1>13, <1>14 DEF TierInv, FlightInv

\* Files go with the entries of a set V; the shard u of t's call, if it is kept, is
\* among the entries.
LEMMA FilesGo ==
  ASSUME TypeOK, FlightInv, FileInv, NEW t \in Threads, NEW c \in Calls, Go(t, c), c.pc = "pop",
         call[t].pc \in {"admit", "reject"}, call[t].uri \in disk \/ call[t].uri \notin Resident',
         NEW V, Unlink(V), Resident' \cap V = {},
         Resident' \subseteq Resident \cup {call[t].uri}, Resident \ V \subseteq Resident',
         call[t].uri \in V \cup Resident'
  PROVE  FileInv'
<1> DEFINE u == call[t].uri
<1>1. /\ call'[t] = c
      /\ \A s \in Threads : s # t => call'[s] = call[s]
  BY GoEffect
<1>2. /\ disk' \subseteq disk /\ disk \ V \subseteq disk'
      /\ disk' \cap V \subseteq stray' /\ stray \ V \subseteq stray'
      /\ removed' = removed \ V
  BY UnlinkEffect
<1>3. \A s \in Threads : s # t /\ call[s].pc \in InitiatorPcs => call[s].uri # u
  BY Alone DEF FlightInv, InitiatorPcs
<1>4. NoRedundantDownload'
  <2>1. SUFFICES ASSUME NEW s \in Threads, call'[s].pc = "get"
                 PROVE  ~(call'[s].uri \in Resident' /\ call'[s].uri \in disk')
    BY DEF NoRedundantDownload, Warm
  <2>2. s # t /\ call'[s] = call[s]
    BY <1>1, <2>1
  <2>3. call[s].uri # u
    BY <1>3, <2>1, <2>2 DEF InitiatorPcs
  <2>4. ~Warm(call[s].uri)
    BY <2>1, <2>2 DEF FileInv, NoRedundantDownload
  <2>5. QED BY <1>2, <2>2, <2>3, <2>4 DEF Warm
<1>5. RejectedAreOut'
  <2>1. SUFFICES ASSUME NEW s \in Threads, call'[s].pc = "reject"
                 PROVE  call'[s].uri \notin Resident'
    BY DEF RejectedAreOut
  <2>2. s # t /\ call'[s] = call[s]
    BY <1>1, <2>1
  <2>3. call[s].uri # u
    BY <1>3, <2>1, <2>2 DEF InitiatorPcs
  <2>4. QED BY <2>1, <2>2, <2>3 DEF FileInv, RejectedAreOut
<1>6. FilesAccounted'
  <2>1. Resident' \subseteq disk' \cup removed'
    <3>1. Resident \subseteq disk \cup removed
      BY DEF FileInv, FilesAccounted
    <3>2. QED BY <1>2, <3>1
  <2>2. ASSUME NEW x \in disk' \ (Resident' \cup stray')
        PROVE  \E s \in Threads : call'[s].pc \in {"admit", "reject"} /\ call'[s].uri = x
    <3>1. x \notin V /\ x # u /\ x \in disk \ (Resident \cup stray)
      BY <1>2, <2>2
    <3>2. PICK s \in Threads : call[s].pc \in {"admit", "reject"} /\ call[s].uri = x
      BY <3>1 DEF FileInv, FilesAccounted
    <3>3. s # t
      BY <3>1, <3>2
    <3>4. QED BY <1>1, <3>2, <3>3
  <2>3. QED BY <2>1, <2>2 DEF FilesAccounted
<1>7. QED BY <1>4, <1>5, <1>6 DEF FileInv

\* Admission.
LEMMA AdmitStep ==
  ASSUME TierInv, NEW t \in Threads, Admit(t)
  PROVE  TierInv'
<1>1. TypeOK /\ BudgetInv /\ FlightInv /\ FileInv
  BY DEF TierInv, FlightInv, FileInv
<1>2. call[t] \in Calls /\ call[t].pc = "admit" /\ call[t].uri \in disk
  BY <1>1 DEF TypeOK, Admit
<1>3. PICK u \in Uris : u = call[t].uri
  BY <1>2, CallFields
<1>4. PICK c : c = Ending(t, "path")
  OBVIOUS
<1>5. c \in Calls /\ c.pc = "pop" /\ c.uri = u
  BY <1>2, <1>3, <1>4, CallFields, EndedCall DEF Ended, Ending, Outcomes
<1>6. Go(t, c) /\ admit_locked(u) /\ inflight' = inflight
  BY <1>3, <1>4 DEF Admit
<1>7. call' \in [Threads -> Calls]
  BY <1>1, <1>5, <1>6, GoEffect
<1>8. lru' \in Seq(Uris) /\ bytes_used' \in Nat /\ BudgetInv'
  BY <1>1, <1>6, AdmitEffect
<1>9. PICK gone \in SUBSET (Resident \cup {u}) :
        /\ Resident' = (Resident \cup {u}) \ gone
        /\ young' = (young \cup {u}) \ gone
        /\ Unlink(gone)
  BY <1>1, <1>6, AdmitEffect
<1>10. TypeOK'
  <2>1. young' \subseteq Resident'
    BY <1>1, <1>9 DEF TypeOK
  <2>2. disk' \subseteq disk /\ stray' \subseteq disk' /\ removed' = removed \ gone
    BY <1>1, <1>9, UnlinkEffect
  <2>3. QED BY <1>1, <1>6, <1>7, <1>8, <1>9, <2>1, <2>2 DEF TypeOK
<1>11. FlightInv'
  BY <1>1, <1>2, <1>3, <1>5, <1>6, FlightKept DEF InitiatorPcs
<1>12. FileInv'
  <2>1. /\ Resident' \cap gone = {} /\ Resident \ gone \subseteq Resident'
        /\ Resident' \subseteq Resident \cup {call[t].uri}
        /\ call[t].uri \in gone \cup Resident'
    BY <1>3, <1>9
  <2>2. QED BY <1>1, <1>2, <1>5, <1>6, <1>9, <2>1, FilesGo
<1>13. QED BY <1>8, <1>10, <1>11, <1>12 DEF TierInv, FlightInv, FileInv

\* The rejected file goes; its shard is not resident.
LEMMA UnlinkStep ==
  ASSUME TierInv, NEW t \in Threads, UnlinkRejected(t)
  PROVE  TierInv'
<1>1. TypeOK /\ BudgetInv /\ FlightInv /\ FileInv
  BY DEF TierInv, FlightInv, FileInv
<1>2. call[t] \in Calls /\ call[t].pc = "reject"
  BY <1>1 DEF TypeOK, UnlinkRejected
<1>3. PICK u \in Uris : u = call[t].uri
  BY <1>2, CallFields
<1>4. PICK c : c = Ending(t, "full")
  OBVIOUS
<1>5. c \in Calls /\ c.pc = "pop" /\ c.uri = u
  BY <1>2, <1>3, <1>4, CallFields, EndedCall DEF Ended, Ending, Outcomes
<1>6. /\ Go(t, c) /\ Unlink({u}) /\ UNCHANGED <<lru, young, bytes_used, inflight>>
      /\ Resident' = Resident
  BY <1>3, <1>4 DEF UnlinkRejected, residencyVars, Resident
<1>7. call' \in [Threads -> Calls]
  BY <1>1, <1>5, <1>6, GoEffect
<1>8. u \notin Resident
  BY <1>1, <1>2, <1>3 DEF FileInv, RejectedAreOut
<1>9. TypeOK'
  <2>1. disk' \subseteq disk /\ stray' \subseteq disk' /\ removed' = removed \ {u}
    BY <1>1, <1>6, UnlinkEffect
  <2>2. QED BY <1>1, <1>6, <1>7, <2>1 DEF TypeOK
<1>10. BudgetInv'
  BY <1>1, <1>6 DEF BudgetInv
<1>11. FlightInv'
  BY <1>1, <1>2, <1>3, <1>5, <1>6, FlightKept DEF InitiatorPcs
<1>12. FileInv'
  BY <1>1, <1>2, <1>3, <1>5, <1>6, <1>8, FilesGo
<1>13. QED BY <1>9, <1>10, <1>11, <1>12 DEF TierInv, FlightInv, FileInv

\* The registration goes; the event is still to be set.
LEMMA PopStep ==
  ASSUME TierInv, NEW t \in Threads, PopInflight(t)
  PROVE  TierInv'
<1>1. TypeOK /\ BudgetInv /\ FlightInv /\ FileInv
  BY DEF TierInv, FlightInv, FileInv
<1>2. call[t] \in Calls /\ call[t].pc = "pop"
  BY <1>1 DEF TypeOK, PopInflight
<1>3. PICK u \in Uris : u = call[t].uri
  BY <1>2, CallFields
<1>4. PICK c : c = [call[t] EXCEPT !.pc = "set"]
  OBVIOUS
<1>5. c \in Calls /\ c.pc = "set" /\ c.uri = u
  BY <1>2, <1>3, <1>4, MovedCalls DEF Ended
<1>6. /\ Go(t, c) /\ inflight' = [inflight EXCEPT ![u] = NoThread]
      /\ UNCHANGED <<lru, young, bytes_used, disk, stray, removed>>
  BY <1>3, <1>4 DEF PopInflight, Step, residencyVars, fileVars
<1>7. /\ call' \in [Threads -> Calls] /\ call'[t] = c
      /\ \A s \in Threads : s # t => call'[s] = call[s]
  BY <1>1, <1>5, <1>6, GoEffect
<1>8. TypeOK'
  BY <1>1, <1>6, <1>7 DEF TypeOK, Resident
<1>9. BudgetInv'
  BY <1>1, <1>6 DEF BudgetInv, Resident
<1>10. FileInv'
  <2>1. Resident' = Resident
    BY <1>6 DEF Resident
  <2>2. QED BY <1>1, <1>2, <1>5, <1>6, <2>1, FilesKept
<1>11. SingleFlight'
  <2>1. SUFFICES ASSUME NEW r \in Threads, NEW x \in Uris
                 PROVE  inflight'[x] = r <=> Initiates(r, x)'
    BY DEF SingleFlight
  <2>2. CASE x = u
    <3>1. inflight'[x] # r
      BY <1>1, <1>6, <2>2, TierAssumption DEF TypeOK
    <3>2. Initiates(t, u)
      BY <1>2, <1>3 DEF Initiates, InitiatorPcs
    <3>3. r # t => ~Initiates(r, u)
      BY <1>1, <3>2 DEF FlightInv, SingleFlight
    <3>4. ~Initiates(r, x)'
      BY <1>5, <1>7, <2>2, <3>3 DEF Initiates, InitiatorPcs
    <3>5. QED BY <3>1, <3>4
  <2>3. CASE x # u
    <3>1. inflight'[x] = inflight[x]
      BY <1>1, <1>6, <2>3 DEF TypeOK
    <3>2. Initiates(r, x)' <=> Initiates(r, x)
      BY <1>3, <1>5, <1>7, <2>3 DEF Initiates
    <3>3. QED BY <1>1, <3>1, <3>2 DEF FlightInv, SingleFlight
  <2>4. QED BY <2>2, <2>3
<1>12. WaitersAreOwed'
  <2>1. ASSUME NEW r \in Threads, call'[r].pc = "wait"
        PROVE  /\ call'[call'[r].on].pc \in InitiatorPcs \cup {"set"}
               /\ call'[call'[r].on].uri = call'[r].uri
    <3>1. r # t /\ call'[r] = call[r]
      BY <1>5, <1>7, <2>1
    <3>2. call[r].on \in Threads
      BY <1>1, <2>1, <3>1, CallFields DEF TypeOK
    <3>3. call[call[r].on].pc \in InitiatorPcs \cup {"set"} /\ call[call[r].on].uri = call[r].uri
      BY <1>1, <2>1, <3>1 DEF FlightInv, WaitersAreOwed
    <3>4. QED BY <1>3, <1>5, <1>7, <3>1, <3>2, <3>3
  <2>2. QED BY <2>1 DEF WaitersAreOwed
<1>13. QED BY <1>8, <1>9, <1>10, <1>11, <1>12 DEF TierInv, FileInv

\* The event wakes everybody who waits on it.
LEMMA SetStep ==
  ASSUME TierInv, NEW t \in Threads, SetEvent(t)
  PROVE  TierInv'
<1>1. TypeOK /\ BudgetInv /\ FlightInv /\ FileInv
  BY DEF TierInv, FlightInv, FileInv
<1>2. call[t] \in Calls /\ call[t].pc = "set"
  BY <1>1 DEF TypeOK, SetEvent
<1>3. UNCHANGED <<lru, young, bytes_used, disk, stray, removed, inflight>> /\ Resident' = Resident
  BY DEF SetEvent, residencyVars, fileVars, Resident
<1>4. call'[t] \in Calls /\ call'[t].pc \in {"open", "raised"}
  <2>1. call[t].op \in Ops /\ call[t].uri \in Uris /\ call[t].out \in Outcomes
    BY <1>2, CallFields DEF Ended
  <2>2. call'[t] = Return(call[t].op, call[t].uri) \/ call'[t] = Raise(call[t].op, call[t].uri, call[t].out)
    BY DEF SetEvent
  <2>3. Return(call[t].op, call[t].uri) \in Calls /\ Return(call[t].op, call[t].uri).pc = "open"
    BY <2>1, PlainCall DEF Return, Plain
  <2>4. /\ Raise(call[t].op, call[t].uri, call[t].out) \in Calls
        /\ Raise(call[t].op, call[t].uri, call[t].out).pc = "raised"
    BY <2>1, EndedCall DEF Raise, Ended
  <2>5. QED BY <2>2, <2>3, <2>4
<1>5. ASSUME NEW s \in Threads, s # t
      PROVE  /\ call'[s] \in Calls
             /\ call[s].pc = "wait" /\ call[s].on = t => call'[s].pc = "woken"
             /\ ~(call[s].pc = "wait" /\ call[s].on = t) => call'[s] = call[s]
  <2>1. call[s] \in Calls
    BY <1>1 DEF TypeOK
  <2>2. CASE call[s].pc = "wait" /\ call[s].on = t
    <3>1. call'[s] = At("woken", call[s].op, call[s].uri)
      BY <1>5, <2>2 DEF SetEvent
    <3>2. call[s].op \in Ops /\ call[s].uri \in Uris
      BY <2>1, <2>2, CallFields
    <3>3. At("woken", call[s].op, call[s].uri) \in Calls /\ At("woken", call[s].op, call[s].uri).pc = "woken"
      BY <3>2, PlainCall DEF Plain
    <3>4. QED BY <2>2, <3>1, <3>3
  <2>3. CASE ~(call[s].pc = "wait" /\ call[s].on = t)
    BY <1>5, <2>1, <2>3 DEF SetEvent
  <2>4. QED BY <2>2, <2>3
<1>6. call' \in [Threads -> Calls]
  <2>1. call' = [s \in Threads |-> call'[s]]
    BY DEF SetEvent
  <2>2. \A s \in Threads : call'[s] \in Calls
    BY <1>4, <1>5
  <2>3. QED BY <2>1, <2>2
<1>7. TypeOK'
  BY <1>1, <1>3, <1>6 DEF TypeOK
<1>8. BudgetInv'
  BY <1>1, <1>3 DEF BudgetInv
<1>9. \A s \in Threads : call'[s].pc \in InitiatorPcs \/ call[s].pc \in InitiatorPcs => call'[s] = call[s]
  BY <1>2, <1>4, <1>5 DEF InitiatorPcs
<1>10. SingleFlight'
  <2>1. \A s \in Threads, x \in Uris : Initiates(s, x)' <=> Initiates(s, x)
    BY <1>9 DEF Initiates
  <2>2. QED BY <1>1, <1>3, <2>1 DEF FlightInv, SingleFlight
<1>11. FileInv'
  <2>1. NoRedundantDownload'
    BY <1>1, <1>3, <1>9 DEF FileInv, NoRedundantDownload, Warm, InitiatorPcs
  <2>2. RejectedAreOut'
    BY <1>1, <1>3, <1>9 DEF FileInv, RejectedAreOut, InitiatorPcs
  <2>3. FilesAccounted'
    <3>1. ASSUME NEW x \in disk' \ (Resident' \cup stray')
          PROVE  \E s \in Threads : call'[s].pc \in {"admit", "reject"} /\ call'[s].uri = x
      <4>1. PICK s \in Threads : call[s].pc \in {"admit", "reject"} /\ call[s].uri = x
        BY <1>1, <1>3, <3>1 DEF FileInv, FilesAccounted
      <4>2. QED BY <1>9, <4>1 DEF InitiatorPcs
    <3>2. QED BY <1>1, <1>3, <3>1 DEF FileInv, FilesAccounted
  <2>4. QED BY <2>1, <2>2, <2>3 DEF FileInv
<1>12. WaitersAreOwed'
  <2>1. ASSUME NEW r \in Threads, call'[r].pc = "wait"
        PROVE  /\ call'[call'[r].on].pc \in InitiatorPcs \cup {"set"}
               /\ call'[call'[r].on].uri = call'[r].uri
    <3>1. r # t
      BY <1>4, <2>1
    <3>2. call'[r] = call[r] /\ call[r].pc = "wait" /\ call[r].on # t
      BY <1>5, <2>1, <3>1
    <3>3. call[r].on \in Threads
      BY <1>1, <3>2, CallFields DEF TypeOK
    <3>4. call[call[r].on].pc \in InitiatorPcs \cup {"set"} /\ call[call[r].on].uri = call[r].uri
      BY <1>1, <3>2 DEF FlightInv, WaitersAreOwed
    <3>5. call'[call[r].on] = call[call[r].on]
      BY <1>5, <3>2, <3>3, <3>4 DEF InitiatorPcs
    <3>6. QED BY <3>2, <3>4, <3>5
  <2>2. QED BY <2>1 DEF WaitersAreOwed
<1>13. QED BY <1>7, <1>8, <1>10, <1>11, <1>12 DEF TierInv, FileInv

\* Steps without a call: an entry goes or ages, files are cleaned up by hand.
LEMMA WorldStep ==
  ASSUME TierInv, NEW u \in Uris, evict(u) \/ Mature(u) \/ OperatorRemoves(u)
  PROVE  TierInv'
<1>1. TypeOK /\ BudgetInv /\ FlightInv /\ FileInv
  BY DEF TierInv, FlightInv, FileInv
<1>2. UNCHANGED <<inflight, call>>
  BY DEF evict, Mature, OperatorRemoves
<1>3. FlightInv'
  BY <1>1, <1>2 DEF FlightInv, SingleFlight, WaitersAreOwed, Initiates
<1>4. ASSUME evict(u)
      PROVE  TypeOK' /\ BudgetInv' /\ FileInv'
  <2>1. lru' \in Seq(Uris) /\ bytes_used' \in Nat /\ BudgetInv' /\ Resident' = Resident \ {u}
    BY <1>1, <1>4, EvictEffect
  <2>2. /\ disk' \subseteq disk /\ disk \ {u} \subseteq disk'
        /\ disk' \cap {u} \subseteq stray' /\ stray \ {u} \subseteq stray'
        /\ stray' \subseteq disk' /\ removed' = removed \ {u}
    BY <1>1, <1>4, UnlinkEffect DEF evict
  <2>3. young' = young \ {u}
    BY <1>4 DEF evict
  <2>4. TypeOK'
    BY <1>1, <1>2, <2>1, <2>2, <2>3 DEF TypeOK
  <2>5. NoRedundantDownload' /\ RejectedAreOut'
    BY <1>1, <1>2, <2>1, <2>2 DEF FileInv, NoRedundantDownload, RejectedAreOut, Warm
  <2>6. FilesAccounted'
    BY <1>1, <1>2, <2>1, <2>2 DEF FileInv, FilesAccounted
  <2>7. QED BY <2>1, <2>4, <2>5, <2>6 DEF FileInv
<1>5. ASSUME Mature(u)
      PROVE  TypeOK' /\ BudgetInv' /\ FileInv'
  <2>1. /\ UNCHANGED <<lru, bytes_used, disk, stray, removed>> /\ Resident' = Resident
        /\ young' = young \ {u}
    BY <1>5 DEF Mature, fileVars, Resident
  <2>2. TypeOK'
    BY <1>1, <1>2, <2>1 DEF TypeOK
  <2>3. BudgetInv'
    BY <1>1, <2>1 DEF BudgetInv
  <2>4. FileInv'
    BY <1>1, <1>2, <2>1 DEF FileInv, NoRedundantDownload, RejectedAreOut, FilesAccounted, Warm
  <2>5. QED BY <2>2, <2>3, <2>4
<1>6. ASSUME OperatorRemoves(u)
      PROVE  TypeOK' /\ BudgetInv' /\ FileInv'
  <2>1. /\ UNCHANGED <<lru, young, bytes_used>> /\ Resident' = Resident
        /\ disk' = disk \ {u} /\ stray' = stray \ {u} /\ removed' = removed \cup ({u} \cap Resident)
    BY <1>6 DEF OperatorRemoves, residencyVars, Resident
  <2>2. TypeOK'
    BY <1>1, <1>2, <2>1 DEF TypeOK
  <2>3. BudgetInv'
    BY <1>1, <2>1 DEF BudgetInv
  <2>4. NoRedundantDownload' /\ RejectedAreOut'
    BY <1>1, <1>2, <2>1 DEF FileInv, NoRedundantDownload, RejectedAreOut, Warm
  <2>5. FilesAccounted'
    BY <1>1, <1>2, <2>1 DEF FileInv, FilesAccounted
  <2>6. QED BY <2>2, <2>3, <2>4, <2>5 DEF FileInv
<1>7. TypeOK' /\ BudgetInv' /\ FileInv'
  BY <1>4, <1>5, <1>6
<1>8. QED BY <1>3, <1>7 DEF TierInv, FlightInv, FileInv

\* An empty table with no calls: the start of the process, whatever files it finds.
LEMMA FreshTable ==
  ASSUME lru = <<>>, young = {}, bytes_used = 0, inflight = [u \in Uris |-> NoThread],
         call = [t \in Threads |-> Idle], disk \subseteq Uris, stray = disk, removed = {}
  PROVE  TierInv
<1>1. Resident = {}
  BY DEF Resident, ToSet
<1>2. TypeOK
  BY <1>1, IdleCall DEF TypeOK
<1>3. Bytes({}) = 0
  BY BytesRemove
<1>4. NoDup(lru)
  BY DEF NoDup
<1>5. BudgetInv
  BY <1>1, <1>3, <1>4, TierAssumption DEF BudgetInv
<1>6. \A t \in Threads : call[t].pc = "idle"
  BY IdleCall
<1>7. SingleFlight /\ WaitersAreOwed
  BY <1>6, TierAssumption DEF SingleFlight, WaitersAreOwed, Initiates, InitiatorPcs
<1>8. NoRedundantDownload /\ RejectedAreOut /\ FilesAccounted
  BY <1>1, <1>6 DEF NoRedundantDownload, RejectedAreOut, FilesAccounted
<1>9. QED BY <1>2, <1>5, <1>7, <1>8 DEF TierInv

\* The same at the end of a step.
LEMMA FreshTableNext ==
  ASSUME lru' = <<>>, young' = {}, bytes_used' = 0, inflight' = [u \in Uris |-> NoThread],
         call' = [t \in Threads |-> Idle], disk' \subseteq Uris, stray' = disk', removed' = {}
  PROVE  TierInv'
<1>1. Resident' = {}
  BY DEF Resident, ToSet
<1>2. TypeOK'
  BY <1>1, IdleCall DEF TypeOK
<1>3. Bytes({}) = 0
  BY BytesRemove
<1>4. NoDup(lru')
  BY DEF NoDup
<1>5. BudgetInv'
  BY <1>1, <1>3, <1>4, TierAssumption DEF BudgetInv
<1>6. \A t \in Threads : call'[t].pc = "idle"
  BY IdleCall
<1>7. SingleFlight' /\ WaitersAreOwed'
  BY <1>6, TierAssumption DEF SingleFlight, WaitersAreOwed, Initiates, InitiatorPcs
<1>8. NoRedundantDownload' /\ RejectedAreOut' /\ FilesAccounted'
  BY <1>1, <1>6 DEF NoRedundantDownload, RejectedAreOut, FilesAccounted
<1>9. QED BY <1>2, <1>5, <1>7, <1>8 DEF TierInv

-----------------------------------------------------------------------------
(* Theorems *)

\* Every step keeps TierInv.
LEMMA TierStep ==
  ASSUME TierInv, [Next]_vars
  PROVE  TierInv'
<1>1. CASE UNCHANGED vars
  <2>1. UNCHANGED <<lru, young, bytes_used, inflight, disk, stray, removed, call>>
    BY <1>1 DEF vars, residencyVars, fileVars
  <2>2. TypeOK' /\ BudgetInv'
    BY <2>1 DEF TierInv, TypeOK, BudgetInv, Resident
  <2>3. SingleFlight' /\ WaitersAreOwed'
    BY <2>1 DEF TierInv, SingleFlight, WaitersAreOwed, Initiates
  <2>4. NoRedundantDownload' /\ RejectedAreOut' /\ FilesAccounted'
    BY <2>1 DEF TierInv, NoRedundantDownload, RejectedAreOut, FilesAccounted, Warm, Resident
  <2>5. QED BY <2>2, <2>3, <2>4 DEF TierInv
<1>2. ASSUME NEW t \in Threads, InitiatorStep(t)
      PROVE  TierInv'
  <2>1. ASSUME DownloadFails(t) \/ SizeFails(t)
        PROVE  TierInv'
    <3>1. /\ call[t].pc \in {"get", "admit"} /\ Go(t, Ending(t, "missing"))
          /\ UNCHANGED <<residencyVars, inflight, fileVars>>
          /\ call[t].pc = "admit" => call[t].uri \notin disk
      BY <2>1 DEF DownloadFails, SizeFails
    <3>2. "missing" \in Outcomes
      BY DEF Outcomes
    <3>3. QED BY <3>1, <3>2, EndingStep
  <2>2. QED
    BY <1>2, <2>1, DownloadStep, AdmitStep, RejectStep, UnlinkStep, PopStep, SetStep
       DEF InitiatorStep
<1>3. ASSUME Restart
      PROVE  TierInv'
  <2>1. disk' \subseteq Uris /\ stray' = disk'
    BY <1>3 DEF TierInv, TypeOK, Restart
  <2>2. QED BY <1>3, <2>1, FreshTableNext DEF Restart
<1>4. QED BY <1>1, <1>2, <1>3, CallStep, RegisterStep, OutsideStep, WorldStep DEF Next, Proceed

\* TierInv holds in every reachable state.
THEOREM TierInvariant == Spec => []TierInv
<1>1. Init => TierInv
  BY FreshTable DEF Init
<1>2. TierInv /\ [Next]_vars => TierInv'
  BY TierStep
<1>3. QED BY <1>1, <1>2, PTL DEF Spec

\* Whoever waits is owed an event, through failures, rejections and restarts.
THEOREM NobodyWaitsForNobody == Spec => []WaitersAreOwed
<1>1. TierInv => WaitersAreOwed
  BY DEF TierInv
<1>2. QED BY <1>1, TierInvariant, PTL

\* No thread downloads what another has made resident meanwhile.
THEOREM DownloadsAreNeeded == Spec => []NoRedundantDownload
<1>1. TierInv => NoRedundantDownload
  BY DEF TierInv
<1>2. QED BY <1>1, TierInvariant, PTL

\* The byte count is the size of the table's contents and within the budget, for all
\* shard sizes, those larger than the whole budget included.
THEOREM BudgetIsKept == Spec => []BudgetHolds
<1>1. TierInv => BudgetHolds
  <2>1. SUFFICES ASSUME TierInv PROVE BudgetHolds
    OBVIOUS
  <2>2. Len(lru) = Cardinality(Resident)
    BY <2>1, LenIsCardinality DEF TierInv, TypeOK, BudgetInv, Resident
  <2>3. QED BY <2>1, <2>2 DEF TierInv, BudgetInv, BudgetHolds
<1>2. QED BY <1>1, TierInvariant, PTL

\* Table and directory agree, whatever fails to be unlinked or is removed by hand.
THEOREM FilesStayAccounted == Spec => []FilesAccounted
<1>1. TierInv => FilesAccounted
  BY DEF TierInv
<1>2. QED BY <1>1, TierInvariant, PTL

=============================================================================
