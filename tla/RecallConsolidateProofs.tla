---------------------- MODULE RecallConsolidateProofs ----------------------
(***************************************************************************)
(* Proofs about RecallConsolidate for every set of ids, builders and       *)
(* readers and every value of the bounds.                                  *)
(***************************************************************************)
EXTENDS RecallConsolidate, WellFoundedInduction, FiniteSetTheorems,
        SequenceTheorems, TLAPS

-----------------------------------------------------------------------------
(* Largest elements and generations *)

\* A non-empty set of naturals below a bound has a largest element, and Max is it.
LEMMA MaxOfBounded ==
  ASSUME NEW n \in Nat, NEW S, S \subseteq 0..n, S # {}
  PROVE  Max(S) \in S /\ \A x \in S : x <= Max(S)
<1> DEFINE Upper == {m \in Nat : \A x \in S : x <= m}
<1>1. n \in Upper
  OBVIOUS
<1>2. PICK m \in Upper : \A k \in Upper : ~ (<<k, m>> \in OpToRel(<, Nat))
  <2>1. Upper \subseteq Nat /\ Upper # {}
    BY <1>1
  <2> QED
    BY ONLY <2>1, WFMin, NatLessThanWellFounded, Zenon
<1>3. \A k \in Upper : ~ (k < m)
  BY <1>2 DEF OpToRel
<1>4. m \in S
  <2> SUFFICES ASSUME m \notin S PROVE FALSE
    OBVIOUS
  <2>1. PICK x \in S : TRUE
    OBVIOUS
  <2>2. \A y \in S : y < m
    OBVIOUS
  <2>3. m - 1 \in Upper
    BY <2>1, <2>2
  <2> QED
    BY <1>3, <2>3
<1>5. \E x \in S : \A y \in S : x >= y
  BY <1>4
<1>6. Max(S) \in S /\ \A y \in S : Max(S) >= y
  BY <1>5 DEF Max
<1> QED
  BY <1>6

\* What the largest and second largest members of a set of ordinals are.
LEMMA TopTwo ==
  ASSUME NEW n \in Nat, NEW c, c \subseteq 1..n
  PROVE  LET top  == Max(c \cup {0})
             next == Max((c \ {top}) \cup {0})
         IN  /\ top \in c \cup {0} /\ top \in 0..n
             /\ \A h \in c : h <= top
             /\ next \in (c \ {top}) \cup {0} /\ next \in 0..n
             /\ \A h \in c \ {top} : h <= next
<1> DEFINE top  == Max(c \cup {0})
           next == Max((c \ {top}) \cup {0})
<1>1. \A T \in SUBSET c : T \cup {0} \subseteq 0..n /\ T \cup {0} # {}
  OBVIOUS
<1>2. top \in c \cup {0} /\ \A h \in c \cup {0} : h <= top
  BY <1>1, MaxOfBounded
<1> HIDE DEF top
<1>3. next \in (c \ {top}) \cup {0} /\ \A h \in (c \ {top}) \cup {0} : h <= next
  BY <1>1, MaxOfBounded
<1> HIDE DEF next
<1>4. /\ top \in c \cup {0} /\ top \in 0..n
      /\ \A h \in c : h <= top
      /\ next \in (c \ {top}) \cup {0} /\ next \in 0..n
      /\ \A h \in c \ {top} : h <= next
  BY <1>1, <1>2, <1>3
<1> QED
  BY <1>4 DEF top, next

\* Newest and Prior of a well-typed catalog.
LEMMA Generations ==
  ASSUME TypeOK
  PROVE  /\ Newest \in catalog \cup {0} /\ Newest \in 0..Len(shards)
         /\ \A h \in catalog : h <= Newest
         /\ Prior \in (catalog \ {Newest}) \cup {0} /\ Prior \in 0..Len(shards)
         /\ \A h \in catalog \ {Newest} : h <= Prior
<1>1. Len(shards) \in Nat /\ catalog \subseteq 1..Len(shards)
  BY DEF TypeOK
<1> QED
  BY ONLY <1>1, TopTwo DEF Newest, Prior

\* The watermark and the contents of a generation have their types.
LEMMA ShardTypes ==
  ASSUME TypeOK, NEW g \in 0..Len(shards)
  PROVE  Watermark(g) \in Nat /\ Vectors(g) \in [Ids -> Nat]
<1>1. CASE g = 0
  BY <1>1 DEF Watermark, Vectors
<1>2. CASE g # 0
  <2> DEFINE Shard == [lsn : Nat, vecs : [Ids -> Nat]]
  <2>1. shards \in Seq(Shard)
    BY DEF TypeOK
  <2>2. g \in 1..Len(shards)
    BY <1>2, <2>1
  <2>3. shards[g] \in Shard
    BY ONLY <2>1, <2>2, ElementOfSeq
  <2> QED
    BY <1>2, <2>3 DEF Watermark, Vectors
<1> QED
  BY <1>1, <1>2

\* The members of a batch receive consecutive stamps above last_lsn.
LEMMA Stamps ==
  ASSUME TypeOK, NEW winners \in Batches
  PROVE  /\ Len(winners) \in Nat /\ Len(winners) > 0
         /\ Written(winners) \subseteq Ids /\ Written(winners) # {}
         /\ \A i \in Written(winners) :
              StampOf(winners, i) \in (last_lsn + 1)..(last_lsn + Len(winners))
         /\ \A i, j \in Written(winners) :
              StampOf(winners, i) = StampOf(winners, j) => i = j
<1>1. PICK n \in 1..MaxBatch : winners \in [1..n -> Ids]
  BY DEF Batches
<1>2. n \in Nat /\ n > 0
  BY <1>1, BoundsAssumption
<1>3. winners \in Seq(Ids) /\ Len(winners) = n /\ DOMAIN winners = 1..n
  BY <1>1, <1>2
<1>4. Written(winners) \subseteq Ids /\ Written(winners) # {}
  <2>1. winners[1] \in Written(winners)
    BY <1>2, <1>3 DEF Written
  <2> QED
    BY <1>1, <2>1 DEF Written
<1> DEFINE at(i) == CHOOSE k \in 1..n : winners[k] = i
<1>5. ASSUME NEW i \in Written(winners) PROVE at(i) \in 1..n /\ winners[at(i)] = i
  BY <1>3 DEF Written
<1>6. \A i \in Written(winners) : StampOf(winners, i) = last_lsn + at(i)
  BY <1>3 DEF StampOf
<1>7. last_lsn \in Nat
  BY DEF TypeOK
<1> HIDE DEF at
<1> QED
  BY <1>2, <1>3, <1>4, <1>5, <1>6, <1>7

-----------------------------------------------------------------------------
(* Types *)

\* Ids is finite, so a shard's vectors can be counted.
LEMMA VectorCountType == \A g : VectorCount(g) \in Nat
<1> SUFFICES ASSUME NEW g PROVE VectorCount(g) \in Nat
  OBVIOUS
<1>1. {i \in Ids : Vectors(g)[i] > 0} \subseteq Ids
  OBVIOUS
<1> QED
  BY ONLY <1>1, IdsAssumption, FS_Subset, FS_CardinalityType DEF VectorCount

\* Initially every variable has its type.
LEMMA TypeInit == Init => TypeOK
<1> SUFFICES ASSUME Init PROVE TypeOK
  OBVIOUS
<1>1. shards = <<>> /\ Len(shards) = 0 /\ shards \in Seq([lsn : Nat, vecs : [Ids -> Nat]])
  BY DEF Init
<1>2. job \in [Builders -> Jobs]
  BY DEF Init, Jobs, At
<1>3. scan \in [Readers -> Scans]
  BY DEF Init, Scans, NoScan, NoRow, Row
<1> QED
  BY <1>1, <1>2, <1>3 DEF Init, TypeOK, NoRow, Row

\* The highest stamp of the resident rows exists, although nothing bounds Ids.
LEMMA HighestStamp ==
  ASSUME TypeOK, FoldInv, Resident # {}
  PROVE  LET N == Max({recall[i].lsn : i \in Resident})
         IN  /\ N \in Nat /\ N <= last_lsn
             /\ \E i \in Ids : recall[i].lsn = N
             /\ \A i \in Ids : recall[i].lsn <= N
<1> DEFINE S == {recall[i].lsn : i \in Resident}
           N == Max(S)
<1>1. last_lsn \in Nat /\ \A i \in Ids : recall[i].lsn \in 0..last_lsn
  BY DEF TypeOK, FoldInv, StampsInv, Row
<1>2. S \subseteq 0..last_lsn /\ S # {}
  BY <1>1 DEF Resident
<1>3. N \in S /\ \A x \in S : x <= N
  BY ONLY <1>1, <1>2, MaxOfBounded
<1> HIDE DEF N
<1>4. /\ N \in Nat /\ N <= last_lsn
      /\ \E i \in Ids : recall[i].lsn = N
      /\ \A i \in Ids : recall[i].lsn <= N
  BY <1>1, <1>2, <1>3 DEF Resident
<1> QED
  BY <1>4 DEF N

\* The invariant keeps the types: FoldInv bounds the stamps a snapshot takes its
\* watermark from.
LEMMA TypeStep == TypeOK /\ FoldInv /\ [Next]_vars => TypeOK'
<1> SUFFICES ASSUME TypeOK, FoldInv, [Next]_vars PROVE TypeOK'
  OBVIOUS
<1> USE DEF storeVars, catalogVars, readVars
<1>0. Jobs' = Jobs \/ shards' # shards
  BY DEF Jobs
<1>1. ASSUME NEW winners \in Batches, recall_upsert_vectors(winners)
      PROVE  TypeOK'
  <2>1. \A i \in Written(winners) : StampOf(winners, i) \in Nat
    BY Stamps DEF TypeOK
  <2>2. Len(winners) \in Nat
    BY Stamps
  <2>3. recall' \in [Ids -> Row] /\ truth' \in [Ids -> Nat] /\ last_lsn' \in Nat
    BY <1>1, <2>1, <2>2 DEF recall_upsert_vectors, TypeOK, Row
  <2> QED
    BY <1>0, <1>1, <2>3 DEF recall_upsert_vectors, CapTrigger, TypeOK, Scans
<1>2. ASSUME NEW i \in Ids, recall_delete_vector(i) PROVE TypeOK'
  <2>1. recall' \in [Ids -> Row] /\ truth' \in [Ids -> Nat] /\ last_lsn' \in Nat
    BY <1>2 DEF recall_delete_vector, TypeOK, Row
  <2> QED
    BY <1>0, <1>2, <2>1 DEF recall_delete_vector, CapTrigger, TypeOK
<1>3. CASE IdleSweep \/ \E b \in Builders : Skip(b)
  <2>1. queue' \in Nat /\ UNCHANGED <<storeVars, catalogVars, lock, job, readVars, faults>>
    BY <1>3 DEF IdleSweep, Skip, TypeOK
  <2> QED
    BY <1>0, <2>1 DEF TypeOK
<1>4. ASSUME NEW b \in Builders, Take(b) PROVE TypeOK'
  <2>1. job' \in [Builders -> Jobs]
    BY <1>4 DEF Take, TypeOK, Jobs, At
  <2> QED
    BY <1>0, <1>4, <2>1 DEF Take, TypeOK
<1>5. ASSUME NEW b \in Builders, Snapshot(b) PROVE TypeOK'
  <2>1. Max({recall[i].lsn : i \in Resident}) \in Nat
    BY <1>5, HighestStamp DEF Snapshot
  <2>2. Snapped(Max({recall[i].lsn : i \in Resident}), recall) \in Jobs
    BY <2>1 DEF TypeOK, Jobs, Snapped
  <2>3. job' \in [Builders -> Jobs]
    BY <1>5, <2>2 DEF Snapshot, TypeOK
  <2> QED
    BY <1>0, <1>5, <2>3 DEF Snapshot, TypeOK
<1>6. ASSUME NEW b \in Builders, BuildShard(b) PROVE TypeOK'
  <2> DEFINE Shard == [lsn : Nat, vecs : [Ids -> Nat]]
             new   == [lsn |-> job[b].lsn, vecs |-> Folded(job[b].rows, Newest)]
  <2>1. job[b].lsn \in Nat /\ job[b].rows \in [Ids -> Row]
    BY <1>6 DEF BuildShard, TypeOK, Jobs
  <2>2. Vectors(Newest) \in [Ids -> Nat]
    BY Generations, ShardTypes
  <2>3. new \in Shard
    BY <2>1, <2>2 DEF Folded, Version, Row
  <2>4. shards' \in Seq(Shard) /\ Len(shards') = Len(shards) + 1 /\ Len(shards) \in Nat
    BY <1>6, <2>3 DEF BuildShard, TypeOK
  <2>5. /\ 0..Len(shards) \subseteq 0..Len(shards')
        /\ 1..Len(shards) \subseteq 1..Len(shards')
    BY <2>4
  <2>6. job' \in [Builders -> Jobs']
    <3>1. WithShard("written", Len(shards) + 1) \in Jobs'
      BY <2>4 DEF Jobs, WithShard
    <3>2. Jobs \subseteq Jobs'
      BY <2>5 DEF Jobs
    <3> QED
      BY <1>6, <3>1, <3>2 DEF BuildShard, TypeOK
  <2>7. /\ objects' \subseteq 1..Len(shards') /\ catalog' \subseteq 1..Len(shards')
    <3>1. Len(shards) + 1 \in 1..Len(shards')
      BY <2>4
    <3> QED
      BY <1>6, <2>5, <3>1 DEF BuildShard, TypeOK
  <2>8. resolved' \in [Readers -> 0..Len(shards')]
    BY <1>6, <2>5 DEF BuildShard, TypeOK
  <2> QED
    BY <1>6, <2>4, <2>6, <2>7, <2>8 DEF BuildShard, TypeOK, Scans
<1>7. ASSUME NEW b \in Builders, CommitShard(b) PROVE TypeOK'
  <2>1. job[b].shard \in 1..Len(shards)
    BY <1>7 DEF CommitShard, TypeOK, Jobs
  <2>2. job' \in [Builders -> Jobs]
    BY <1>7, <2>1 DEF CommitShard, TypeOK, Jobs, WithShard
  <2> QED
    BY <1>0, <1>7, <2>1, <2>2 DEF CommitShard, TypeOK
<1>8. ASSUME NEW b \in Builders, Settle(b) PROVE TypeOK'
  <2>1. job' \in [Builders -> Jobs]
    BY <1>8 DEF Settle, TypeOK, Jobs, At
  <2> QED
    BY <1>0, <1>8, <2>1, VectorCountType DEF Settle, Fault, TypeOK
<1>9. ASSUME NEW b \in Builders, SweepObjects(b) PROVE TypeOK'
  <2>1. Superseded \subseteq 1..Len(shards)
    BY DEF Superseded, TypeOK
  <2>2. job' \in [Builders -> Jobs]
    BY <1>9, <2>1 DEF SweepObjects, TypeOK, Jobs, Sweeping
  <2>3. objects' \subseteq objects /\ faults' \in Nat
    BY <1>9 DEF SweepObjects, Fault, TypeOK
  <2> QED
    BY <1>0, <1>9, <2>2, <2>3 DEF SweepObjects, TypeOK
<1>10. ASSUME NEW b \in Builders, SweepRows(b) PROVE TypeOK'
  <2>1. job' \in [Builders -> Jobs]
    BY <1>10 DEF SweepRows, TypeOK, Jobs, At
  <2>2. catalog' \subseteq catalog /\ faults' \in Nat
    BY <1>10 DEF SweepRows, Fault, TypeOK
  <2> QED
    BY <1>0, <1>10, <2>1, <2>2 DEF SweepRows, TypeOK
<1>11. ASSUME NEW b \in Builders, Release(b) PROVE job' \in [Builders -> Jobs]
  BY <1>11 DEF Release, TypeOK, Jobs, At
<1>12. ASSUME NEW b \in Builders, Trim(b) PROVE TypeOK'
  <2>1. recall' \in [Ids -> Row]
    <3>1. NoRow \in Row
      BY DEF NoRow, Row
    <3> QED
      BY <1>12, <3>1 DEF Trim, recall_trim, TypeOK
  <2>2. job' \in [Builders -> Jobs]
    BY <1>11, <1>12 DEF Trim
  <2> QED
    BY <1>0, <1>12, <2>1, <2>2 DEF Trim, Fault, Release, TypeOK
<1>13. ASSUME NEW b \in Builders,
              SnapshotEmpty(b) \/ NothingToFold(b) \/ ConsolidateFails(b) \/ Crash(b)
       PROVE  TypeOK'
  <2>1. job' \in [Builders -> Jobs]
    BY <1>11, <1>13 DEF SnapshotEmpty, NothingToFold, ConsolidateFails, Crash
  <2>2. lock' = NoBuilder /\ queue' \in Nat /\ faults' \in Nat
    BY <1>13 DEF SnapshotEmpty, NothingToFold, ConsolidateFails, Crash, Fault, Release,
                 TypeOK
  <2>3. /\ UNCHANGED <<storeVars, shards, objects, catalog, row_count, readVars>>
        /\ status' \in {status, "error"}
    BY <1>13 DEF SnapshotEmpty, NothingToFold, ConsolidateFails, Crash
  <2> QED
    BY <1>0, <2>1, <2>2, <2>3 DEF TypeOK
<1>14. ASSUME NEW r \in Readers, Read(r) PROVE TypeOK'
  <2>1. CASE ResolveShard(r)
    BY <1>0, <2>1, Generations DEF ResolveShard, TypeOK
  <2>2. CASE RecallSearch(r)
    <3>1. [i \in Ids |-> IF recall[i].lsn > Watermark(resolved[r])
                         THEN recall[i] ELSE NoRow] \in [Ids -> Row]
      BY DEF TypeOK, NoRow, Row
    <3>2. scan' \in [Readers -> Scans]
      BY <2>2, <3>1 DEF RecallSearch, TypeOK, Scans
    <3> QED
      BY <1>0, <2>2, <3>2 DEF RecallSearch, TypeOK
  <2>3. CASE LoadShard(r)
    BY <1>0, <2>3 DEF LoadShard, TypeOK
  <2>4. CASE Respond(r)
    <3>1. NoScan \in Scans
      BY DEF NoScan, Scans, NoRow, Row
    <3> QED
      BY <1>0, <2>4, <3>1 DEF Respond, TypeOK
  <2> QED
    BY <1>14, <2>1, <2>2, <2>3, <2>4 DEF Read
<1>15. CASE UNCHANGED vars
  BY <1>0, <1>15 DEF vars, TypeOK
<1> QED
  BY <1>1, <1>2, <1>3, <1>4, <1>5, <1>6, <1>7, <1>8, <1>9, <1>10, <1>12,
     <1>13, <1>14, <1>15 DEF Next, Write, Fold

-----------------------------------------------------------------------------
(* The inductive invariant *)

\* The inductive invariant holds before the first write.
LEMMA FoldInit == Init => FoldInv
<1> SUFFICES ASSUME Init PROVE FoldInv
  OBVIOUS
<1>1. TypeOK
  BY TypeInit
<1>2. Newest = 0 /\ Prior = 0 /\ Len(shards) = 0
  BY <1>1, Generations DEF Init
<1>3. StampsInv
  BY <1>2 DEF Init, StampsInv, NoRow
<1>4. RetainedInv
  BY <1>2 DEF Init, RetainedInv, Covers, Watermark, Vectors, Reached, Resident, NoRow
<1>5. \A b \in Builders : JobInv(b)
  BY DEF Init, JobInv, At
<1>6. \A r \in Readers : QueryInv(r)
  BY <1>2 DEF Init, QueryInv, NoScan
<1> QED
  BY <1>3, <1>4, <1>5, <1>6 DEF FoldInv

\* Facts every step needs, with the generations' watermarks bounded.
LEMMA Facts ==
  ASSUME TypeOK, FoldInv
  PROVE  /\ last_lsn \in Nat
         /\ \A i \in Ids : recall[i].lsn \in Nat /\ recall[i].lsn <= last_lsn
         /\ Newest \in 0..Len(shards) /\ Prior \in 0..Len(shards)
         /\ \A g \in 0..Len(shards) : Watermark(g) \in Nat /\ Watermark(g) <= last_lsn
<1>1. \A g \in 0..Len(shards) : Watermark(g) \in Nat
  BY ShardTypes
<1>2. \A g \in 0..Len(shards) : Watermark(g) <= last_lsn
  BY DEF Watermark, FoldInv, StampsInv, TypeOK
<1> QED
  BY <1>1, <1>2, Generations DEF TypeOK, Row, FoldInv, StampsInv

\* A builder that has uploaded or committed a shard names one of the uploads.
LEMMA JobShard ==
  ASSUME TypeOK, NEW b \in Builders, job[b].pc \in {"written", "committed"}
  PROVE  job[b].shard \in 1..Len(shards) /\ job[b].shard \in 0..Len(shards)
<1>1. job[b] \in Jobs /\ Len(shards) \in Nat
  BY DEF TypeOK
<1>2. job[b].shard \in 1..Len(shards)
  BY <1>1 DEF Jobs
<1> QED
  BY <1>1, <1>2

\* A write: some rows are replaced by rows stamped above last_lsn, and nothing
\* of the builders, the catalog and the readers changes.
LEMMA WriteStep ==
  ASSUME TypeOK, TypeOK', FoldInv,
         last_lsn' >= last_lsn,
         \A i \in Ids : \/ recall'[i] = recall[i] /\ truth'[i] = truth[i]
                        \/ /\ recall'[i].lsn > last_lsn /\ recall'[i].lsn <= last_lsn'
                           /\ truth'[i] = Version(recall'[i]),
         \E i \in Ids : recall'[i].lsn > last_lsn,
         UNCHANGED <<catalogVars, lock, job, readVars>>
  PROVE  FoldInv'
<1> USE DEF catalogVars, readVars
<1>1. Newest' = Newest /\ Prior' = Prior
  BY DEF Newest, Prior
<1>2. \A g \in 0..Len(shards) : Watermark(g)' = Watermark(g) /\ Vectors(g)' = Vectors(g)
  BY DEF Watermark, Vectors
<1>3. last_lsn' \in Nat /\ \A i \in Ids : recall'[i].lsn \in Nat
  BY DEF TypeOK, Row
<1>4. \A g \in 0..Len(shards) : Covers(g) => Covers(g)'
  <2> SUFFICES ASSUME NEW g \in 0..Len(shards), Covers(g), NEW i \in Ids
               PROVE  recall'[i].lsn > Watermark(g)' \/ Vectors(g)'[i] = truth'[i]
    BY DEF Covers
  <2>1. Watermark(g)' = Watermark(g) /\ Vectors(g)' = Vectors(g)
    BY <1>2
  <2>2. /\ recall[i].lsn > Watermark(g) \/ Vectors(g)[i] = truth[i]
        /\ Watermark(g) \in Nat /\ Watermark(g) <= last_lsn /\ last_lsn \in Nat
    BY Facts DEF Covers
  <2> QED
    BY <1>3, <2>1, <2>2
<1>5. \A n \in 0..last_lsn : \E i \in Ids : recall'[i].lsn >= n
  BY <1>3, Facts
<1>6. StampsInv'
  <2>1. \A i \in Ids : (recall[i].lsn <= last_lsn /\ (recall[i].lsn > 0 => truth[i] = Version(recall[i])))'
    BY <1>3, Facts DEF FoldInv, StampsInv
  <2>2. \A g \in 1..Len(shards) : shards[g].lsn <= last_lsn'
    <3>1. \A g \in 1..Len(shards) : Watermark(g) = shards[g].lsn /\ g \in 0..Len(shards)
      BY DEF Watermark
    <3>2. \A g \in 1..Len(shards) : Watermark(g) \in Nat /\ Watermark(g) <= last_lsn
      BY <3>1, Facts
    <3> QED
      BY <1>3, <3>1, <3>2, Facts
  <2> QED
    BY <2>1, <2>2 DEF StampsInv
<1>7. RetainedInv'
  <2>1. Covers(Newest)' /\ Covers(Prior)'
    BY <1>1, <1>2, <1>4, Facts DEF Covers, FoldInv, RetainedInv
  <2>2. (Watermark(Newest) = Watermark(Newest)') /\ (Watermark(Prior) = Watermark(Prior)')
    BY <1>1, <1>2, Facts
  <2>3. Reached(Watermark(Newest))'
    BY <1>5, <2>2, Facts DEF Reached
  <2> QED
    BY <1>1, <2>1, <2>2, <2>3 DEF FoldInv, RetainedInv
<1>8. ASSUME NEW b \in Builders PROVE JobInv(b)'
  <2>1. JobInv(b)
    BY DEF FoldInv
  <2>2. CASE job[b].pc = "snapped"
    <3>1. SnappedInv(b) /\ job[b].lsn \in Nat /\ \A i \in Ids : job[b].rows[i].lsn \in Nat
      BY <2>1, <2>2 DEF JobInv, TypeOK, Jobs, Row
    <3>2. job[b].lsn \in 0..last_lsn
      BY <3>1, Facts DEF SnappedInv
    <3>3. \A i \in Ids : recall'[i] = job[b].rows[i] \/ recall'[i].lsn > job[b].lsn
      BY <1>3, <3>1, <3>2, Facts, SMTT(30) DEF SnappedInv
    <3>4. job[b].lsn <= last_lsn' /\ \E i \in Ids : recall'[i].lsn >= job[b].lsn
      BY <1>3, <1>5, <3>2, Facts, SMTT(30)
    <3>5. Watermark(Newest)' <= job[b].lsn
      BY <1>1, <1>2, <3>1, Facts DEF SnappedInv
    <3>6. SnappedInv(b)'
      BY <3>1, <3>3, <3>4, <3>5 DEF SnappedInv
    <3> QED
      BY <2>1, <2>2, <3>6 DEF JobInv
  <2>3. CASE job[b].pc = "written"
    <3>1. WrittenInv(b) /\ job[b].shard \in 0..Len(shards)
      BY <2>1, <2>3, JobShard DEF JobInv
    <3>2. Watermark(job[b].shard) \in 0..last_lsn
      BY <3>1, Facts
    <3>3. WrittenInv(b)'
      BY <1>1, <1>2, <1>4, <1>5, <3>1, <3>2, Facts DEF WrittenInv, Covers
    <3> QED
      BY <2>1, <2>3, <3>3 DEF JobInv
  <2> QED
    BY <1>1, <2>1, <2>2, <2>3 DEF JobInv
<1>9. ASSUME NEW r \in Readers PROVE QueryInv(r)'
  BY <1>1, <1>2 DEF FoldInv, QueryInv, TypeOK
<1> QED
  BY <1>6, <1>7, <1>8, <1>9 DEF FoldInv

\* The advisory lock makes consolidations of one dataset mutually exclusive.
LEMMA OthersIdle ==
  ASSUME FoldInv, NEW b \in Builders, NEW c \in Builders,
         job[b].pc # "idle" \/ lock = NoBuilder, c # b
  PROVE  job[c].pc = "idle"
BY LockAssumption DEF FoldInv, JobInv

\* A step of builder b that touches neither recall nor the catalog.
LEMMA JobStep ==
  ASSUME TypeOK, FoldInv, NEW b \in Builders,
         UNCHANGED <<storeVars, shards, objects, catalog, readVars>>,
         \A c \in Builders \ {b} : job'[c] = job[c] /\ job[c].pc = "idle",
         JobInv(b)'
  PROVE  FoldInv'
<1> USE DEF storeVars, readVars
<1>1. Newest' = Newest /\ Prior' = Prior
  BY DEF Newest, Prior
<1>2. \A g : Watermark(g)' = Watermark(g) /\ Vectors(g)' = Vectors(g)
  BY DEF Watermark, Vectors
<1>3. StampsInv'
  BY DEF FoldInv, StampsInv
<1>4. RetainedInv'
  BY <1>1, <1>2 DEF FoldInv, RetainedInv, Covers, Reached, Resident
<1>5. \A c \in Builders : JobInv(c)'
  <2>1. \A c \in Builders \ {b} : JobInv(c)'
    BY DEF JobInv
  <2> QED
    BY <2>1
<1>6. \A r \in Readers : QueryInv(r)'
  BY <1>1, <1>2 DEF FoldInv, QueryInv
<1> QED
  BY <1>3, <1>4, <1>5, <1>6 DEF FoldInv

\* A snapshot agrees with recall at the moment it is taken.
LEMMA SnapshotStep ==
  ASSUME TypeOK, FoldInv, NEW b \in Builders, Snapshot(b)
  PROVE  FoldInv'
<1> DEFINE N == Max({recall[i].lsn : i \in Resident})
<1>1. /\ N \in Nat /\ N <= last_lsn
      /\ \E i \in Ids : recall[i].lsn = N
      /\ \A i \in Ids : recall[i].lsn <= N
  BY HighestStamp DEF Snapshot
<1> HIDE DEF N
<1>2. job'[b].pc = "snapped" /\ job'[b].lsn = N /\ job'[b].rows = recall
  BY DEF Snapshot, Snapped, N, TypeOK
<1>3. Watermark(Newest)' <= N
  <2>1. Watermark(Newest)' = Watermark(Newest)
    BY DEF Snapshot, catalogVars, Watermark, Newest
  <2>2. \E i \in Ids : recall[i].lsn >= Watermark(Newest)
    BY DEF Snapshot, FoldInv, RetainedInv, Reached
  <2> QED
    BY <1>1, <2>1, <2>2, Facts
<1>4. SnappedInv(b)'
  <2>1. last_lsn' = last_lsn /\ recall' = recall
    BY DEF Snapshot, storeVars
  <2> QED
    BY <1>1, <1>2, <1>3, <2>1, Facts DEF SnappedInv
<1>5. lock' = b
  BY DEF Snapshot, FoldInv, JobInv
<1>6. JobInv(b)'
  BY <1>2, <1>4, <1>5 DEF JobInv
<1>7. \A c \in Builders \ {b} : job'[c] = job[c] /\ job[c].pc = "idle"
  BY OthersIdle DEF Snapshot, TypeOK
<1> QED
  BY <1>6, <1>7, JobStep DEF Snapshot, catalogVars

\* The upload folds the snapshot into the newest shard.  Writes that came after
\* the snapshot are above its watermark; what the snapshot did not have is what
\* the newest shard covers.
LEMMA BuildStep ==
  ASSUME TypeOK, TypeOK', FoldInv, NEW b \in Builders, BuildShard(b)
  PROVE  FoldInv'
<1> DEFINE rows == job[b].rows
           N == job[b].lsn
<1>0. PICK n : n = Len(shards) + 1
  OBVIOUS
<1>1. /\ recall' = recall /\ truth' = truth /\ last_lsn' = last_lsn
      /\ catalog' = catalog /\ lock' = lock
      /\ resolved' = resolved /\ scan' = scan /\ load' = load
      /\ objects' = objects \cup {n}
  BY <1>0 DEF BuildShard, storeVars, readVars
<1>2. Newest' = Newest /\ Prior' = Prior
  BY <1>1 DEF Newest, Prior
<1>3. Len(shards) \in Nat /\ Len(shards') = n
  BY <1>0 DEF BuildShard, TypeOK
<1>4. /\ \A g \in 1..Len(shards) : shards'[g] = shards[g]
      /\ shards'[n] = [lsn |-> N, vecs |-> Folded(rows, Newest)]
  BY <1>0, <1>3 DEF BuildShard, TypeOK
<1>5. \A g \in 0..Len(shards) : Watermark(g)' = Watermark(g) /\ Vectors(g)' = Vectors(g)
  BY <1>3, <1>4 DEF Watermark, Vectors
<1>6. Watermark(n)' = N /\ Vectors(n)' = Folded(rows, Newest)
  BY <1>0, <1>3, <1>4 DEF Watermark, Vectors
<1>7. /\ SnappedInv(b) /\ N \in Nat
      /\ rows \in [Ids -> Row] /\ \A i \in Ids : rows[i].lsn \in Nat
  <2>1. job[b].pc = "snapped" /\ job[b] \in Jobs
    BY DEF BuildShard, TypeOK
  <2>2. job[b].lsn \in Nat /\ job[b].rows \in [Ids -> Row]
    BY ONLY <2>1 DEF Jobs
  <2>3. \A i \in Ids : rows[i].lsn \in Nat
    BY ONLY <2>2 DEF Row
  <2> QED
    BY <2>1, <2>2, <2>3 DEF FoldInv, JobInv
<1>8. ASSUME NEW i \in Ids
      PROVE  recall[i].lsn > N \/ Folded(rows, Newest)[i] = truth[i]
  <2>1. CASE recall[i].lsn > N
    BY <2>1
  <2>2. CASE recall[i] = rows[i] /\ rows[i].lsn > 0
    BY <2>2 DEF Folded, FoldInv, StampsInv
  <2>3. CASE recall[i] = rows[i] /\ ~ (rows[i].lsn > 0)
    <3>1. recall[i].lsn = 0
      BY <1>7, <2>3
    <3>2. ~ (recall[i].lsn > Watermark(Newest))
      BY <3>1, Facts
    <3>3. Vectors(Newest)[i] = truth[i]
      BY <3>2 DEF FoldInv, RetainedInv, Covers
    <3> QED
      BY <2>3, <3>3 DEF Folded
  <2> QED
    BY <1>7, <2>1, <2>2, <2>3 DEF SnappedInv
<1>9. StampsInv'
  <2>1. \A g \in 1..Len(shards') : shards'[g].lsn <= last_lsn
    <3>1. N <= last_lsn
      BY <1>7 DEF SnappedInv
    <3>2. \A g \in 1..Len(shards') : g \in 1..Len(shards) \/ g = n
      BY <1>0, <1>3
    <3> QED
      BY <1>4, <3>1, <3>2 DEF FoldInv, StampsInv
  <2> QED
    BY <1>1, <2>1 DEF FoldInv, StampsInv
<1>10. RetainedInv'
  <2>1. Newest \in 0..Len(shards) /\ Prior \in 0..Len(shards)
    BY Facts
  <2>2. /\ Watermark(Newest)' = Watermark(Newest) /\ Vectors(Newest)' = Vectors(Newest)
        /\ Watermark(Prior)' = Watermark(Prior) /\ Vectors(Prior)' = Vectors(Prior)
    BY <1>2, <1>5, <2>1
  <2>3. Covers(Newest)' /\ Covers(Prior)' /\ Reached(Watermark(Newest))'
    BY <1>1, <2>2 DEF Covers, Reached, Resident, FoldInv, RetainedInv
  <2> QED
    BY <1>1, <1>2, <2>2, <2>3 DEF FoldInv, RetainedInv
<1>11. JobInv(b)'
  <2>1. job'[b].pc = "written" /\ job'[b].shard = n
    BY <1>0 DEF BuildShard, WithShard, TypeOK
  <2>2. \A h \in catalog : h < n
    BY <1>0, <1>3 DEF TypeOK
  <2>3. Watermark(Newest)' <= N
    BY <1>2, <1>5, <1>7, Facts DEF SnappedInv
  <2>4. WrittenInv(b)'
    <3>1. Covers(n)'
      BY <1>1, <1>6, <1>8 DEF Covers
    <3>2. \E i \in Ids : recall'[i].lsn >= Watermark(n)'
      BY <1>1, <1>6, <1>7 DEF SnappedInv
    <3> QED
      BY <1>1, <1>6, <2>1, <2>2, <2>3, <3>1, <3>2 DEF WrittenInv, Covers
  <2> QED
    BY <1>1, <2>1, <2>4 DEF JobInv, BuildShard, FoldInv
<1>12. ASSUME NEW c \in Builders, c # b PROVE JobInv(c)'
  <2>1. job'[c].pc = "idle"
    BY <1>12, OthersIdle DEF BuildShard, TypeOK
  <2> QED
    BY <2>1 DEF JobInv
<1>13. ASSUME NEW r \in Readers PROVE QueryInv(r)'
  <2>1. resolved[r] \in 0..Len(shards)
    BY DEF TypeOK
  <2>2. Vectors(resolved[r])' = Vectors(resolved[r])
    BY <1>1, <1>5, <2>1 DEF Vectors
  <2> QED
    BY <1>1, <1>2, <2>2 DEF FoldInv, QueryInv
<1> QED
  BY <1>9, <1>10, <1>11, <1>12, <1>13 DEF FoldInv

\* A set of ordinals extended by a larger one.
LEMMA AddTop ==
  ASSUME NEW n \in Nat, NEW c, c \subseteq 1..n, NEW k \in 1..n, \A h \in c : h < k
  PROVE  /\ Max((c \cup {k}) \cup {0}) = k
         /\ (c \cup {k}) \ {k} = c
         /\ Max(c \cup {0}) < k
<1>1. c \cup {k} \subseteq 1..n
  OBVIOUS
<1> DEFINE top == Max((c \cup {k}) \cup {0})
           old == Max(c \cup {0})
<1>2. top \in (c \cup {k}) \cup {0} /\ top \in 0..n /\ \A h \in c \cup {k} : h <= top
  BY ONLY <1>1, TopTwo, n \in Nat
<1>3. old \in c \cup {0}
  BY TopTwo
<1> HIDE DEF top, old
<1>4. top = k
  BY <1>1, <1>2
<1>5. old < k
  BY <1>3
<1>6. (c \cup {k}) \ {k} = c
  OBVIOUS
<1> QED
  BY <1>4, <1>5, <1>6 DEF top, old

\* Committing g makes it the newest generation and the newest one the prior.
LEMMA CommitGenerations ==
  ASSUME TypeOK, FoldInv, NEW b \in Builders, CommitShard(b)
  PROVE  Newest' = job[b].shard /\ Prior' = Newest /\ Newest < job[b].shard
<1>0. PICK g : g = job[b].shard
  OBVIOUS
<1>1. /\ catalog' = catalog \cup {g} /\ Len(shards) \in Nat
      /\ g \in 1..Len(shards) /\ \A h \in catalog : h < g
      /\ catalog \subseteq 1..Len(shards)
  BY <1>0, JobShard DEF CommitShard, FoldInv, JobInv, WrittenInv, TypeOK
<1>2. /\ Max((catalog \cup {g}) \cup {0}) = g
      /\ (catalog \cup {g}) \ {g} = catalog
      /\ Max(catalog \cup {0}) < g
  BY ONLY <1>1, AddTop
<1>3. Newest' = g
  BY <1>1, <1>2 DEF Newest
<1>4. Prior' = Newest
  BY <1>1, <1>2, <1>3 DEF Prior, Newest
<1> QED
  BY <1>0, <1>2, <1>3, <1>4 DEF Newest

\* The commit hands the role of newest generation to a shard that covers as much.
LEMMA CommitStep ==
  ASSUME TypeOK, TypeOK', FoldInv, NEW b \in Builders, CommitShard(b)
  PROVE  FoldInv'
<1>0. PICK g : g = job[b].shard
  OBVIOUS
<1>1. /\ recall' = recall /\ truth' = truth /\ last_lsn' = last_lsn
      /\ shards' = shards /\ lock' = lock /\ objects' = objects
      /\ resolved' = resolved /\ scan' = scan /\ load' = load
  BY DEF CommitShard, storeVars, readVars
<1>2. \A h : Watermark(h)' = Watermark(h) /\ Vectors(h)' = Vectors(h) /\ Covers(h)' = Covers(h)
  BY <1>1 DEF Watermark, Vectors, Covers
<1>3. Newest' = g /\ Prior' = Newest /\ Newest < g /\ g \in Nat /\ Newest \in Nat
  <2>1. Newest' = g /\ Prior' = Newest /\ Newest < g
    BY <1>0, CommitGenerations
  <2>2. g \in 1..Len(shards)
    BY <1>0, JobShard DEF CommitShard
  <2> QED
    BY <2>1, <2>2, Facts
<1>4. /\ Covers(g) /\ Watermark(Newest) <= Watermark(g) /\ g \in objects
      /\ \E i \in Ids : recall[i].lsn >= Watermark(g)
  BY <1>0 DEF CommitShard, FoldInv, JobInv, WrittenInv
<1>5. StampsInv'
  BY <1>1 DEF FoldInv, StampsInv
<1>6. RetainedInv'
  <2>1. /\ Watermark(Newest)' = Watermark(g) /\ Watermark(Prior)' = Watermark(Newest)
        /\ Vectors(Newest)' = Vectors(g) /\ Vectors(Prior)' = Vectors(Newest)
    BY <1>1, <1>3 DEF Watermark, Vectors
  <2>2. Covers(Newest)' /\ Covers(Prior)'
    BY <1>1, <1>4, <2>1 DEF Covers, FoldInv, RetainedInv
  <2>3. Reached(Watermark(Newest))'
    BY <1>1, <1>4, <2>1 DEF Reached
  <2> QED
    BY <1>1, <1>3, <1>4, <2>1, <2>2, <2>3 DEF FoldInv, RetainedInv
<1>7. ASSUME NEW c \in Builders PROVE JobInv(c)'
  <2>1. CASE c = b
    BY <1>1, <2>1 DEF CommitShard, WithShard, TypeOK, FoldInv, JobInv
  <2>2. CASE c # b
    <3>1. job'[c].pc = "idle"
      BY <2>2, OthersIdle DEF CommitShard, TypeOK
    <3> QED
      BY <3>1 DEF JobInv
  <2> QED
    BY <2>1, <2>2
<1>8. ASSUME NEW r \in Readers PROVE QueryInv(r)'
  <2>1. Vectors(resolved[r])' = Vectors(resolved[r])
    BY <1>1 DEF Vectors
  <2>2. resolved[r] \in Nat /\ resolved[r] <= Newest /\ QueryInv(r)
    BY DEF TypeOK, FoldInv, QueryInv
  <2>3. resolved[r] <= g /\ resolved[r] # g
    BY <1>3, <2>2
  <2> QED
    BY <1>1, <1>3, <2>1, <2>2, <2>3 DEF QueryInv
<1> QED
  BY <1>5, <1>6, <1>7, <1>8 DEF FoldInv

\* Neither half of the sweep reaches the two retained generations.
LEMMA SweepGenerations ==
  ASSUME TypeOK, FoldInv, NEW b \in Builders, SweepObjects(b) \/ SweepRows(b)
  PROVE  Newest' = Newest /\ Prior' = Prior
<1>1. CASE catalog' = catalog
  BY <1>1 DEF Newest, Prior
<1>2. CASE SweepRows(b) /\ catalog' = catalog \ job[b].stale
  <2>1. Newest \notin job[b].stale /\ Prior \notin job[b].stale
    BY <1>2 DEF SweepRows, FoldInv, JobInv
  <2>2. /\ Newest \in catalog \cup {0} /\ \A h \in catalog : h <= Newest
        /\ Prior \in (catalog \ {Newest}) \cup {0}
        /\ \A h \in catalog \ {Newest} : h <= Prior
    BY Generations
  <2>3. catalog \subseteq 1..Len(shards) /\ Len(shards) \in Nat
    BY DEF TypeOK
  <2>4. catalog' \subseteq 1..Len(shards)
    BY <1>2, <2>3
  <2>5. /\ Newest' \in catalog' \cup {0}
        /\ \A h \in catalog' : h <= Newest'
        /\ Prior' \in (catalog' \ {Newest'}) \cup {0}
        /\ \A h \in catalog' \ {Newest'} : h <= Prior'
    BY ONLY <2>3, <2>4, TopTwo DEF Newest, Prior
  <2>6. Newest' = Newest
    BY <1>2, <2>1, <2>2, <2>3, <2>5
  <2> QED
    BY <1>2, <2>1, <2>2, <2>3, <2>5, <2>6
<1> QED
  BY <1>1, <1>2 DEF SweepObjects, SweepRows

\* Neither half of the sweep touches what the retained generations need.
LEMMA SweepStep ==
  ASSUME TypeOK, TypeOK', FoldInv, NEW b \in Builders, SweepObjects(b) \/ SweepRows(b)
  PROVE  FoldInv'
<1>1. /\ recall' = recall /\ truth' = truth /\ last_lsn' = last_lsn
      /\ shards' = shards /\ lock' = lock
      /\ resolved' = resolved /\ scan' = scan /\ load' = load
  BY DEF SweepObjects, SweepRows, storeVars, readVars
<1>2. Newest' = Newest /\ Prior' = Prior
  BY SweepGenerations
<1>3. \A g : Watermark(g)' = Watermark(g) /\ Vectors(g)' = Vectors(g)
  BY <1>1 DEF Watermark, Vectors
<1>4. StampsInv'
  BY <1>1 DEF FoldInv, StampsInv
<1>5. RetainedInv'
  <2>1. {Newest, Prior} \subseteq objects' \cup {0}
    BY DEF SweepObjects, SweepRows, Superseded, FoldInv, RetainedInv
  <2> QED
    BY <1>1, <1>2, <1>3, <2>1 DEF FoldInv, RetainedInv, Covers, Reached, Resident
<1>6. ASSUME NEW c \in Builders PROVE JobInv(c)'
  <2>1. CASE c = b
    <3>1. CASE SweepObjects(b)
      <4>1. job'[b].pc = "sweeping" /\ job'[b].stale = Superseded
        BY <3>1 DEF SweepObjects, Sweeping, TypeOK
      <4>2. Newest' \notin Superseded /\ Prior' \notin Superseded
        BY <1>2 DEF Superseded
      <4> QED
        BY <1>1, <2>1, <3>1, <4>1, <4>2 DEF JobInv, SweepObjects, FoldInv
    <3>2. CASE SweepRows(b)
      BY <1>1, <2>1, <3>2 DEF SweepRows, At, TypeOK, FoldInv, JobInv
    <3> QED
      BY <3>1, <3>2
  <2>2. CASE c # b
    <3>1. job'[c].pc = "idle"
      BY <2>2, OthersIdle DEF SweepObjects, SweepRows, TypeOK
    <3> QED
      BY <3>1 DEF JobInv
  <2> QED
    BY <2>1, <2>2
<1>7. \A r \in Readers : QueryInv(r)'
  BY <1>1, <1>2, <1>3 DEF FoldInv, QueryInv
<1> QED
  BY <1>4, <1>5, <1>6, <1>7 DEF FoldInv

\* The trim removes only rows that both retained generations cover.
LEMMA TrimStep ==
  ASSUME TypeOK, TypeOK', FoldInv, NEW b \in Builders, Trim(b)
  PROVE  FoldInv'
<1>1. /\ truth' = truth /\ last_lsn' = last_lsn /\ shards' = shards
      /\ objects' = objects /\ catalog' = catalog
      /\ resolved' = resolved /\ scan' = scan /\ load' = load
  BY DEF Trim, catalogVars, readVars
<1>2. Newest' = Newest /\ Prior' = Prior
  BY <1>1 DEF Newest, Prior
<1>3. \A g : Watermark(g)' = Watermark(g) /\ Vectors(g)' = Vectors(g)
  BY <1>1 DEF Watermark, Vectors
<1>4. \A i \in Ids : \/ recall'[i] = recall[i]
                     \/ recall[i].lsn <= Watermark(Prior) /\ recall'[i] = NoRow
  BY DEF Trim, recall_trim, grace_watermark
<1>5. /\ Watermark(Newest) \in Nat /\ Watermark(Prior) \in Nat
      /\ Watermark(Prior) <= Watermark(Newest)
      /\ \A i \in Ids : recall[i].lsn \in Nat
  BY Facts DEF FoldInv, RetainedInv
<1>6. StampsInv'
  BY <1>1, <1>4, Facts DEF FoldInv, StampsInv, NoRow
<1>7. RetainedInv'
  <2>1. Covers(Newest)' /\ Covers(Prior)'
    BY <1>1, <1>2, <1>3, <1>4, <1>5 DEF Covers, FoldInv, RetainedInv
  <2>2. Reached(Watermark(Newest))'
    <3>1. CASE recall' = recall
      BY <1>2, <1>3, <3>1 DEF Reached, Resident, FoldInv, RetainedInv
    <3>2. CASE recall_trim(grace_watermark)
      <4> SUFFICES ASSUME NEW j \in Ids, recall'[j].lsn > 0
                   PROVE  \E i \in Ids : recall'[i].lsn >= Watermark(Newest)
        BY <1>2, <1>3 DEF Reached, Resident
      <4>1. recall'[j] = recall[j] /\ recall[j].lsn > Watermark(Prior)
        BY <3>2, <1>5 DEF recall_trim, grace_watermark, NoRow
      <4>2. PICK i \in Ids : recall[i].lsn >= Watermark(Newest)
        BY <1>5, <4>1 DEF FoldInv, RetainedInv, Reached, Resident
      <4>3. CASE recall[i].lsn > Watermark(Prior)
        BY <1>5, <3>2, <4>2, <4>3 DEF recall_trim, grace_watermark
      <4>4. CASE ~ (recall[i].lsn > Watermark(Prior))
        BY <1>5, <4>1, <4>2, <4>4
      <4> QED
        BY <4>3, <4>4
    <3> QED
      BY <3>1, <3>2 DEF Trim
  <2> QED
    BY <1>1, <1>2, <1>3, <2>1, <2>2 DEF FoldInv, RetainedInv
<1>8. ASSUME NEW c \in Builders PROVE JobInv(c)'
  <2>1. job'[c].pc = "idle"
    BY OthersIdle DEF Trim, Release, At, TypeOK
  <2> QED
    BY <2>1 DEF JobInv
<1>9. \A r \in Readers : QueryInv(r)'
  BY <1>1, <1>2, <1>3 DEF FoldInv, QueryInv
<1> QED
  BY <1>6, <1>7, <1>8, <1>9 DEF FoldInv

\* A read resolves and scans; what it keeps agrees with the store at its scan.
LEMMA ReadStep ==
  ASSUME TypeOK, TypeOK', FoldInv, NEW r \in Readers, Read(r)
  PROVE  FoldInv'
<1>1. UNCHANGED <<storeVars, catalogVars, lock, job>>
  BY DEF Read, ResolveShard, RecallSearch, LoadShard, Respond
<1>2. /\ Newest' = Newest /\ Prior' = Prior
      /\ \A g : Watermark(g)' = Watermark(g) /\ Vectors(g)' = Vectors(g)
  BY <1>1 DEF catalogVars, Newest, Prior, Watermark, Vectors
<1>3. StampsInv'
  BY <1>1 DEF FoldInv, StampsInv, storeVars, catalogVars
<1>4. RetainedInv'
  BY <1>1, <1>2 DEF FoldInv, RetainedInv, Covers, Reached, Resident, storeVars, catalogVars
<1>5. \A b \in Builders : JobInv(b)'
  BY <1>1, <1>2 DEF FoldInv, JobInv, SnappedInv, WrittenInv, Covers, storeVars, catalogVars
<1>6. ASSUME NEW q \in Readers, q # r PROVE QueryInv(q)'
  <2>1. resolved'[q] = resolved[q] /\ scan'[q] = scan[q] /\ load'[q] = load[q]
    BY <1>6 DEF Read, ResolveShard, RecallSearch, LoadShard, Respond, TypeOK
  <2> QED
    BY <1>2, <2>1 DEF FoldInv, QueryInv
<1>7. QueryInv(r)'
  <2>0. QueryInv(r) /\ Newest \in Nat
    BY Facts DEF FoldInv
  <2>1. CASE ResolveShard(r)
    <3>1. resolved'[r] = Newest /\ load'[r] = "pending" /\ scan' = scan
      BY <2>1 DEF ResolveShard, TypeOK
    <3>2. ~ scan[r].done
      BY <2>0, <2>1 DEF ResolveShard, QueryInv
    <3> QED
      BY <1>2, <2>0, <3>1, <3>2 DEF QueryInv
  <2>2. CASE RecallSearch(r)
    <3>1. /\ scan'[r].timely = (resolved[r] \in {Newest, Prior})
          /\ scan'[r].want = truth
          /\ \A i \in Ids : scan'[r].rows[i] =
                 IF recall[i].lsn > Watermark(resolved[r]) THEN recall[i] ELSE NoRow
          /\ resolved' = resolved /\ load' = load /\ load[r] # "idle"
      BY <2>2 DEF RecallSearch, TypeOK
    <3>2. ASSUME resolved[r] \in {Newest, Prior}, NEW i \in Ids
          PROVE  truth[i] = IF scan'[r].rows[i].lsn > 0 THEN Version(scan'[r].rows[i])
                                                       ELSE Vectors(resolved[r])[i]
      <4>1. Watermark(resolved[r]) \in Nat /\ recall[i].lsn \in Nat /\ Covers(resolved[r])
        BY <3>2, Facts DEF FoldInv, RetainedInv
      <4>2. CASE recall[i].lsn > Watermark(resolved[r])
        BY <3>1, <4>1, <4>2 DEF FoldInv, StampsInv
      <4>3. CASE ~ (recall[i].lsn > Watermark(resolved[r]))
        BY <3>1, <4>1, <4>3 DEF Covers, NoRow
      <4> QED
        BY <4>2, <4>3
    <3>3. Vectors(resolved[r])' = Vectors(resolved[r])
      BY <1>2, <3>1
    <3> QED
      BY <1>2, <2>0, <3>1, <3>2, <3>3 DEF QueryInv
  <2>3. CASE LoadShard(r)
    <3>1. resolved' = resolved /\ scan' = scan /\ load'[r] # "idle"
      BY <2>3 DEF LoadShard, TypeOK
    <3>2. load'[r] \in {"failed", "empty"} => resolved[r] \notin objects \cup {0}
      BY <2>3 DEF LoadShard, TypeOK
    <3>3. load'[r] \in {"failed", "empty"} => resolved[r] # Newest /\ resolved[r] # Prior
      BY <3>2 DEF FoldInv, RetainedInv
    <3>4. Vectors(resolved[r])' = Vectors(resolved[r])
      BY <1>2, <3>1
    <3> QED
      BY <1>2, <2>0, <3>1, <3>3, <3>4 DEF QueryInv
  <2>4. CASE Respond(r)
    BY <1>2, <2>0, <2>4 DEF Respond, NoScan, QueryInv, TypeOK
  <2> QED
    BY <2>1, <2>2, <2>3, <2>4 DEF Read
<1> QED
  BY <1>3, <1>4, <1>5, <1>6, <1>7 DEF FoldInv

\* Every step preserves the inductive invariant.
LEMMA FoldStep == TypeOK /\ FoldInv /\ [Next]_vars => FoldInv'
<1> SUFFICES ASSUME TypeOK, FoldInv, [Next]_vars PROVE FoldInv'
  OBVIOUS
<1>0. TypeOK'
  BY TypeStep
<1>1. ASSUME NEW winners \in Batches, recall_upsert_vectors(winners) PROVE FoldInv'
  <2>1. /\ Len(winners) \in Nat /\ Written(winners) \subseteq Ids /\ Written(winners) # {}
        /\ \A i \in Written(winners) :
             StampOf(winners, i) \in (last_lsn + 1)..(last_lsn + Len(winners))
    BY Stamps
  <2>2. last_lsn' = last_lsn + Len(winners) /\ last_lsn \in Nat
    BY <1>1 DEF recall_upsert_vectors, TypeOK
  <2>3. \A i \in Ids \ Written(winners) : recall'[i] = recall[i] /\ truth'[i] = truth[i]
    BY <1>1 DEF recall_upsert_vectors
  <2>4. \A i \in Written(winners) :
          /\ recall'[i] = [lsn |-> StampOf(winners, i), deleted |-> FALSE]
          /\ truth'[i] = StampOf(winners, i)
    BY <1>1, <2>1 DEF recall_upsert_vectors
  <2>5. \A i \in Written(winners) :
          /\ recall'[i].lsn > last_lsn /\ recall'[i].lsn <= last_lsn'
          /\ truth'[i] = Version(recall'[i])
    <3> SUFFICES ASSUME NEW i \in Written(winners)
                 PROVE  /\ recall'[i].lsn > last_lsn /\ recall'[i].lsn <= last_lsn'
                        /\ truth'[i] = Version(recall'[i])
      OBVIOUS
    <3>1. PICK s \in (last_lsn + 1)..(last_lsn + Len(winners)) : s = StampOf(winners, i)
      BY <2>1
    <3>2. recall'[i] = [lsn |-> s, deleted |-> FALSE] /\ truth'[i] = s
      BY <2>4, <3>1
    <3> QED
      BY <2>1, <2>2, <3>1, <3>2 DEF Version
  <2>6. \E i \in Ids : recall'[i].lsn > last_lsn
    BY <2>1, <2>5
  <2>7. UNCHANGED <<catalogVars, lock, job, readVars>>
    BY <1>1 DEF recall_upsert_vectors
  <2> QED
    BY <1>0, <2>1, <2>2, <2>3, <2>5, <2>6, <2>7, WriteStep
<1>2. ASSUME NEW i \in Ids, recall_delete_vector(i) PROVE FoldInv'
  <2>1. last_lsn' = last_lsn + 1 /\ last_lsn \in Nat
    BY <1>2 DEF recall_delete_vector, TypeOK
  <2>2. \A j \in Ids \ {i} : recall'[j] = recall[j] /\ truth'[j] = truth[j]
    BY <1>2 DEF recall_delete_vector, TypeOK
  <2>3. recall'[i].lsn = last_lsn + 1 /\ truth'[i] = Version(recall'[i])
    BY <1>2 DEF recall_delete_vector, TypeOK, Version
  <2>4. UNCHANGED <<catalogVars, lock, job, readVars>>
    BY <1>2 DEF recall_delete_vector
  <2> QED
    BY <1>0, <2>1, <2>2, <2>3, <2>4, WriteStep
<1>3. CASE IdleSweep \/ (\E b \in Builders : Skip(b)) \/ UNCHANGED vars
  <2>1. UNCHANGED <<storeVars, catalogVars, lock, job, readVars>>
    BY <1>3 DEF IdleSweep, Skip, vars
  <2>2. /\ Newest' = Newest /\ Prior' = Prior
        /\ \A g : Watermark(g)' = Watermark(g) /\ Vectors(g)' = Vectors(g)
    BY <2>1 DEF catalogVars, Newest, Prior, Watermark, Vectors
  <2> QED
    BY <2>1, <2>2 DEF FoldInv, StampsInv, RetainedInv, Covers, Reached, Resident, JobInv,
       SnappedInv, WrittenInv, QueryInv, storeVars, catalogVars, readVars
<1>4. ASSUME NEW b \in Builders, Take(b) PROVE FoldInv'
  <2>1. JobInv(b)'
    BY <1>4 DEF Take, At, TypeOK, JobInv
  <2>2. \A c \in Builders \ {b} : job'[c] = job[c] /\ job[c].pc = "idle"
    BY <1>4, OthersIdle DEF Take, TypeOK
  <2> QED
    BY <1>4, <2>1, <2>2, JobStep DEF Take, catalogVars
<1>5. ASSUME NEW b \in Builders, Settle(b) PROVE FoldInv'
  <2>1. JobInv(b)'
    BY <1>5 DEF Settle, At, TypeOK, FoldInv, JobInv
  <2>2. \A c \in Builders \ {b} : job'[c] = job[c] /\ job[c].pc = "idle"
    BY <1>5, OthersIdle DEF Settle, TypeOK
  <2> QED
    BY <1>5, <2>1, <2>2, JobStep DEF Settle
<1>6. ASSUME NEW b \in Builders,
             SnapshotEmpty(b) \/ NothingToFold(b) \/ ConsolidateFails(b) \/ Crash(b)
      PROVE  FoldInv'
  <2>1. Release(b) /\ job[b].pc # "idle"
    BY <1>6 DEF SnapshotEmpty, NothingToFold, ConsolidateFails, Crash
  <2>2. JobInv(b)'
    BY <2>1 DEF Release, At, TypeOK, JobInv
  <2>3. \A c \in Builders \ {b} : job'[c] = job[c] /\ job[c].pc = "idle"
    BY <2>1, OthersIdle DEF Release, TypeOK
  <2>4. UNCHANGED <<storeVars, shards, objects, catalog, readVars>>
    BY <1>6 DEF SnapshotEmpty, NothingToFold, ConsolidateFails, Crash, catalogVars
  <2> QED
    BY <2>2, <2>3, <2>4, JobStep
<1> QED
  BY <1>0, <1>1, <1>2, <1>3, <1>4, <1>5, <1>6, SnapshotStep, BuildStep, CommitStep,
     SweepStep, TrimStep, ReadStep DEF Next, Write, Fold

-----------------------------------------------------------------------------
(* The theorems *)

\* Types and the inductive invariant hold in every reachable state: a fold's
\* snapshot, its upload and both retained shards stay consistent with recall.
THEOREM Invariance == Spec => [](TypeOK /\ FoldInv)
<1>1. Init => TypeOK /\ FoldInv
  BY TypeInit, FoldInit
<1>2. TypeOK /\ FoldInv /\ [Next]_vars => (TypeOK /\ FoldInv)'
  BY TypeStep, FoldStep
<1> QED
  BY <1>1, <1>2, PTL DEF Spec

\* Every variable of the consolidation keeps its type, whatever the constants.
THEOREM TypeCorrect == Spec => []TypeOK
BY Invariance, PTL

\* The inductive invariant makes the union of recall and a retained shard exact.
LEMMA UnionIsTruth ==
  ASSUME TypeOK, FoldInv
  PROVE  \A g \in {Newest, Prior} : \A i \in Ids : UnionRead(g, i) = truth[i]
<1> SUFFICES ASSUME NEW g \in {Newest, Prior}, NEW i \in Ids
             PROVE  UnionRead(g, i) = truth[i]
  OBVIOUS
<1>1. Watermark(g) \in Nat /\ recall[i].lsn \in Nat /\ Covers(g)
  BY Facts DEF FoldInv, RetainedInv
<1>2. CASE recall[i].lsn > Watermark(g)
  BY <1>1, <1>2 DEF UnionRead, FoldInv, StampsInv
<1>3. CASE ~ (recall[i].lsn > Watermark(g))
  BY <1>1, <1>3 DEF UnionRead, Covers
<1> QED
  BY <1>2, <1>3

\* No acknowledged write is lost or resurrected: at every moment the union of
\* recall with either retained shard is what the last writes left (I1, I2, I4).
THEOREM WritesSurvive == Spec => []NoWriteLost
<1>1. TypeOK /\ FoldInv => NoWriteLost
  BY UnionIsTruth DEF NoWriteLost
<1> QED
  BY <1>1, Invariance, PTL

\* The inductive invariant makes the merged answer of a timely read exact.
LEMMA AnswersAgree ==
  ASSUME TypeOK, FoldInv, NEW r \in Readers,
         scan[r].done, scan[r].timely, load[r] # "empty"
  PROVE  Answer(r) = scan[r].want
<1>1. scan[r].want \in [Ids -> Nat]
  BY DEF TypeOK, Scans
<1>2. \A i \in Ids : Answer(r)[i] = scan[r].want[i]
  BY DEF Answer, FoldInv, QueryInv
<1>3. Answer(r) = [i \in Ids |-> Answer(r)[i]]
  BY DEF Answer
<1> QED
  BY <1>1, <1>2, <1>3

\* A read that scans recall before its shard is superseded twice answers with the
\* store as it was at that scan.
THEOREM ReadsAreTimely == Spec => []TimelyAnswers
<1>1. TypeOK /\ FoldInv => TimelyAnswers
  BY AnswersAgree DEF TimelyAnswers
<1> QED
  BY <1>1, Invariance, PTL

\* The sweep takes a shard away from a read only after two later commits.
THEOREM SweepIsGraceful == Spec => []SweptOnlyWhenTwiceSuperseded
<1>1. TypeOK /\ FoldInv => SweptOnlyWhenTwiceSuperseded
  BY DEF SweptOnlyWhenTwiceSuperseded, FoldInv, QueryInv
<1> QED
  BY <1>1, Invariance, PTL

\* No step lowers the watermark of the newest generation.
LEMMA WatermarkStep ==
  ASSUME TypeOK, FoldInv, [Next]_vars
  PROVE  Watermark(Newest)' >= Watermark(Newest)
<1>0. TypeOK' /\ Watermark(Newest) \in Nat /\ Newest \in 0..Len(shards)
  BY TypeStep, Facts
<1>1. CASE catalog' = catalog /\ shards' = shards
  BY <1>0, <1>1 DEF Watermark, Newest
<1>2. ASSUME NEW b \in Builders, BuildShard(b) PROVE Watermark(Newest)' >= Watermark(Newest)
  <2>1. Newest' = Newest
    BY <1>2 DEF BuildShard, Newest
  <2>2. \A g \in 1..Len(shards) : shards'[g] = shards[g]
    BY <1>2 DEF BuildShard, TypeOK
  <2>3. Watermark(Newest)' = Watermark(Newest)
    BY <1>0, <2>1, <2>2 DEF Watermark
  <2> QED
    BY <1>0, <2>3
<1>3. ASSUME NEW b \in Builders, CommitShard(b) PROVE Watermark(Newest)' >= Watermark(Newest)
  <2>0. PICK g : g = job[b].shard
    OBVIOUS
  <2>1. Newest' = g /\ shards' = shards
    BY <1>3, <2>0, CommitGenerations DEF CommitShard
  <2>2. Watermark(Newest) <= Watermark(g) /\ Watermark(g) \in Nat
    BY <1>3, <2>0, JobShard, ShardTypes DEF CommitShard, FoldInv, JobInv, WrittenInv
  <2>3. Watermark(Newest)' = Watermark(g)
    BY <2>1 DEF Watermark
  <2> QED
    BY <1>0, <2>2, <2>3
<1>4. ASSUME NEW b \in Builders, SweepObjects(b) \/ SweepRows(b)
      PROVE  Watermark(Newest)' >= Watermark(Newest)
  <2>1. Newest' = Newest /\ shards' = shards
    BY <1>4, SweepGenerations DEF SweepObjects, SweepRows
  <2> QED
    BY <1>0, <2>1 DEF Watermark
<1>5. \/ catalog' = catalog /\ shards' = shards
      \/ \E b \in Builders : BuildShard(b) \/ CommitShard(b) \/ SweepObjects(b) \/ SweepRows(b)
  <2> USE DEF catalogVars
  <2>1. CASE Write \/ IdleSweep \/ UNCHANGED vars
    BY <2>1 DEF Write, recall_upsert_vectors, recall_delete_vector, IdleSweep, vars
  <2>2. CASE \E b \in Builders : Take(b) \/ Skip(b) \/ Fold(b) \/ ConsolidateFails(b) \/ Crash(b)
    BY <2>2 DEF Take, Skip, Fold, Snapshot, SnapshotEmpty, NothingToFold, Settle, Trim,
                ConsolidateFails, Crash
  <2>3. CASE \E r \in Readers : Read(r)
    BY <2>3 DEF Read, ResolveShard, RecallSearch, LoadShard, Respond
  <2> QED
    BY <2>1, <2>2, <2>3 DEF Next
<1> QED
  BY <1>1, <1>2, <1>3, <1>4, <1>5

\* The watermark queries filter recall by never moves back, although each fold
\* takes it from whatever rows are resident.
THEOREM WatermarkIsMonotone == Spec => WatermarkNeverRegresses
<1>1. TypeOK /\ FoldInv /\ [Next]_vars => [Watermark(Newest)' >= Watermark(Newest)]_vars
  BY WatermarkStep
<1> QED
  BY <1>1, Invariance, PTL DEF Spec, WatermarkNeverRegresses

-----------------------------------------------------------------------------
(* Refinement *)

\* Under the invariant the abstract state is the history of writes and scans.
Seen(r) == IF scan[r].done /\ scan[r].timely /\ load[r] \in {"pending", "ok"}
           THEN scan[r].want ELSE NoBuilder

\* The abstract store and answers of a reachable state.
LEMMA AbstractState ==
  TypeOK /\ FoldInv => VisibleStore = truth /\ VisibleAnswer = [r \in Readers |-> Seen(r)]
<1> SUFFICES ASSUME TypeOK, FoldInv
             PROVE  VisibleStore = truth /\ VisibleAnswer = [r \in Readers |-> Seen(r)]
  OBVIOUS
<1>1. VisibleStore = truth
  BY UnionIsTruth DEF TypeOK, VisibleStore
<1>2. ASSUME NEW r \in Readers
      PROVE  VisibleAnswer[r] = Seen(r)
  BY AnswersAgree DEF Seen, VisibleAnswer
<1>3. VisibleAnswer = [r \in Readers |-> Seen(r)]
  BY <1>2 DEF VisibleAnswer
<1> QED
  BY <1>1, <1>3

\* A step after which the writes and what the readers have seen are as before.
LEMMA InvisibleStep ==
  ASSUME TypeOK, FoldInv, TypeOK', FoldInv',
         truth' = truth, last_lsn' = last_lsn, scan' = scan, load' = load
  PROVE  UNCHANGED Promise!vars
<1>1. VisibleStore = truth /\ VisibleAnswer = [r \in Readers |-> Seen(r)]
  BY AbstractState
<1>2. (VisibleStore = truth /\ VisibleAnswer = [r \in Readers |-> Seen(r)])'
  BY AbstractState, PTL
<1>3. \A r \in Readers : Seen(r)' = Seen(r)
  BY DEF Seen
<1> QED
  BY <1>1, <1>2, <1>3 DEF Promise!vars

\* Every step is a step of the abstract store or invisible to it.
LEMMA RefineStep ==
  ASSUME TypeOK, FoldInv, [Next]_vars
  PROVE  [Promise!Next]_(Promise!vars)
<1>0. TypeOK' /\ FoldInv'
  BY TypeStep, FoldStep
<1>1. VisibleStore = truth /\ VisibleAnswer = [r \in Readers |-> Seen(r)]
  BY AbstractState
<1>2. (VisibleStore = truth /\ VisibleAnswer = [r \in Readers |-> Seen(r)])'
  BY <1>0, AbstractState, PTL
<1>3. VisibleStore' = truth' /\ VisibleAnswer' = [r \in Readers |-> Seen(r)']
  BY <1>2
<1> USE DEF storeVars, readVars
<1>4. ASSUME NEW winners \in Batches, recall_upsert_vectors(winners) PROVE Promise!Next
  <2> DEFINE batch == Written(winners)
  <2>1. /\ Len(winners) \in Nat /\ Len(winners) > 0 /\ last_lsn \in Nat
        /\ batch \subseteq Ids /\ batch # {}
        /\ \A i \in batch : StampOf(winners, i) \in (last_lsn + 1)..(last_lsn + Len(winners))
        /\ \A i, j \in batch : StampOf(winners, i) = StampOf(winners, j) => i = j
    BY Stamps DEF TypeOK
  <2>2. last_lsn' = last_lsn + Len(winners)
    BY <1>4 DEF recall_upsert_vectors
  <2>3. \A i \in Ids : truth'[i] = IF i \in batch THEN StampOf(winners, i) ELSE truth[i]
    BY <1>4 DEF recall_upsert_vectors
  <2>4. truth' \in [Ids -> Nat]
    BY <1>0 DEF TypeOK
  <2>5. VisibleAnswer' = VisibleAnswer
    BY <1>1, <1>3, <1>4 DEF recall_upsert_vectors, Seen
  <2> HIDE DEF batch
  <2>6. \A i \in Ids : IF i \in batch THEN truth'[i] \in (last_lsn + 1)..last_lsn'
                                     ELSE truth'[i] = truth[i]
    <3>1. ASSUME NEW i \in batch PROVE truth'[i] \in (last_lsn + 1)..last_lsn'
      BY <2>1, <2>2, <2>3
    <3> QED
      BY <2>3, <3>1
  <2>7. \A i, j \in batch : truth'[i] = truth'[j] => i = j
    BY <2>1, <2>3
  <2>8. last_lsn' \in Nat /\ last_lsn' > last_lsn
    BY <2>1, <2>2
  <2>9. Promise!Put(batch)
    BY <1>1, <1>3, <2>4, <2>5, <2>6, <2>7, <2>8 DEF Promise!Put
  <2>10. batch \in (SUBSET Ids) \ {{}}
    BY <2>1
  <2> QED
    BY <2>9, <2>10 DEF Promise!Next
<1>5. ASSUME NEW i \in Ids, recall_delete_vector(i) PROVE Promise!Next
  <2>1. VisibleAnswer' = VisibleAnswer
    BY <1>1, <1>3, <1>5 DEF recall_delete_vector, Seen
  <2>2. Promise!Delete(i)
    BY <1>1, <1>3, <1>5, <2>1 DEF recall_delete_vector, Promise!Delete
  <2> QED
    BY <2>2 DEF Promise!Next
<1>6. ASSUME NEW r \in Readers, Read(r) PROVE Promise!Next \/ UNCHANGED Promise!vars
  <2>1. truth' = truth /\ last_lsn' = last_lsn /\ VisibleStore' = VisibleStore
    BY <1>1, <1>3, <1>6 DEF Read, ResolveShard, RecallSearch, LoadShard, Respond
  <2>2. \A q \in Readers \ {r} : Seen(q)' = Seen(q)
    BY <1>6 DEF Read, ResolveShard, RecallSearch, LoadShard, Respond, Seen, TypeOK
  <2>3. Seen(r)' \in {Seen(r), truth, NoBuilder}
    <3>1. CASE ResolveShard(r)
      BY <3>1 DEF ResolveShard, Seen, TypeOK, FoldInv, QueryInv
    <3>2. CASE RecallSearch(r)
      BY <3>2 DEF RecallSearch, Seen, TypeOK
    <3>3. CASE LoadShard(r)
      BY <3>3 DEF LoadShard, Seen, TypeOK
    <3>4. CASE Respond(r)
      BY <3>4 DEF Respond, NoScan, Seen, TypeOK
    <3> QED
      BY <1>6, <3>1, <3>2, <3>3, <3>4 DEF Read
  <2>4. VisibleAnswer' = [VisibleAnswer EXCEPT ![r] = Seen(r)']
    BY <1>1, <1>3, <2>2
  <2>5. CASE Seen(r)' = Seen(r)
    <3>1. VisibleAnswer' = VisibleAnswer
      BY <1>1, <1>3, <2>2, <2>5
    <3> QED
      BY <2>1, <3>1 DEF Promise!vars
  <2>6. CASE Seen(r)' = truth
    <3>1. Promise!Read(r)
      BY <1>1, <2>1, <2>4, <2>6 DEF Promise!Read
    <3> QED
      BY <3>1 DEF Promise!Next
  <2>7. CASE Seen(r)' = NoBuilder
    <3>1. Promise!Done(r)
      BY <2>1, <2>4, <2>7 DEF Promise!Done
    <3> QED
      BY <3>1 DEF Promise!Next
  <2> QED
    BY <2>3, <2>5, <2>6, <2>7
<1>7. ASSUME \/ IdleSweep
             \/ UNCHANGED vars
             \/ \E b \in Builders : Take(b) \/ Skip(b) \/ Fold(b) \/ ConsolidateFails(b) \/ Crash(b)
      PROVE  UNCHANGED Promise!vars
  <2>1. truth' = truth /\ last_lsn' = last_lsn /\ scan' = scan /\ load' = load
    BY <1>7 DEF IdleSweep, vars, Take, Skip, Fold, ConsolidateFails, Crash, Snapshot,
       SnapshotEmpty, NothingToFold, BuildShard, CommitShard, Settle, SweepObjects,
       SweepRows, Trim
  <2> QED
    BY <1>0, <2>1, InvisibleStep
<1> QED
  BY <1>4, <1>5, <1>6, <1>7 DEF Next, Write

\* Recall, folds, sweeps, trims, crashes and reads together behave like one store
\* in which a write is visible at once and a timely read returns the store as it
\* was at one moment.
THEOREM Refinement == Spec => RefinesVectorStore
<1>1. Init => Promise!Init
  <2> SUFFICES ASSUME Init PROVE Promise!Init
    OBVIOUS
  <2>1. VisibleStore = truth /\ VisibleAnswer = [r \in Readers |-> Seen(r)]
    BY TypeInit, FoldInit, AbstractState
  <2>2. \A r \in Readers : Seen(r) = NoBuilder
    BY DEF Init, Seen, NoScan
  <2> QED
    BY <2>1, <2>2 DEF Init, Promise!Init
<1>2. TypeOK /\ FoldInv /\ [Next]_vars => [Promise!Next]_(Promise!vars)
  BY RefineStep
<1> QED
  BY <1>1, <1>2, Invariance, PTL DEF Spec, RefinesVectorStore, Promise!Spec
=============================================================================
