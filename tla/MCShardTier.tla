---------------------------- MODULE MCShardTier ----------------------------
(* Instances of ShardTier for TLC. *)
EXTENDS ShardTier, TLC

CONSTANTS Large  \* URIs of two bytes; the others have one

MCSize == [u \in Uris |-> IF u \in Large THEN 2 ELSE 1]

\* Threads are interchangeable.
Symmetry == Permutations(Threads)
=============================================================================
