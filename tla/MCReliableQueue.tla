-------------------------- MODULE MCReliableQueue --------------------------
(* Instances of ReliableQueue for TLC. *)
EXTENDS ReliableQueue, TLC

\* Messages, workers and reapers are interchangeable.
Symmetry == Permutations(Msgs) \cup Permutations(Workers) \cup Permutations(Reapers)
=============================================================================
