---------------------------- MODULE MCDeltaTier ----------------------------
(* Instances of DeltaTier for TLC. *)
EXTENDS DeltaTier, TLC

\* Nothing tells two ids apart when every id or none may be deleted.
IdSymmetry == Permutations(Ids)
=============================================================================
