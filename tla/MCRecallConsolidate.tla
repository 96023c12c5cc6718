------------------------ MODULE MCRecallConsolidate ------------------------
(* Instances of RecallConsolidate for TLC. *)
EXTENDS RecallConsolidate, TLC

IdSymmetry == Permutations(Ids)
=============================================================================
