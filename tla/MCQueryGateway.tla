--------------------------- MODULE MCQueryGateway ---------------------------
(* Instances of QueryGateway for TLC. *)
EXTENDS QueryGateway, TLC

\* The slots of requests are alike.
SlotSymmetry == Permutations(Slots)
=============================================================================
