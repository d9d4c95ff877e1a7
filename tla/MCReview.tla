------------------------------ MODULE MCReview ------------------------------
(***************************************************************************)
(* Instances of Review for TLC.                                            *)
(***************************************************************************)
EXTENDS Review, TLC

Symmetry == Permutations(Slots) \cup Permutations(Sessions) \cup Permutations(Crons)
=============================================================================
