--------------------------- MODULE MCTokenBucket ---------------------------
(* Finite instances of TokenBucket for TLC. *)
EXTENDS TokenBucket, TLC

(* Calls differ only in what happens to them. *)
RequestSymmetry == Permutations(Requests)
=============================================================================
