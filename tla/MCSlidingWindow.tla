-------------------------- MODULE MCSlidingWindow --------------------------
(* Finite instances of SlidingWindow for TLC. *)
EXTENDS SlidingWindow, TLC

(* Calls differ only in what happens to them. *)
RequestSymmetry == Permutations(Requests)
=============================================================================
