--------------------------- MODULE MCFixedWindow ---------------------------
(* Finite instances of FixedWindow for TLC. *)
EXTENDS FixedWindow, TLC

(* Calls differ only in what happens to them. *)
RequestSymmetry == Permutations(Requests)
=============================================================================
