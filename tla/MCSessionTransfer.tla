------------------------- MODULE MCSessionTransfer -------------------------
(* Model-checking instance of SessionTransfer: the constants are given in
   the .cfg files; Transfers and Calls are sets of model values. *)
EXTENDS SessionTransfer, TLC

\* Transfers and calls are interchangeable names (safety runs only).
Symmetry == Permutations(Transfers) \cup Permutations(Calls)
=============================================================================
