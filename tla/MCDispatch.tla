----------------------------- MODULE MCDispatch -----------------------------
(* Instances of Dispatch for TLC. *)
EXTENDS Dispatch, TLC

Symmetry == Permutations(Pieces) \cup Permutations(Writers) \cup Permutations(Senders \ (LagFirst \cup Detached))
=============================================================================
