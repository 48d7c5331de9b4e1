--------------------------- MODULE MCPoolManager ----------------------------
(***************************************************************************)
(* Model-checking instances of PoolManager.                                *)
(***************************************************************************)
EXTENDS PoolManager, TLC

Symmetry == Permutations(Requests) \cup Permutations(VMs)
=============================================================================
