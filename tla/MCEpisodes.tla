----------------------------- MODULE MCEpisodes -----------------------------
(***************************************************************************)
(* Model-checking instances of Episodes.                                   *)
(***************************************************************************)
EXTENDS Episodes, TLC

Symmetry == Permutations(Clients) \cup Permutations(VMs)
=============================================================================
