---------------------------- MODULE MCAdmission -----------------------------
(***************************************************************************)
(* Model-checking instance of Admission.                                *)
(***************************************************************************)
EXTENDS Admission, TLC

Symmetry == Permutations(Requests)
=============================================================================
