------------------------------ MODULE MCZygote ------------------------------
(* Three Python requests, the third of another shape. *)
EXTENDS Zygote

CONSTANTS r1, r2, r3

MCShape == [r \in Requests |-> IF r = r3 THEN "large" ELSE "small"]
=============================================================================
