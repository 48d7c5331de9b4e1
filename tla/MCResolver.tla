----------------------------- MODULE MCResolver -----------------------------
(* Two requests on one engine that differ in their secrets, and two on another *)
(* that differ in the volume they mount.                                       *)
EXTENDS Resolver

CONSTANTS g1, g2, r1, r2, r3, r4

MCEngineOf == [r \in Requests |-> IF r \in {r1, r2} THEN g1 ELSE g2]
MCSettings == [r \in Requests |-> [f \in Fields |->
  CASE f = "id" -> r
    [] f = "mode" -> "exec"
    [] f = "secrets" -> IF r = r1 THEN "old" ELSE "new"
    [] f = "filesystem" -> IF r = r4 THEN "other" ELSE "volume"
    [] OTHER -> "same"]]
=============================================================================
