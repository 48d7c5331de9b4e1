--------------------------- MODULE MCSessionCells --------------------------
(* Two cells of a session and one RL worker booted in the background. *)
EXTENDS SessionCells

CONSTANTS c1, c2, w1

MCLanguage == [j \in {c1, c2, w1} |-> IF j = w1 THEN "rl" ELSE "python"]
=============================================================================
