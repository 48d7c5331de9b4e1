----------------------------- MODULE MCRLWorker -----------------------------
(* Two engines, one after the other or side by side, and an episode for which warm workers *)
(* of its own or of another shape are booted. *)
EXTENDS RLWorker

CONSTANT e1

MCShape == [e \in Episodes |-> "small"]
=============================================================================
