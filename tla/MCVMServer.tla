----------------------------- MODULE MCVMServer -----------------------------
(***************************************************************************)
(* Model-checking instances of VMServer.                                   *)
(***************************************************************************)
EXTENDS VMServer
=============================================================================
