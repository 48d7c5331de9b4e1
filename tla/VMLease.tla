------------------------------ MODULE VMLease -------------------------------
(***************************************************************************)
(* What Pool.Manager.acquire promises its callers, whatever tables, index  *)
(* and processes it is built from: a VM is lent to one request at a time,  *)
(* a request has at most one VM, and at most Cap of them are lent at once. *)
(***************************************************************************)
EXTENDS Integers, FiniteSets

CONSTANTS Requests, VMs, Cap, Nobody

VARIABLE lease   \* who has each VM

Lent == {v \in VMs : lease[v] # Nobody}

LeaseInit == lease = [v \in VMs |-> Nobody]

Grant(v, r) ==
  /\ lease[v] = Nobody
  /\ \A u \in VMs : lease[u] # r
  /\ Cardinality(Lent) < Cap
  /\ lease' = [lease EXCEPT ![v] = r]

Return(v) ==
  /\ lease[v] # Nobody
  /\ lease' = [lease EXCEPT ![v] = Nobody]

LeaseNext == \E v \in VMs : Return(v) \/ \E r \in Requests : Grant(v, r)

LeaseSpec == LeaseInit /\ [][LeaseNext]_lease
=============================================================================
