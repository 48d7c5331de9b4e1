\* One-shot VMs, callers that release or stop them: three callers for two slots, so
\* that one is refused; a prewarm of up to two engines fills the bucket they race for;
\* one acquire_cold timeout.
CONSTANTS
  r1 = r1
  r2 = r2
  r3 = r3
  v1 = v1
  v2 = v2
  Manager = Manager
  NoVM = NoVM
  Requests = {r1, r2, r3}
  VMs = {v1, v2}
  Cap = 2
  MaxNow = 2
  Endings = {"release", "stop"}
  OneShot = TRUE
  Scaling = {"prewarm"}
  MaxCasts = 1
  MaxBatch = 2
  FaultKinds = {"timeout"}
  MaxFaults = 1
SPECIFICATION FairPoolSpec
INVARIANTS
  NoOverAdmission
PROPERTIES
  ImplementsLease
  AcquireEnds
CHECK_DEADLOCK FALSE
