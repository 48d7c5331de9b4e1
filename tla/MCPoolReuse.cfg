\* Reusable VMs handed round by Pool.release: two callers for two VMs, two idle
\* insertions before the last acquire (so a VM is released, taken again and released
\* while another caller still scans old candidates), one retire or prewarm cast, one
\* engine death.
CONSTANTS
  r1 = r1
  r2 = r2
  v1 = v1
  v2 = v2
  Manager = Manager
  NoVM = NoVM
  Requests = {r1, r2}
  VMs = {v1, v2}
  Cap = 2
  MaxNow = 2
  Endings = {"release"}
  OneShot = FALSE
  Scaling = {"retire", "prewarm"}
  MaxCasts = 1
  MaxBatch = 1
  FaultKinds = {"death"}
  MaxFaults = 1
SYMMETRY Symmetry
SPECIFICATION PoolSpec
INVARIANTS
  PoolTypeOK
  ExclusiveHold
  IdleIndexed
  NoSlotLeak
CHECK_DEADLOCK FALSE
