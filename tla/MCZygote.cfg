\* Three requests in any order; one of them needs a zygote of another shape; two faults.
CONSTANTS
  r1 = r1
  r2 = r2
  r3 = r3
  Requests = {r1, r2, r3}
  Shape <- MCShape
  None = None
  FaultKinds = {"boot", "zygote_dies", "add_pid", "oom_middle", "layer"}
  MaxFaults = 2
SPECIFICATION FairZygoteSpec
INVARIANTS
  ZygoteTypeOK
  StatusIsOwn
  ForkConfined
  NoForkLeft

  
CHECK_DEADLOCK FALSE
