\* One run and one cell on a VM; one handler returns Err, nothing else goes wrong.
CONSTANTS
  w1 = w1
  x1 = x1
  Waits = {w1}
  Steps = {}
  Executes = {}
  Sends = {x1}
  Sessions = {}
  Casts = {}
  NoCall = NoCall
  FaultKinds = {"err"}
  MaxFaults = 1
  MaxCasts = 0
SPECIFICATION FairVMServerSpec
PROPERTY
  WaiterAnswered
CHECK_DEADLOCK FALSE
