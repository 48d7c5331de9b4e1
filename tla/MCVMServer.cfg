\* A run and a step block on one VM while a session start does not; one cast, which
\* may shut the engine down; two faults of any kind, so that a caller gives up before
\* an abort, or an engine exits again after its restart.
CONSTANTS
  w1 = w1
  s1 = s1
  e1 = e1
  Waits = {w1}
  Steps = {s1}
  Executes = {e1}
  Sends = {}
  Sessions = {e1}
  Casts = {"interrupt", "shutdown"}
  NoCall = NoCall
  FaultKinds = {"timeout", "err", "die", "exit", "stop"}
  MaxFaults = 2
  MaxCasts = 1
SPECIFICATION FairVMServerSpec
INVARIANTS
  VMServerTypeOK
  AnswerIsOwn
  PendingResolves
PROPERTY
  AnswerComes
CHECK_DEADLOCK FALSE
