\* Two engines of one host, one episode, warm workers of its own shape and of another, a
\* checkpoint every second step, four commands and one fault.
CONSTANTS
  e1 = e1
  None = None
  Torn = Torn
  Lost = Lost
  Gone = Gone
  Hello = Hello
  Engines = {1, 2}
  Episodes = {e1}
  Workers = {1, 2, 3}
  WarmDepth = 1
  Shapes = {"small", "large"}
  Shape <- MCShape
  SnapshotEvery = 2
  Batch = 2
  MaxSteps = 2
  FaultKinds = {"crash", "die", "rename", "save", "launch", "manifest", "frame"}
  MaxFaults = 1
  MaxCmds = 4
SPECIFICATION RLSpec
INVARIANTS
  RLTypeOK
  TickIsOwn
  
  
CHECK_DEADLOCK FALSE
