\* Two cells, one after the other, and a worker; a host that may refuse CLONE_INTO_CGROUP and any one failure;
\* the second cell of the set has wall_ms = 0.
CONSTANTS
  c1 = c1
  c2 = c2
  w1 = w1
  Execs = {c1, c2}
  Workers = {w1}
  Language <- MCLanguage
  ZeroWall = {c2}
  MaxPooled = 1
  NestedHost = TRUE
  NoCg = NoCg
  None = None
  FaultKinds = {"configure", "prepare", "restore_netns", "id_maps", "add_pid", "drain", "layer", "dump"}
  MaxFaults = 1
SPECIFICATION FairSessionSpec
INVARIANTS
  SessionTypeOK
  
  LimitsInForce
  SetupSound
  OutlivesOnlyUnplaced
  CellResultIsOwn
  
PROPERTY
  CellAnswered
CHECK_DEADLOCK FALSE
