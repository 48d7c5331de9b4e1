\* Two steps on one live or paused episode, three VMs (the first one and two
\* replacements), at most one engine crash and no other fault.
CONSTANTS
  c1 = c1
  c2 = c2
  v1 = v1
  v2 = v2
  v3 = v3
  NoVM = NoVM
  Clients = {c1, c2}
  VMs = {v1, v2, v3}
  Ops = {"step"}
  FaultKinds = {"crash"}
  MaxFaults = 1
SPECIFICATION EpisodesSpec
SYMMETRY Symmetry
INVARIANT NoDuplicateWorker
CHECK_DEADLOCK FALSE
