\* Two requests of any kind on one live or paused episode, three VMs (the first one, a
\* replacement, a duplicate), two faults of any kind.
CONSTANTS
  c1 = c1
  c2 = c2
  v1 = v1
  v2 = v2
  v3 = v3
  NoVM = NoVM
  Clients = {c1, c2}
  VMs = {v1, v2, v3}
  Ops = {"step", "pause", "delete"}
  FaultKinds = {"crash", "acquire", "execute", "late_start", "step_timeout", "ttl", "restart"}
  MaxFaults = 2
SPECIFICATION FairEpisodesSpec
INVARIANTS
  EpisodesTypeOK
  RestoreExclusive
  OneWorker
  DurableRoute
PROPERTY
  ClaimReturned
CHECK_DEADLOCK FALSE
