\* Three callers for two slots, a bucket of two tokens that refills with
\* 0.4 tokens a millisecond, and a clock of 7 ms in steps of any length.
CONSTANTS
  r1 = r1
  r2 = r2
  r3 = r3
  Requests = {r1, r2, r3}
  Cap = 2
  Burst = 2
  PerS = 400
  MaxTime = 7
SYMMETRY Symmetry
SPECIFICATION AdmissionSpec
INVARIANTS
  CapRespected
  CounterExact
  WindowBudget
