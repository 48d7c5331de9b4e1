\* Four requests on two engines for a program of two files in each language, two crashes.
CONSTANTS
  g1 = g1
  g2 = g2
  r1 = r1
  r2 = r2
  r3 = r3
  r4 = r4
  None = None
  Requests = {r1, r2, r3, r4}
  Engines = {g1, g2}
  EngineOf <- MCEngineOf
  Settings <- MCSettings
  Langs = {"python", "typescript", "native"}
  Files = 2
  MaxCrashes = 2
SPECIFICATION ResolverSpec
INVARIANTS
  ResolverTypeOK
  RunsWhole
  LookupVerified
  SpecAsAsked
CHECK_DEADLOCK FALSE
