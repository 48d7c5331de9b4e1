\* Two requests of one engine that differ in their secrets only.
CONSTANTS
  g1 = g1
  g2 = g2
  r1 = r1
  r2 = r2
  r3 = r3
  r4 = r4
  None = None
  Requests = {r1, r2}
  Engines = {g1, g2}
  EngineOf <- MCEngineOf
  Settings <- MCSettings
  Langs = {"python"}
  Files = 1
  MaxCrashes = 0
SPECIFICATION ResolverSpec
INVARIANT SpecIsOwn
CHECK_DEADLOCK FALSE
