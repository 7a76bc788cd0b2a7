\* Hooks of two versions share a project; two faults.
SPECIFICATION Spec
CONSTANTS
  h1 = h1
  h2 = h2
  p1 = p1
  p2 = p2
  p3 = p3
  Hooks = {h1, h2}
  VersionOf <- MCVersionOf
  PinnedHooks = {h2}
  Ports = {8080, 40000}
  ARMIN_PORT = 8080
  Pids = {p1, p2, p3}
  MaxFaults = 2
  Nobody = Nobody
INVARIANTS
  Inv
PROPERTIES
  EnsureReturns
  StrayLeaves
  HooksGetEngine
