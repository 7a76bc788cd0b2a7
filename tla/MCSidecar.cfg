\* Calls that meet, three starts, a pinned port.
SPECIFICATION Spec
CONSTANTS
  c1 = c1
  c2 = c2
  Clients = {c1, c2}
  First = c1
  MaxRestarts = 3
  MaxPolls = 2
  Pinned = TRUE
INVARIANTS
  Inv
PROPERTIES
  EnsureReturns
  DisposeEnds
