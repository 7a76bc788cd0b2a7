\* The store in front of sled, with failing writes, crashes and a migration.
SPECIFICATION Spec
CONSTANTS
  n1 = n1
  n2 = n2
  e1 = e1
  e2 = e2
  s1 = s1
  s2 = s2
  NodeIds = {n1, n2}
  EdgeIds = {e1, e2}
  Sessions = {s1, s2}
  TypeOf <- MCTypeOf
  SessionOf <- MCSessionOf
  EdgeOf <- MCEdgeOf
  OrderKeys = {0, 1, 2}
  LegacyBlobs <- MCLegacyBlobs
  Empty = Empty
INVARIANTS
  TypeOK
  WellFormed
  ResolveChecksHold
  SledMirrorsGraph
PROPERTIES
  CleanRestart
  KeepsContract
