SPECIFICATION Spec
CONSTANTS
  p1 = p1
  p2 = p2
  p3 = p3
  t1 = t1
  c1 = c1
  c2 = c2
  Prose = {p1, p2, p3}
  Tools = {t1}
  Clients = {c1, c2}
  QueueCapacity = 1
  BatchEvents = 2
  MaxRequest = 2
INVARIANTS
  Inv
  NothingLostInDrain
PROPERTIES
  KeepsLine
  EveryEventLeaves
  ShutdownEnds
