\* Sessions, reports and restarts interleaved.
SPECIFICATION Spec
CONSTANTS
  S1 = S1
  S2 = S2
  i1 = i1
  i2 = i2
  Sessions = {S1, S2}
  Items = {i1, i2}
  SessionOf <- MCSessionOf
  ScratchItems = {edit}
  Handlers = {h1, h2}
  Reports = {r1}
  NoSession = none
SYMMETRY HandlerSymmetry
INVARIANTS
  Inv
  OlderIsNotMilder
  ResolvedIsSettled
