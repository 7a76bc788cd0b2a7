\* Hooks of a session share their file without a lock; one fault.
SPECIFICATION Spec
CONSTANTS
  turn = turn
  t1 = t1
  t2 = t2
  f1 = f1
  f2 = f2
  b1 = b1
  Turn = turn
  ToolHooks = {t1, t2}
  MaxLines = 2
  ProseLines = {1, 2}
  MaxTexts = 1
  Files = {f1, f2}
  Touches <- MCTouches
  MaxRecent = 2
  Briefs = {b1}
  MaxFaults = 1
  NoBrief = NoBrief
  Garbled = Garbled
INVARIANTS
  Inv
PROPERTIES
  BriefOnlyWhenChanged
  EveryTextSent
