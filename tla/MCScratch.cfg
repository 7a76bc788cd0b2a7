\* Ring buffers, eviction, and the debt detectors over every log of five calls.
SPECIFICATION Spec
CONSTANTS
  s1 = s1
  s2 = s2
  s3 = s3
  f = f
  g = g
  Sessions = {s1, s2, s3}
  Files = {f, g}
  ToolEvents <- MCToolEvents
  RuleFiles <- MCRuleFiles
  MaxEntries = 2
  MaxSessions = 2
  MaxEvents = 5
INVARIANTS
  Inv
  UnverifiedIsUnchecked
  FailuresAreCurrent
