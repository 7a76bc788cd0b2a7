\* All graphs of four nodes over four kinds of pairs, and some of six.
SPECIFICATION Spec
CONSTANTS
  Graphs <- MCGraphs
  MaxIterations = 100
INVARIANTS
  Inv
PROPERTIES
  ModularityGrows
  EndsSettled
