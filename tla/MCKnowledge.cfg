\* Agents, imports and the worker with its linker over one graph.
SPECIFICATION Spec
CONSTANTS
  q = q
  d1 = d1
  d2 = d2
  Questions = {q}
  Decisions = {d1, d2}
  Edges <- MCEdges
  Proposals <- MCProposals
  Resolutions <- MCResolutions
  ResolveLists <- MCResolveLists
  Extractions <- MCExtractions
  Timestamp <- MCTimestamp
  LinkLimit = 1
  MaxDecisions = 1
INVARIANTS
  Inv
PROPERTIES
  NothingReverts
  ListedGetResolved
