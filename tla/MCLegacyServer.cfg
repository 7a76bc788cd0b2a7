\* Two producers, a window of two events, a channel of one message.
SPECIFICATION Spec
CONSTANTS
  e1 = e1
  e2 = e2
  e3 = e3
  e4 = e4
  run = run
  post = post
  Events = {e1, e2, e3, e4}
  Dropped = {dropped}
  Malformed = Malformed
  Runner = run
  Posts = {post}
  Loads <- SomeLoads
  Window = 2
  Capacity = 1
  TopN = 1
INVARIANTS
  Inv
PROPERTIES
  EveryEventLeaves
  NewestArrives
\* The stream ends, and nobody has to call.
CHECK_DEADLOCK FALSE
