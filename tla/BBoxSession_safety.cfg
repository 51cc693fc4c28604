SPECIFICATION Spec

CONSTANTS
  Answers = {0, 1, 2}
  Conns = {c1, c2}
  Items = {c1, c2}
  MaxBuffer = 2

INVARIANT ThreadObjectsSafe
INVARIANT PushThreadWithinConnection
INVARIANT StopEndsThreads
INVARIANT StopLeavesNothing
PROPERTY TearsOnlyWhilePushing

SYMMETRY ConnSymmetry

CHECK_DEADLOCK FALSE
