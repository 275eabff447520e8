CONSTANTS
  f1 = f1
  c1 = c1
  c2 = c2
  None = None
  Files = {f1}
  Contents = {c1, c2}
  MaxMoves = 3
SPECIFICATION Spec
INVARIANT NeverPanics
CHECK_DEADLOCK FALSE
