\* Two documents that have nothing to do with each other.
CONSTANTS
  f1 = f1
  f2 = f2
  Clean = Clean
  Bad = Bad
  None = None
  Files = {f1, f2}
  Profile = {}
  Texts = {Clean, Bad}
  OnType = TRUE
  Semantic = FALSE
  Qihe = FALSE
  FetchFails = FALSE
  MaxMoves = 2
SPECIFICATION Spec
INVARIANT Converges
CHECK_DEADLOCK FALSE
