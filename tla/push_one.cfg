\* One document, edited, closed and reopened while the workspace reloads.
CONSTANTS
  f1 = f1
  f2 = f2
  Clean = Clean
  Bad = Bad
  None = None
  Files = {f1}
  Profile = {f1}
  Texts = {Clean, Bad}
  OnType = TRUE
  Semantic = TRUE
  Qihe = FALSE
  FetchFails = FALSE
  MaxMoves = 5
SPECIFICATION Spec
INVARIANT OpenIsShown
CHECK_DEADLOCK FALSE
