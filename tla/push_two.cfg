\* Two documents of one compilation profile, all writers and publishers.
CONSTANTS
  f1 = f1
  f2 = f2
  Clean = Clean
  Bad = Bad
  None = None
  Files = {f1, f2}
  Profile = {f1, f2}
  Texts = {Clean, Bad}
  OnType = FALSE
  Semantic = TRUE
  Qihe = TRUE
  FetchFails = TRUE
  MaxMoves = 3
SPECIFICATION FairSpec
INVARIANT TypeOK
PROPERTIES PublishedIsCurrent EventuallyQuiet
CHECK_DEADLOCK FALSE
