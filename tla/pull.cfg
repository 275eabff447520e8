\* A document client beside Qihe, and a workspace client without; one file has a profile.
CONSTANTS
  a = a
  b = b
  None = None
  Files = {a, b}
  Profile = {a}
  Texts = {0, 1}
  Scopes = {"document", "workspace"}
  QiheScopes = {"document"}
  RunsFail = FALSE
  MaxMoves = 2
  MaxQihe = 1
SPECIFICATION FairSpec
INVARIANTS TypeOK UnchangedIsTrue
PROPERTIES EventuallyShown
CHECK_DEADLOCK FALSE
