\* A workspace client beside Qihe.
CONSTANTS
  a = a
  b = b
  None = None
  Files = {a, b}
  Profile = {a}
  Texts = {0, 1}
  Scopes = {"workspace"}
  QiheScopes = {"workspace"}
  RunsFail = FALSE
  MaxMoves = 2
  MaxQihe = 1
SPECIFICATION Spec
INVARIANTS WorkspaceIdIsTrue
CHECK_DEADLOCK FALSE
