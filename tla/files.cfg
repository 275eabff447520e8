\* One file; whoever watches the disk, editor, disk, reports and scans race for it.
CONSTANTS
  f1 = f1
  c1 = c1
  c2 = c2
  None = None
  Files = {f1}
  Contents = {c1, c2}
  MaxMoves = 4
SPECIFICATION FairSpec
INVARIANTS TypeOK NoStaleText OpenBufferWins
PROPERTY EventuallySynced
CHECK_DEADLOCK FALSE
