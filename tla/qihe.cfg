\* One thread, two runs, four requests that come before them in the pool.
CONSTANTS
  t1 = t1
  None = None
  Threads = {t1}
  MaxRuns = 2
  MaxQuick = 4
  MaxMoves = 1
SPECIFICATION FairSpec
INVARIANTS TypeOK BurstBounded OneProgress
PROPERTIES OnlyLatestCommitted EverythingEnds
CHECK_DEADLOCK FALSE
