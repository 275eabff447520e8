\* Three requests, and two changes of the text or the settings, or a close and reopening.
CONSTANTS
  Texts <- MCTexts
  Settings <- MCSettings
  What <- MCWhat
  MarksOf <- MCMarksOf
  None = None
  MaxRequests = 3
  MaxMoves = 2
SPECIFICATION MCSpec
INVARIANTS TypeOK AnswersRestore  ScreenShowsMarks
CHECK_DEADLOCK FALSE
