CONSTANTS
  g_NCPU = 3
  hashbits = 6
  hashes <- MCHashes
  batch_size = 2
  maxwidth = 3
  minwidth = 1
  U8 = 4
  Unscored = Unscored
  NoReport = NoReport
SPECIFICATION Spec
INVARIANTS BinsExact
PROPERTIES ImplementsSliceScores Terminates
CHECK_DEADLOCK FALSE
