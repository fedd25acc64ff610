CONSTANTS
  g_NCPU = 3
  reps = 4
  keybits = 2
  hashbits = 2
  totaldots = 3
  hash <- MCHash
  NoReport = NoReport
SPECIFICATION Spec
INVARIANTS TypeOK BinsCount MergeAfterThreads AllDots
PROPERTIES ImplementsBiasCount Terminates
CHECK_DEADLOCK FALSE
