CONSTANTS
  g_NCPU = 2
  reps = 6
  keybits = 3
  hashbits = 8
  wordbits = 4
  MinExpect = 1
  changed <- MCChanged
  NoReport = NoReport
SPECIFICATION Spec
INVARIANTS InVectors WorstReported
PROPERTIES ImplementsBiasCount Terminates
CHECK_DEADLOCK FALSE
