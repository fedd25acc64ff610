CONSTANTS
  U32 = 8
  U64 = 64
  ProgressEvery = 2
  progress_nl_every = 2
  UintMax = 8
  Setups <- MCSetups
SPECIFICATION Spec
INVARIANTS ScannedOnce AllAnnounced ProgressColumn NewReported FailsCounted
PROPERTIES ImplementsSeedSearch Terminates
CHECK_DEADLOCK FALSE
