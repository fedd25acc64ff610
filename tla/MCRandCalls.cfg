CONSTANTS
  WB = 2
  RANDS_PER_ROUND = 4
  PARALLEL = 2
  feistelF <- MCfeistelF
  Objects <- MCObjects
  Calls <- MCCalls
  W = 5
SPECIFICATION MCSpec
INVARIANTS WholeOrNothing ShortRangeKept
PROPERTIES OneSequence ElementsApart
