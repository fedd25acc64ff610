CONSTANTS
  Sizes = {4, 5, 6, 9, 12}
  DeltaNums = {1, 2, 3, 4, 5, 6}
  nbC = 4
  nOutliers = 2
  maxEntries = 2
  maxPerEntry = 2
  maxlen = 6
  Orders <- MCOrders
SPECIFICATION Spec
INVARIANT LimitsKept
CHECK_DEADLOCK FALSE
