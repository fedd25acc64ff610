CONSTANTS
  Sizes = {4, 5, 6, 9, 12}
  DeltaNums = {1, 2, 3, 4, 5, 6}
  nbC = 4
  nOutliers = 2
  maxEntries = 2
  maxPerEntry = 2
  maxlen = 6
  Orders <- MCOrders
  bitlen = 4
  Lists <- MCLists
  Settings <- MCSettings
  MAX_ENTRIES = 2
  MAX_PER_ENTRY = 3
SPECIFICATION MCSpec
INVARIANTS GridNamesHashes BoundRight ShownRight KeysNamed ReportsRight CollisionsNamed ListKept
CHECK_DEADLOCK FALSE
