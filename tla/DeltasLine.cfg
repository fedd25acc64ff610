CONSTANTS
  Sizes = {4, 6}
  DeltaNums = {1, 2, 3}
SPECIFICATION Spec
INVARIANT LineNamesHashes
CHECK_DEADLOCK FALSE
