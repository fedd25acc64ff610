CONSTANTS
  RADIX_SIZE = 3
  LEN = 3
  SMALLSORT_CUTOFF = 2
  Lists <- MCLists
  Idxvecs <- MCIdxvecs
  Types <- MCTypes
SPECIFICATION Spec
INVARIANTS IndicesFollow SentinelBefore BlocksFill BlocksOrdered
PROPERTY Terminates
CHECK_DEADLOCK FALSE
