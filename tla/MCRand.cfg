CONSTANTS
  PARALLEL = 2
  U64 = 16
  Seeds = {s1, s2}
  Offsets <- MCOffsets
  Requests <- MCRequests
SPECIFICATION Spec
INVARIANTS CacheCoherent SeekReplays RandNConcatenates
PROPERTIES ImplementsStream
