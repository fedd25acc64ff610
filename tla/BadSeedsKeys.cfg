CONSTANTS
  numtestbytes = 10
  numtestlens = 9
SPECIFICATION Spec
INVARIANT ReportNamesKey
CHECK_DEADLOCK FALSE
