SPECIFICATION Spec
CONSTANTS
  Proc = {p}
  MaxRuns = 2
  MaxFaults = 2
INVARIANT UpstreamMismatchStays
CHECK_DEADLOCK FALSE
