\* Three process ids on two machines, one run each: all attempts race.
SPECIFICATION Spec
CONSTANTS
  Proc = {1, 2, 3}
  Host <- Machines
  HostOf <- MachineOf
  MaxRuns = 1
INVARIANTS MutualExclusion
\* When every id has had its runs, nothing is left to happen.
CHECK_DEADLOCK FALSE
