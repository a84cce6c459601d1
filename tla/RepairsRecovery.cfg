SPECIFICATION Spec
CONSTANTS
  Bundle = {1}
  Leaf = {"README.md", "transfer.lock"}
  MaxRuns = 4
  MaxFaults = 2
INVARIANT AlwaysRecoverable
CHECK_DEADLOCK FALSE
