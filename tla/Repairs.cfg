SPECIFICATION Spec
CONSTANTS
  Bundle = {1, 2}
  Leaf = {"README.md", "transfer.lock"}
  MaxRuns = 3
  MaxFaults = 2
CONSTRAINTS LastArchived Unlike RacedToTheEnd
INVARIANTS LiveLockStays AllOrNothing InterruptedIsKnown
PROPERTIES EditStands
CHECK_DEADLOCK FALSE
