SPECIFICATION Spec
CONSTANTS
  Vault = {"desk", "nas", "usb"}
  First = {"desk"}
  Disk <- MCDisk
  Files = 2
  Cmd = {p, q}
  MaxRuns = 3
  MaxFaults = 1
INVARIANTS RecordNamesItsHome
PROPERTIES NothingLost ArrivesWhole
CONSTRAINTS Unraced LastWaits
SYMMETRY Sym
CHECK_DEADLOCK FALSE
