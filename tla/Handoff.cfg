SPECIFICATION Spec
CONSTANTS
  Vault <- Two
  File = {config, weights}
  Job = {"gather", "giveback"}
  Sources <- MCSources
  Dest <- MCDest
  Keeping = {}
  MaxFaults = 1
  MaxLoss = 0
INVARIANTS HandedOffIsSomewhere
PROPERTIES LastCopyStays DissolvedIsElsewhere
CHECK_DEADLOCK FALSE
