SPECIFICATION Spec
CONSTANTS
  Vault <- Two
  File = {config, weights}
  Job = {"gather", "giveback"}
  Sources <- MCSources
  Dest <- MCDest
  Keeping = {}
  MaxFaults = 0
  MaxLoss = 0
PROPERTIES RegisteredIsFrozen
CHECK_DEADLOCK FALSE
