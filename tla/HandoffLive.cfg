SPECIFICATION FairSpec
CONSTANTS
  Vault <- Two
  File = {weights}
  Job = {"gather", "giveback"}
  Sources <- MCSources
  Dest <- MCDest
  Keeping = {}
  MaxFaults = 0
  MaxLoss = 1
PROPERTIES ReleasedIsWhole AssembleEnds
CHECK_DEADLOCK FALSE
