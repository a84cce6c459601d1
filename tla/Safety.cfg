\* The pipeline with two streams, the link with two files, and small instances of
\* the other parts: three commands of two or three processes, one fault.
SPECIFICATION PartsSpec
CONSTANTS
  File <- BigFiles
  Order <- Smallest
  Size <- Chunks
  Copies <- Lone
  Streams = 2
  Budget = 3
  Room = 4
  MaxFaults = 2
  LinkFile = {"a", "b"}
  LinkStreams = 2
  Patience = 2
  Waits = 2
  MaxDrops = 2
  LockProc = {1, 2, 3}
  Host <- Mounters
  HostOf <- MachineOf
  MaxLockRuns = 2
  MaxTexts = 4
  RecordProc = {1, 2}
  MaxRecordRuns = 3
  MaxRecordFaults = 1
  EnvBundle = {"a", "b"}
  VaultOf <- OneVault
  EnvProc = {1, 2}
  MaxEnvRuns = 3
  MaxEnvFaults = 1
  BoardRows = 2
  BoardProc = {1, 2, 3}
  ClientOf <- Machines
  MaxBoardRuns = 3
  MaxBoardFaults = 1
  Source <- Addresses
  Rank <- Sorted
  Resolves <- Pins
  Home <- Pages
  Wish <- Wishes
  Friend <- Friends
  MaxEdits = 2
  MaxCatalogRuns = 2
  Gguf <- Publication
  Begins <- Hyphens
  Group <- Offered
  Height <- Windows
  Lines = 13
  Opening <- Openings
  Published <- Repository
  Digest = {1, 2}
  Index <- Listed
INVARIANTS DigestsFinish FloorKept ExclusiveUnlessRaced TerminalGivenBack RecordsSurvive NoCollision NoDanglingClaim KeysUnique NextServesItsRow ShownIsChosen NothingUniqueSkipped
PROPERTIES NoEndUntried ForeignLockStays TextStands ProbedIsWhole PruneKeepsListed
\* Every part comes to an end: nothing is left to happen then.
CHECK_DEADLOCK FALSE
