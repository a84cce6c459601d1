\* The pipeline with one stream: the free-space floor and the budget leave room for
\* all files.  The instances of the lock and of the link are in MCLiveness.
SPECIFICATION MCSpec
CONSTANTS
  File <- BigFiles
  Order <- Smallest
  Size <- OneChunk
  Copies <- OneSibling
  Streams = 1
  Budget = 9
  Room = 4
  MaxFaults = 3
INVARIANTS CompleteMeansAll
PROPERTIES AttemptsEnd LoopEnds FetchesEnd
\* Every part comes to an end: nothing is left to happen then.
CHECK_DEADLOCK FALSE
