CONSTANTS
  MaxChunks <- MCMaxChunks
  Cap = 1
  MaxEnds = 2
SPECIFICATION FairSpec
INVARIANTS NothingLost CountedOnce
PROPERTY ImplementsStreams
CHECK_DEADLOCK FALSE
