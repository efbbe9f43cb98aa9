\* Deleting a stream.
SPECIFICATION FairSpec
CONSTANTS
  Files <- MCFullPool
  BUFFNUM = 2
  Chunk = 3
PROPERTY StopCompletes
