\* Every interleaving of reader, sender and client.
SPECIFICATION FairSpec
CONSTANTS
  Files <- MCFiles
  BUFFNUM = 2
  Chunk = 3
INVARIANTS CheckedFreeStays
PROPERTIES WireSpec FramesAreSent DeletionsEnd
