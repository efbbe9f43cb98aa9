SPECIFICATION FairSpec
CONSTANTS
  BufMax = 5
  PacketLen = 2
  Datagrams = {1, 2, 3}
  MaxBytes = 9
  Paces = {TRUE, FALSE}
PROPERTIES ChunksInOrder BytesFlow PutGetsIn
CHECK_DEADLOCK FALSE
