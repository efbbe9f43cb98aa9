SPECIFICATION FairSpec
CONSTANTS
  bufsize = 5
  TSPACKETLEN = 2
  DatagramLens <- MCDatagramLens
  ReadPackets = 2
  DtorLoops = 2
  MaxBytes = 12
  Streams <- MCStreams
INVARIANTS
  RingHoldsLatest NothingUndefined
PROPERTIES
  StreamSpec PacketsFlow DtorEnds
