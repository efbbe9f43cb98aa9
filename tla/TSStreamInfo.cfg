SPECIFICATION Spec
CONSTANTS
  Streams <- MCStreams
  MaxFrames = 5
  MaxMore = 4
INVARIANTS
  RateTrue
  PcrExact
PROPERTIES
  LogSpec
  Metered
CHECK_DEADLOCK FALSE
