SPECIFICATION FairSpec
CONSTANTS
  MaxClients = 2
  MaxDecoders = 3
  MaxMedia = 1
INVARIANTS HandlersSafe OneDecoder PlayingIsTornDown CanBeStopped
PROPERTY GoodbyeStops
