\* Two clients with a stream each.
SPECIFICATION Spec
CONSTANTS
  Clients = {c1, c2}
  MaxStreams = 2
  Ticks = 2
  Envs <- OverlapEnvs
INVARIANT StreamsOfOthersStay
