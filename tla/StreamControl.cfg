\* Two clients, one after the other or at once.
SPECIFICATION FairSpec
CONSTANTS
  Clients = {c1, c2}
  MaxStreams = 2
  Ticks = 2
  Envs <- PassEnvs
INVARIANTS NeverUndefined NoOrphan TidNamesOwnStream
PROPERTIES StopEnds CloseEnds
