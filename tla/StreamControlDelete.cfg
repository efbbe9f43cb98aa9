\* A client deletes a stream and goes.
SPECIFICATION Spec
CONSTANTS
  Clients = {c1}
  MaxStreams = 1
  Ticks = 2
  Envs <- SingleEnvs
INVARIANT DeleteIsSafe
