SPECIFICATION Spec
CONSTANTS
  BufMax = 5
  PacketLen = 2
  Datagrams = {1, 2, 3}
  MaxBytes = 9
  Paces = {FALSE}
INVARIANTS ResetEmpties
CHECK_DEADLOCK FALSE
