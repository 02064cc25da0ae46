SPECIFICATION BootSpec
CONSTANTS
  Lines = 2
  MaxPending = 2
  MayFail = {}
INVARIANT
  ResetsOnAnswer
CHECK_DEADLOCK FALSE
