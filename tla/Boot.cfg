SPECIFICATION BootSpec
CONSTANTS
  Lines = 2
  MaxPending = 2
  MayFail <- MCMayFail
INVARIANTS
  BootTypeOK
  DrawsOnlyWhenReady
  FaceNeedsLibrary
  CleanExit
  NeverByItself
PROPERTIES
  KeyReboots
  ResetsInTheEnd
CHECK_DEADLOCK FALSE
