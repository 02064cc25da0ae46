SPECIFICATION HostSpec
CONSTANTS
  Blocks = {b1, b2, b3, b4, b5, b6}
  NoBlock = NoBlock
  Texts <- MCTexts
  MayFail <- MCMayFail
INVARIANTS
  HostTypeOK
  NoStrayPointer
  NothingLeaks
  ShowsText
  ShowsOnlyWhenReady
  GdiReleased
PROPERTIES
  HostEnds
CHECK_DEADLOCK FALSE
