SPECIFICATION FtSpec
CONSTANTS
  MayFail = {"Open", "Alloc", "ReadClean"}
  PosMod = 64
  LongMod = 16
  Sizes <- MCSizes
  Offsets <- MCUpToFour
  Counts <- MCUpToFour
  Scalars <- MCScalars
  Blocks = {b1, b2}
  NoBlock = NoBlock
  FontBlock = FontBlock
INVARIANTS
  FtTypeOK
  PosAgree
  OnlyRealBytes
  FromTheRightPlace
  FrameIsAWindow
  OneOwner
PROPERTY
  ImplementsByteStream
CHECK_DEADLOCK FALSE
