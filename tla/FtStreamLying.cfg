SPECIFICATION FtSpec
CONSTANTS
  MayFail = {"ReadLying", "ReadTooSmall"}
  PosMod = 64
  LongMod = 16
  Sizes <- MCSizes
  Offsets <- MCUpToFour
  Counts <- MCUpToFour
  Scalars <- MCScalars
  Blocks = {b1}
  NoBlock = NoBlock
  FontBlock = FontBlock
INVARIANT
  OnlyRealBytes
CHECK_DEADLOCK FALSE
