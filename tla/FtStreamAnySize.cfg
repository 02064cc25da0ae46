SPECIFICATION FtSpec
CONSTANTS
  MayFail = {"ReadClean", "ReadPartial"}
  PosMod = 32
  LongMod = 8
  Sizes <- MCAnySizes
  Offsets <- MCUpToSeven
  Counts <- MCUpToFour
  Scalars = {}
  Blocks = {b1}
  NoBlock = NoBlock
  FontBlock = FontBlock
PROPERTY
  ImplementsByteStream
CHECK_DEADLOCK FALSE
