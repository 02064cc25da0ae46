SPECIFICATION ConvSpec
CONSTANTS
  Glyphs <- MCGlyphs
  Heights <- MCHeights
  MayFail = {"Alloc"}
INVARIANTS
  WritesInTarget
  WholePicture
CHECK_DEADLOCK FALSE
