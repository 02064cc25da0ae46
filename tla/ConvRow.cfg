SPECIFICATION ConvSpec
CONSTANTS
  Glyphs <- MCGlyphs
  Heights <- MCHeights
  MayFail = {"Alloc"}
INVARIANT
  ReadsOwnRow
CHECK_DEADLOCK FALSE
