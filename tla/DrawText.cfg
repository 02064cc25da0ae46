SPECIFICATION DrawSpec
CONSTANTS
  Texts <- MCTexts
  Glyph <- MCGlyph
  Kerning <- MCKerning
  HasKerning = TRUE
  StartY = 1
  ScreenW = 26
  ScreenH = 5
  IntMod = 32
  UintnMod = 256
  MayFail <- MCMayFail
INVARIANTS DrawTypeOK DrawnInPlace NoneLost
PROPERTIES DrawEnds
CHECK_DEADLOCK FALSE
