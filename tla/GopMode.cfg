SPECIFICATION GopSpec
CONSTANTS
  MaxModes = 4
  Widths <- MCWidths
  ScreenWidth = 2
  Formats = {BGR, RGB}
  BGR = BGR
INVARIANTS
  GopTypeOK
  BestSoFar
  SetOnlyUsable
PROPERTIES
  NeverPassesScreenWidth
  SelectionEnds
CHECK_DEADLOCK FALSE
