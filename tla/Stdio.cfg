SPECIFICATION StdioSpec
CONSTANTS
  Blocks = {b1, b2, b3, b4}
  NULL = NULL
  Handles = {h1, h2, h3, h4}
  Overhead = 2
  SizeMod = 6
  MayFail <- MCMayFail
  Names <- MCNames
  Length <- MCLength
  Present = {"font"}
  Modes <- MCModes
  FileSize = 3
  Sizes = {0, 1, 3}
SYMMETRY MCSymmetry
INVARIANTS
  OneOwnerEach
  AsLargeAsAsked
PROPERTIES
  FailureSaysWhy
  ReallocKeeps
