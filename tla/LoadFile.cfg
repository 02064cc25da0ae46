SPECIFICATION LoadSpec
CONSTANTS
  ErrorBit = 64
  LongMod = 4
  FileSizes = {0, 1, 3, 4, 5}
  Statuses <- MCStatuses
INVARIANTS
  LoadTypeOK
  BufferIsFile
  MessageTellsStatus
CHECK_DEADLOCK FALSE
