CONSTANTS
  Values = {a, b}
  Capacity = 5
  MaxChunk = 5
  Chunks <- MCChunks
SPECIFICATION Spec
CHECK_DEADLOCK FALSE
PROPERTIES ImplementsFifo AbortOnlyNearFull
