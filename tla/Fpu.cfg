SPECIFICATION Spec
CONSTANTS
  F32 <- MCF32
  F64 <- MCF64
  IntGuard = 2
  ToIntShift = 8
  Harts = {0, 1}
  Streams <- MCStreams
INVARIANTS CorrectlyRounded OthersCorrect CleanIsSaved FlagsAccrue
CHECK_DEADLOCK FALSE
