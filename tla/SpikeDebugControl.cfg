CONSTANTS
  Code <- Programs
  MTVEC = 4
  INTERLEAVE = 21
  DebugSlice = 11
  Sessions <- ControlSessions
SPECIFICATION Spec
PROPERTIES StepStopsInProgram HaltsOnAttach StopsOnInterrupt
