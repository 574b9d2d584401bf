CONSTANTS
  Code <- Programs
  MTVEC = 4
  INTERLEAVE = 21
  DebugSlice = 11
  Sessions <- AttachSessions
SPECIFICATION Spec
PROPERTY HaltsOnAttach
