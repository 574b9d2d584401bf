CONSTANTS
  Code <- Programs
  MTVEC = 4
  INTERLEAVE = 21
  DebugSlice = 11
  Sessions <- DataSessions
SPECIFICATION Spec
INVARIANTS ReadsTruthful StepIsOneInstruction ProgramUndisturbed HaltedAsTold BreakpointsAsBelieved
PROPERTY DebugRamExclusive
