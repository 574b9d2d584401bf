SPECIFICATION Spec
CONSTANTS
  Scenarios <- MCScenarios
  INTERLEAVE = 3
  DebugSteps = 2
  MaxTime = 2
  BusBits = 5
  DEBUG_START = 1
  DEBUG_SIZE = 2
  DEFAULT_RSTVEC = 4
  EXT_IO_BASE = 8
  DRAM_BASE = 24
  memsz = 4
  Align = 2
INVARIANTS ReservationHolds TimerLevel InterruptsTimely
PROPERTIES ReturnRestores GuestConfined ConfigStringTrue HartsRotate
