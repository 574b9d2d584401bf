CONSTANTS
  Values <- MCValues
  Capacity = 15
  SendCapacity = 9
  Chunks = {}
  Commands <- MCCommands
  Base = 2
  Digit <- MCDigit
  Code <- MCCode
  MaxSteps = 4
SPECIFICATION PacketSpec
CHECK_DEADLOCK FALSE
INVARIANTS HandledAsSent RepliesWellFormed
PROPERTIES ClientKept Answered
