SPECIFICATION Spec
CONSTANTS
  NUM_CHANS = 1
  NUM_RANKS = 2
  NUM_BANKS = 2
  NUM_ROWS = 2
  NUM_COLS = 1
  CL = 2
  AL = 0
  BL = 4
  tRAS = 5
  tRCD = 3
  tRRD = 2
  tRC = 7
  tRP = 2
  tCCD = 2
  tRTP = 2
  tWTR = 1
  tWR = 2
  tRTRS = 1
  tRFC = 5
  tFAW = 9
  tCKE = 2
  tXP = 1
  tCMD = 1
  RefreshCycles = 36
  TRANS_QUEUE_DEPTH = 1
  CMD_QUEUE_DEPTH = 4
  TOTAL_ROW_ACCESSES = 1
  addressMappingScheme = 2
  Policies <- MCPolicies
  Addresses = {0, 1, 2, 4}
  Gaps = {0, 9}
  MaxTrans = 5
  Patience = 43
INVARIANTS CommandsInTime DataBusExclusive ReadsSeeLastWrite AllServed
PROPERTY RefreshKept
CHECK_DEADLOCK FALSE
