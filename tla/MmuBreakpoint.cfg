CONSTANTS
  levels = 2
  MemPages = {0, 1}
  IoPages = {2, 3}
  IoCell <- Invalid
  TLB_ENTRIES = 1
  ICACHE_ENTRIES = 1
  InitMem <- MCMem
  Addresses <- MCAddresses
  Stores <- MCStores
  Vms = {TRUE}
  Mprvs = {FALSE}
  Pums = {TRUE, FALSE}
  Mpps = {1}
  Mxrs = {FALSE}
  Roots = {1}
  Triggers <- MCFetchTriggers
  Watched <- MCWatched
  Tracers <- MCNoTracers
SPECIFICATION Spec
INVARIANT BreakpointsSeen
