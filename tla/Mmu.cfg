CONSTANTS
  levels = 2
  MemPages = {0, 1}
  IoPages = {2, 3}
  IoCell <- Invalid
  TLB_ENTRIES = 1
  ICACHE_ENTRIES = 1
  InitMem <- MCMem
  Addresses <- MCAddresses
  Stores <- MCStores
  Vms = {TRUE}
  Mprvs = {TRUE, FALSE}
  Pums = {TRUE}
  Mpps = {1}
  Mxrs = {FALSE}
  Roots = {1}
  Triggers <- MCTriggers
  Watched <- MCWatched
  Tracers <- MCTracers
SPECIFICATION Spec
INVARIANTS TlbTruthful DirtyMarked IcacheFresh TracersSeeAll WatchpointsSeen
