SPECIFICATION MCSpec
CHECK_DEADLOCK FALSE
CONSTANTS
  Encoded <- MCEncoded
  DefaultLimit = 2
  MaxLimit = 3
  Disk <- MCDisk
  Services <- MCServices
  Requests <- MCRequests
  Threads = {t1, t2}
  Clients = {k1, k2}
  Capacity = 2
  Window = 3
  CleanupEvery = 1
  MaxNow = 7
  MaxDecisions = 4
SYMMETRY Symmetric
INVARIANTS RightRouteRuns HostsIsolated
PROPERTY LimiterIsFair
