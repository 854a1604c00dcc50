SPECIFICATION Spec
CONSTANTS
  r1 = r1
  r2 = r2
  d1 = d1
  d2 = d2
  Requests <- MCOneRequest
  Domains <- MCOneDomain
  Workload <- MCReconfigure
  Runtimes <- MCNode
  MaxSites = 1
  MaxJobs = 4
  MaxPort = 2
  Quota = 2
  MaxAttempts = 2
  SameHost = TRUE
  Faults <- MCNoFaults
INVARIANTS VhostTargetsPort
CHECK_DEADLOCK FALSE
