SPECIFICATION Spec
CONSTANTS
  r1 = r1
  r2 = r2
  d1 = d1
  d2 = d2
  Requests <- MCOneRequest
  Domains <- MCOneDomain
  Workload <- MCDeploy
  Runtimes <- MCStatic
  MaxSites = 1
  MaxJobs = 3
  MaxPort = 1
  Quota = 2
  MaxAttempts = 1
  SameHost = TRUE
  Faults <- MCNoFaults
INVARIANTS DeletedIsCleaned
CHECK_DEADLOCK FALSE
