SPECIFICATION Spec
CONSTANTS
  r1 = r1
  r2 = r2
  d1 = d1
  d2 = d2
  Requests <- MCTwoRequests
  Domains <- MCTwoDomains
  Workload <- MCPortOps
  Runtimes <- MCNode
  MaxSites = 2
  MaxJobs = 1
  MaxPort = 2
  Quota = 2
  MaxAttempts = 2
  SameHost = FALSE
  Faults <- MCPortFaults
INVARIANTS PortsUnique
CONSTRAINT MCBound
SYMMETRY MCSymmetry
