SPECIFICATION Spec
CONSTANTS
  c1 = c1
  c2 = c2
  site1 = site1
  site2 = site2
  Creators <- MCCreators
  Sites <- MCOneSite
  Types <- MCTypes
  MaxBackups = 2
  MaxJobs = 2
  ConnectionReused = FALSE
  KeepLatest = 1
  StaleAfter = 1
  OrphanAfter = 2
  RetentionOn = TRUE
  MaxAge = 3
INVARIANTS OnePendingPerTarget 
 
