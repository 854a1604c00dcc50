SPECIFICATION FairSpec
CONSTANTS
  c1 = c1
  c2 = c2
  site1 = site1
  site2 = site2
  Creators <- MCOneCreator
  Sites <- MCOneSite
  Types <- MCFiles
  MaxBackups = 2
  MaxJobs = 2
  ConnectionReused = TRUE
  KeepLatest = 1
  StaleAfter = 1
  OrphanAfter = 2
  RetentionOn = TRUE
  MaxAge = 3
PROPERTIES RecordsSettle
