CONSTANTS
  j1 = j1
  NoCode = NoCode
  Jobs <- MC_OneJob
  Streams <- MC_Streams
  MaxLines = 2
  MaxTime = 3
  Retention = 1
  SpawnMayFail = FALSE
  GrandchildMayHold = TRUE
SPECIFICATION FairSpec
PROPERTY
  JobCompletes
