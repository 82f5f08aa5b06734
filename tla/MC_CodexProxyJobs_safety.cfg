\* One job with fair threads, a launch that may raise and a CLI that may
\* leave a process holding its pipes: safety, the refinement of JobApi, and
\* JobApi's liveness wherever the pipes are released.
CONSTANTS
  j1 = j1
  NoCode = NoCode
  Jobs <- MC_OneJob
  Streams <- MC_Streams
  MaxLines = 2
  MaxTime = 3
  Retention = 1
  SpawnMayFail = TRUE
  GrandchildMayHold = TRUE
SPECIFICATION FairSpec
INVARIANTS
  TypeOK
  FinalOutputComplete
PROPERTIES
  ApiRefinement
  ApiFairRefinement
