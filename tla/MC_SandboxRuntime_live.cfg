\* Safety and liveness of the IPC loop against a parent that sends start,
\* answers every request once (duplicates too), may cancel and may close
\* stdin, with gathered requests, setups that may fail and handlers that
\* may hang.  No symmetry: liveness.
CONSTANTS
  r1 = r1  r2 = r2  stop = stop
  NoReason = NoReason
  RequestIds <- MC_RequestIds
  Reasons <- MC_Reasons
  MaxGather = 2
  MaxCancels = 1
  MaxDuplicates = 1
  SetupMayFail = TRUE
  HandlerMayHang = TRUE
  ParentMayClose = TRUE
SPECIFICATION FairSpec
INVARIANTS
  TypeOK
  WaiterReachable
  ExitReported
PROPERTIES
  CancelWins
  Termination
  CancelLeadsToExit
\* The child may block forever on a handler that never resumes, and it
\* exits while the parent's stdin stays open.
CHECK_DEADLOCK FALSE
