\* Is every job reported?  A start whose setup may raise (entry outside
\* the bundle, a failed dependency step, a load error, no callable
\* handler), and a parent that may cancel right after start.
CONSTANTS
  r1 = r1  r2 = r2  stop = stop
  NoReason = NoReason
  RequestIds <- MC_RequestIds
  Reasons <- MC_Reasons
  MaxGather = 1
  MaxCancels = 1
  MaxDuplicates = 0
  SetupMayFail = TRUE
  HandlerMayHang = FALSE
  ParentMayClose = FALSE
SPECIFICATION Spec
INVARIANT JobReported
CHECK_DEADLOCK FALSE
