\* The guards against the small disk, every capability list, no host root.
CONSTANTS
  NoHost = NoHost
  NotAList = NotAList
  HostRoot = NoHost
  Links <- MC_Links
  Bundles <- MC_Bundles
  Entries <- MC_Entries
  CapabilityLists <- MC_Caps
  ProcessCwd <- MC_Cwd
  Args <- MC_Args
  RecursionLimit = 2
SPECIFICATION Spec
INVARIANT TypeOK
INVARIANT NoAccessWithoutCapability
INVARIANT Confinement
\* A start whose entry is refused, or whose setup raised, ends there.
CHECK_DEADLOCK FALSE
