\* APPHUB_SANDBOX_HOST_ROOT_PREFIX set to /host: is the entry the loader
\* imports still confined?
CONSTANTS
  NoHost = NoHost
  NotAList = NotAList
  HostRoot <- MC_Host
  Links <- MC_Links
  Bundles <- MC_Bundles
  Entries <- MC_Entries
  CapabilityLists <- MC_Caps
  ProcessCwd <- MC_Cwd
  Args <- MC_Args
  RecursionLimit = 2
SPECIFICATION Spec
INVARIANT Confinement
CHECK_DEADLOCK FALSE
