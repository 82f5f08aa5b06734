\* A bundle that declares "fs": do its guarded calls on its own files
\* proceed?
CONSTANTS
  NoHost = NoHost
  NotAList = NotAList
  HostRoot = NoHost
  Links <- MC_Links
  Bundles <- MC_Bundles
  Entries <- MC_Entries
  CapabilityLists <- MC_FsOnly
  ProcessCwd <- MC_Cwd
  Args <- MC_Args
  RecursionLimit = 2
SPECIFICATION Spec
INVARIANT FsCallsProceed
CHECK_DEADLOCK FALSE
