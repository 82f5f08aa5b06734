------------------------- MODULE MC_CodexProxyJobs -------------------------
EXTENDS CodexProxyJobs

CONSTANTS j1

MC_OneJob == {j1}
MC_Streams == {"stdout", "stderr"}
=============================================================================
