------------------------- MODULE MC_SandboxRuntime -------------------------
(* Model values and bounds for SandboxRuntime; each .cfg picks the       *)
(* switches that decide which behaviours of the parent, the setup and    *)
(* the handler are explored.                                             *)
EXTENDS SandboxRuntime, TLC

CONSTANTS r1, r2, stop

MC_RequestIds == {r1, r2}
MC_Reasons    == {stop}

\* Request ids are uuid4 values no property names, so any permutation of
\* them is a symmetry of the model.
MC_Symmetry == Permutations(MC_RequestIds)
=============================================================================
