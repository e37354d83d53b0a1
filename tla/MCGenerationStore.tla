--------------------------- MODULE MCGenerationStore ---------------------------
(***************************************************************************)
(* Two runs compete for one worktree; the first is started three times.    *)
(***************************************************************************)
EXTENDS GenerationStore
CONSTANTS p1, p2, p3, q1, r1, r2
FourProcesses == {p1, p2, p3, q1}
TwoRuns == {r1, r2}
RunOf == [p \in FourProcesses |-> IF p = q1 THEN r2 ELSE r1]
Restarts == {p1, p2, p3}
=============================================================================
