----------------------------- MODULE MCWorkerStep -----------------------------
(***************************************************************************)
(* Bounds for WorkerStep: a reviewer and an implementer; the terminals      *)
(* differ (one edits), so there is no symmetry to use.                      *)
(***************************************************************************)
EXTENDS WorkerStep
BothTerminals == {"reviewer", "implementer"}
Implementer == {"implementer"}
=============================================================================
