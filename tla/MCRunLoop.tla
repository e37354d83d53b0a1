----------------------------- MODULE MCRunLoop -----------------------------
(***************************************************************************)
(* RunLoop for TLC: the ways a process of the run can be started.          *)
(***************************************************************************)
EXTENDS RunLoop

Solo       == [master |-> FALSE, planning |-> FALSE]
WithMaster == [master |-> TRUE, planning |-> FALSE]

\* A run without a Master, and one that may gain a Master when it is resumed.
SoloOnly    == {Solo}
MasterJoins == {Solo, WithMaster}
AnyMode     == AllModes
=============================================================================
