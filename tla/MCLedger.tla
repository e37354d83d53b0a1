------------------------------- MODULE MCLedger -------------------------------
(***************************************************************************)
(* Bounds for Ledger: f2 reopens f1 once it is resolved.                   *)
(***************************************************************************)
EXTENDS Ledger, TLC
CONSTANTS f1, f2, s1, s2

One == {f1}
Two == {f1, f2}
OneImpact == [f \in One |-> "architecture"]
TwoImpacts == [f \in Two |-> IF f = f1 THEN "architecture" ELSE "security_auth"]
OneReopens == [f \in One |-> NoFinding]
TwoReopens == [f \in Two |-> IF f = f1 THEN NoFinding ELSE f1]
Sources == {s1, s2}
SourceSymmetry == Permutations(Sources)
=============================================================================
