----------------------------- MODULE MCGateStore -----------------------------
(***************************************************************************)
(* Bounds for GateStore: a launcher, a user at the command line who wants  *)
(* one answer, a browser that may give either.                             *)
(***************************************************************************)
EXTENDS GateStore
CONSTANTS launcher, user, g1, g2, merge, reject

TwoGates    == {g1, g2}
Decisions   == {merge, reject}
OneLauncher == {launcher}
OneUser     == {user}
Rejects     == [u \in OneUser |-> reject]
=============================================================================
