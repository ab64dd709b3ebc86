--------------------------- MODULE MCEventTracker ---------------------------
(***************************************************************************)
(* Instances of EventTracker for TLC.                                      *)
(***************************************************************************)
EXTENDS EventTracker, TLC

CONSTANTS u1, u2, c1

OneChapter == {<<u1, c1>>}
EveryFault == FaultKinds \ {"same_second"}
SameSecond == {"same_second"}
NoLosses   == {"fetch", "insert", "redis"}
=============================================================================
