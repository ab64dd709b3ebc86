-------------------------- MODULE MCTrackerDaemon ---------------------------
(***************************************************************************)
(* Instances of TrackerDaemon for TLC: a plain event, then a World Bloom   *)
(* event with two chapters, the second of which is aggregated together     *)
(* with the event.                                                         *)
(***************************************************************************)
EXTENDS TrackerDaemon, TLC

CONSTANTS c1, c2

TwoEvents ==
  1 :> [start |-> 0, aggregate |-> 2, close |-> 5, chapters |-> << >>] @@
  2 :> [start |-> 4, aggregate |-> 11, close |-> 16,
        chapters |-> c1 :> [start |-> 4, aggregate |-> 7, end |-> 9] @@
                     c2 :> [start |-> 8, aggregate |-> 11, end |-> 13]]

PassingFaults == FaultKinds \ {"chapter_record"}
=============================================================================
