--------------------------- MODULE UpdateProtocol ---------------------------
(***************************************************************************)
(* What the API cache may expect of the tracker: database transactions     *)
(* happen inside an update that was opened with begin_event_update, and an *)
(* update is closed by finish_event_update or abort_event_update according *)
(* to what it wrote.  ApiCache and EventTracker both implement it, one as  *)
(* the environment of the cache, the other as the code of the tracker.     *)
(***************************************************************************)
CONSTANT MayLose   \* may an update be closed by a crash or a lost command

VARIABLES
  phase,       \* "closed", or open: "rows" (rankings) or "profiles" (users)
  wrote,       \* has a ranking transaction of the open update succeeded
  unpublished  \* are there rankings no published epoch contains

vars == <<phase, wrote, unpublished>>

Init == phase = "closed" /\ wrote = FALSE /\ unpublished = FALSE

\* begin_event_update
Begin ==
  /\ phase = "closed" /\ phase' \in {"rows", "profiles"}
  /\ UNCHANGED <<wrote, unpublished>>

\* A ranking transaction; the tracker may not learn that it succeeded.
Commit ==
  /\ phase = "rows" /\ unpublished' = TRUE
  /\ wrote' = TRUE \/ (MayLose /\ wrote' = wrote)
  /\ UNCHANGED phase

\* finish_event_update
Finish ==
  /\ phase = "profiles" \/ wrote
  /\ phase' = "closed" /\ wrote' = FALSE /\ unpublished' = FALSE

\* abort_event_update
Abort ==
  /\ phase # "closed" /\ ~wrote
  /\ phase' = "closed" /\ UNCHANGED <<wrote, unpublished>>

\* The tracker dies, or its finish never reaches Redis.
Lose ==
  /\ MayLose /\ phase # "closed"
  /\ phase' = "closed" /\ wrote' = FALSE /\ UNCHANGED unpublished

Next == Begin \/ Commit \/ Finish \/ Abort \/ Lose
Spec == Init /\ [][Next]_vars
=============================================================================
