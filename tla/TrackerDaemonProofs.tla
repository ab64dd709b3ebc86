------------------------ MODULE TrackerDaemonProofs -------------------------
(***************************************************************************)
(* Type correctness of TrackerDaemon, and three of its invariants: a tick  *)
(* never works for an older event than it saw, an event flagged as ended   *)
(* stays so, and a chapter counted as ended has its final rows.            *)
(***************************************************************************)
EXTENDS TrackerDaemon, TLAPS

-----------------------------------------------------------------------------
(***************************************************************************)
(* What a look finds.                                                      *)
(***************************************************************************)
LEMMA StatusesTyped ==
  /\ \A e, n : EventStatus(e, n) \in EventStatuses
  /\ \A e, c, n : ChapterStatus(e, c, n) \in ChapterStatuses
BY DEF EventStatus, ChapterStatus, EventStatuses, ChapterStatuses

LEMMA Looks ==
  ASSUME NEW s \in Sightings
  PROVE  /\ s.event \in Events /\ IsCurrent(s.event, now)
         /\ s \in SightingsOf(s.event) /\ s # None
         /\ \A c \in Chars(s.event) : s.chapters[c] = ChapterStatus(s.event, c, now)
<1>1. PICK e \in Events :
        /\ IsCurrent(e, now)
        /\ s = [event |-> e, status |-> EventStatus(e, now),
                chapters |-> [c \in Chars(e) |-> ChapterStatus(e, c, now)]]
  BY DEF Sightings
<1>2. s \in SightingsOf(e)
  BY <1>1, StatusesTyped DEF SightingsOf
<1> QED
  BY <1>1, <1>2, NoneAssumption

\* The first open event never gives way to one that is earlier in the list:
\* that one started no later, so it had been closed before.
LEMMA CurrentAdvances ==
  ASSUME NEW e \in Events, NEW f \in Events, NEW m \in Nat, NEW n \in Nat, m <= n,
         IsCurrent(e, m), IsCurrent(f, n)
  PROVE  e <= f
<1> SUFFICES ASSUME f < e PROVE FALSE
  BY ScheduleAssumption
<1>1. Schedule[f].start < m /\ m < Schedule[f].close
  <2>1. Schedule[f].start <= Schedule[e].start /\ Schedule[e].start < m
    BY ScheduleAssumption DEF IsCurrent, Within
  <2>2. n < Schedule[f].close
    BY DEF IsCurrent, Within
  <2>3. Schedule[f].start \in Nat /\ Schedule[e].start \in Nat /\ Schedule[f].close \in Nat
    BY ScheduleAssumption
  <2> QED
    BY <2>1, <2>2, <2>3
<1> QED
  BY <1>1 DEF IsCurrent, Within

-----------------------------------------------------------------------------
(***************************************************************************)
(* Types.                                                                  *)
(***************************************************************************)

\* What a step relies on besides the types: a tick has seen an event, has a
\* tracker once it is past init, and finalizes chapters of that tracker.
Shape ==
  /\ TypeOK
  /\ pc # "idle" => seen # None
  /\ pc \notin {"idle", "init"} => inner # None
  /\ todo # {} => pc = "chapter" /\ todo \subseteq Chars(inner.event)

LEMMA InitShape == Init => Shape
<1> SUFFICES ASSUME Init PROVE Shape
  OBVIOUS
<1>1. /\ up \in [Events -> [Chapters -> 0 .. MaxRows]]
      /\ table \in [Events -> [Chapters -> 0 .. MaxRows]]
  BY BoundsAssumption DEF Init
<1>2. now \in 0 .. Horizon /\ faults \in 0 .. MaxFaults
  BY BoundsAssumption DEF Init
<1> QED
  BY <1>1, <1>2 DEF Init, Shape, TypeOK, PCs

LEMMA InnerTyped ==
  ASSUME TypeOK, inner # None
  PROVE  /\ inner.event \in Events /\ inner \in TrackersOf(inner.event)
         /\ Chars(inner.event) \subseteq Chapters
BY ScheduleAssumption DEF TypeOK, TrackersOf

LEMMA SeenTyped ==
  ASSUME TypeOK, seen # None
  PROVE  seen.event \in Events /\ seen \in SightingsOf(seen.event)
BY DEF TypeOK, SightingsOf

LEMMA RecordedTyped ==
  ASSUME TypeOK, inner # None, Recorded
  PROVE  table' \in [Events -> [Chapters -> 0 .. MaxRows]]
<1> HIDE DEF Tracked
<1> QED
  BY InnerTyped DEF Recorded, TypeOK

LEMMA FaultTyped ==
  ASSUME TypeOK, NEW kind, Fault(kind)
  PROVE  faults' \in 0 .. MaxFaults
BY BoundsAssumption DEF Fault, TypeOK

LEMMA RecordTyped ==
  ASSUME TypeOK, inner # None, NEW kind, Record(kind)
  PROVE  faults' \in 0 .. MaxFaults /\ table' \in [Events -> [Chapters -> 0 .. MaxRows]]
BY RecordedTyped, FaultTyped DEF Record, TypeOK

\* A tracker keeps its type when its fields are updated.
LEMMA TrackerUpdated ==
  ASSUME NEW e \in Events, NEW t \in TrackersOf(e)
  PROVE  /\ t # None
         /\ \A x \in [Chars(e) -> ChapterStatuses] : [t EXCEPT !.statuses = x] \in TrackersOf(e)
         /\ \A c : [t EXCEPT !.final[c] = TRUE] \in TrackersOf(e)
         /\ \A n \in 0 .. Horizon : [t EXCEPT !.refreshed = n] \in TrackersOf(e)
         /\ [t EXCEPT !.ended = TRUE] \in TrackersOf(e)
<1>1. t # None
  BY NoneAssumption
<1>2. \A x \in [Chars(e) -> ChapterStatuses] : [t EXCEPT !.statuses = x] \in TrackersOf(e)
  BY DEF TrackersOf
<1>3. \A c : [t EXCEPT !.final[c] = TRUE] \in TrackersOf(e)
  BY DEF TrackersOf
<1>4. \A n \in 0 .. Horizon : [t EXCEPT !.refreshed = n] \in TrackersOf(e)
  BY DEF TrackersOf
<1>5. [t EXCEPT !.ended = TRUE] \in TrackersOf(e)
  BY DEF TrackersOf
<1> QED
  BY <1>1, <1>2, <1>3, <1>4, <1>5

LEMMA StepShape == Shape /\ [Next]_vars => Shape'
<1> SUFFICES ASSUME Shape, [Next]_vars
             PROVE  Shape'
  OBVIOUS
<1> USE DEF clockVars
<1>1. CASE Advance
  <2>1. now' \in 0 .. Horizon
    BY <1>1, BoundsAssumption DEF Advance, Shape, TypeOK
  <2> QED
    BY <1>1, <2>1 DEF Advance, Shape, TypeOK
<1>2. CASE Play
  <2>1. up' \in [Events -> [Chapters -> 0 .. MaxRows]]
    BY <1>2, ScheduleAssumption, BoundsAssumption DEF Play, Shape, TypeOK
  <2> QED
    BY <1>2, <2>1 DEF Play, Shape, TypeOK
<1>3. CASE SkipTick
  BY <1>3 DEF SkipTick, Shape, TypeOK
<1>4. CASE Fire
  <2>1. PICK s \in Sightings : seen' = s /\ pc' = IF NeedsInit(s.event) THEN "init" ELSE "match"
    BY <1>4 DEF Fire
  <2>2. seen' # None /\ \E e \in Events : seen' \in SightingsOf(e)
    BY <2>1, Looks
  <2>3. pc' # "init" => inner # None
    BY <2>1 DEF NeedsInit
  <2>4. pc' \in {"init", "match"} /\ pc = "idle"
    BY <1>4, <2>1 DEF Fire
  <2> QED
    BY <1>4, <2>2, <2>3, <2>4 DEF Fire, Shape, TypeOK, PCs
<1>5. CASE FireInVain
  BY <1>5, FaultTyped DEF FireInVain, Shape, TypeOK
<1>6. CASE Build
  <2>1. PICK s \in Sightings :
          inner' = [event |-> s.event, ended |-> s.status = "ended" \/ s.event \in flagged,
                    statuses |-> s.chapters, final |-> [c \in Chars(s.event) |-> FALSE],
                    refreshed |-> None]
    BY <1>6 DEF Build
  <2>2. s.event \in Events /\ s.chapters \in [Chars(s.event) -> ChapterStatuses]
    BY Looks DEF SightingsOf
  <2>3. inner' \in TrackersOf(s.event)
    BY <2>1, <2>2 DEF TrackersOf
  <2>4. inner' # None
    BY <2>2, <2>3, NoneAssumption
  <2> QED
    BY <1>6, <2>2, <2>3, <2>4 DEF Build, Shape, TypeOK, PCs
<1>7. CASE BuildFailed
  BY <1>7, FaultTyped DEF BuildFailed, TickOver, Shape, TypeOK, PCs
<1>8. CASE MatchEnded
  BY <1>8 DEF MatchEnded, Matches, Shape, TypeOK, PCs
<1>9. CASE MatchAggregating
  BY <1>9 DEF MatchAggregating, Matches, TickOver, Shape, TypeOK, PCs
<1>10. CASE MatchFinal
  BY <1>10 DEF MatchFinal, Matches, Shape, TypeOK, PCs
<1>11. CASE MatchOngoing
  <2>1. inner # None /\ seen # None /\ inner.event = seen.event
    BY <1>11 DEF MatchOngoing, Matches, Shape
  <2>2. inner.event \in Events /\ seen.chapters \in [Chars(inner.event) -> ChapterStatuses]
    BY <2>1, SeenTyped DEF Shape, SightingsOf
  <2>3. inner' \in TrackersOf(inner.event) /\ inner' # None
    BY <1>11, <2>1, <2>2, InnerTyped, TrackerUpdated DEF MatchOngoing, Shape
  <2>4. inner'.event = inner.event
    BY <2>3 DEF TrackersOf
  <2>5. todo' \subseteq Chars(inner'.event) /\ todo' \subseteq Chapters
    BY <1>11, <2>1, <2>4, InnerTyped DEF MatchOngoing, Shape
  <2>6. pc' \in {"live", "chapter"} /\ (todo' # {} => pc' = "chapter")
    BY <1>11 DEF MatchOngoing
  <2> QED
    BY <1>11, <2>1, <2>2, <2>3, <2>5, <2>6 DEF MatchOngoing, Shape, TypeOK, PCs
<1>12. CASE MatchOther
  BY <1>12 DEF MatchOther, Shape, TypeOK, PCs
<1>13. ASSUME NEW c \in Chapters, FinalizeChapter(c)
       PROVE  Shape'
  <2>1. inner # None /\ seen # None
    BY <1>13 DEF FinalizeChapter, Shape
  <2>2. inner' \in TrackersOf(inner.event) /\ inner' # None /\ inner.event \in Events
    BY <1>13, <2>1, InnerTyped, TrackerUpdated DEF FinalizeChapter, Shape
  <2>3. inner'.event = inner.event
    BY <2>2 DEF TrackersOf
  <2>4. /\ faults' \in 0 .. MaxFaults
        /\ table' \in [Events -> [Chapters -> 0 .. MaxRows]]
    BY <1>13, <2>1, RecordTyped DEF FinalizeChapter, Shape
  <2>5. todo' \subseteq Chars(inner'.event) /\ todo' \subseteq Chapters
    BY <1>13, <2>3 DEF FinalizeChapter, Shape, TypeOK
  <2>6. pc' \in {"live", "chapter"} /\ (todo' # {} => pc' = "chapter")
    BY <1>13 DEF FinalizeChapter
  <2> QED
    BY <1>13, <2>1, <2>2, <2>4, <2>5, <2>6 DEF FinalizeChapter, Shape, TypeOK, PCs
<1>14. CASE RecordLive
  <2>1. inner # None
    BY <1>14 DEF RecordLive, Shape
  <2>2. /\ faults' \in 0 .. MaxFaults
        /\ table' \in [Events -> [Chapters -> 0 .. MaxRows]]
    BY <1>14, <2>1, RecordTyped DEF RecordLive, Shape, TypeOK
  <2> QED
    BY <1>14, <2>2 DEF RecordLive, TickOver, Shape, TypeOK, PCs
<1>15. CASE RecordFinal
  <2>1. inner # None
    BY <1>15 DEF RecordFinal, Shape
  <2>2. inner' \in TrackersOf(inner.event) /\ inner' # None /\ inner.event \in Events
    BY <1>15, <2>1, InnerTyped, TrackerUpdated DEF RecordFinal, Shape
  <2>3. /\ faults' \in 0 .. MaxFaults
        /\ table' \in [Events -> [Chapters -> 0 .. MaxRows]]
    BY <1>15, <2>1, RecordTyped, RecordedTyped, FaultTyped DEF RecordFinal, Shape, TypeOK
  <2>4. flagged' \subseteq Events
    BY <1>15, <2>2 DEF RecordFinal, Shape, TypeOK
  <2> QED
    BY <1>15, <2>2, <2>3, <2>4 DEF RecordFinal, TickOver, Shape, TypeOK, PCs
<1>16. CASE Refresh
  <2>1. inner # None
    BY <1>16 DEF Refresh, Shape
  <2>2. inner' \in TrackersOf(inner.event) /\ inner' # None /\ inner.event \in Events
    <3>1. now \in 0 .. Horizon /\ inner \in TrackersOf(inner.event) /\ inner.event \in Events
      BY <2>1, InnerTyped DEF Shape, TypeOK
    <3>2. inner' = inner \/ inner' = [inner EXCEPT !.refreshed = now]
      BY <1>16 DEF Refresh
    <3> QED
      BY <3>1, <3>2, TrackerUpdated
  <2>3. /\ faults' \in 0 .. MaxFaults
        /\ table' \in [Events -> [Chapters -> 0 .. MaxRows]]
    BY <1>16, <2>1, RecordedTyped, FaultTyped DEF Refresh, Shape, TypeOK
  <2> QED
    BY <1>16, <2>2, <2>3 DEF Refresh, TickOver, Shape, TypeOK, PCs
<1>17. CASE Crash
  BY <1>17, FaultTyped DEF Crash, TickOver, Shape, TypeOK, PCs
<1>18. CASE UNCHANGED vars
  BY <1>18 DEF vars, Shape, TypeOK
<1> QED
  BY <1>1, <1>2, <1>3, <1>4, <1>5, <1>6, <1>7, <1>8, <1>9, <1>10, <1>11, <1>12, <1>13,
     <1>14, <1>15, <1>16, <1>17, <1>18 DEF Next, Tick

\* Every value the daemon, Redis and the table hold has its type; in
\* particular a tracker has flags for its own event's chapters only.
THEOREM DaemonTyped == Spec => []TypeOK
<1>1. Shape => TypeOK
  BY DEF Shape
<1> QED
  BY <1>1, InitShape, StepShape, PTL DEF Spec

-----------------------------------------------------------------------------
(***************************************************************************)
(* The tick and its event.                                                 *)
(***************************************************************************)

\* A tick on its way to a new tracker saw an event that was the current one at
\* some time that is past.
BehindInv ==
  /\ pc = "init" => \E n \in 0 .. now : IsCurrent(seen.event, n)
  /\ NeverBehind

\* Only Build and Crash change which event is tracked, and only RecordFinal
\* whether it counts as ended.
LEMMA TrackerKept ==
  ASSUME Shape, inner # None,
         \/ MatchOngoing \/ RecordFinal \/ Refresh
         \/ \E c \in Chapters : FinalizeChapter(c)
  PROVE  /\ inner' # None /\ inner'.event = inner.event
         /\ RecordFinal \/ inner'.ended = inner.ended
<1>1. inner \in TrackersOf(inner.event) /\ inner.event \in Events
  BY InnerTyped DEF Shape
<1>2. CASE MatchOngoing
  <2>1. seen.chapters \in [Chars(inner.event) -> ChapterStatuses]
    BY <1>2, SeenTyped DEF MatchOngoing, Matches, Shape, SightingsOf
  <2>2. inner' = [inner EXCEPT !.statuses = seen.chapters]
    BY <1>2 DEF MatchOngoing
  <2>3. inner' # None
    BY <1>1, <2>1, <2>2, TrackerUpdated
  <2> QED
    BY <1>1, <2>2, <2>3 DEF TrackersOf
<1>3. CASE RecordFinal
  <2>1. inner' = [inner EXCEPT !.ended = TRUE]
    BY <1>3 DEF RecordFinal
  <2> QED
    BY <1>1, <1>3, <2>1, TrackerUpdated DEF TrackersOf
<1>4. CASE Refresh
  <2>1. inner' = inner \/ inner' = [inner EXCEPT !.refreshed = now]
    BY <1>4 DEF Refresh
  <2>2. now \in 0 .. Horizon
    BY DEF Shape, TypeOK
  <2>3. inner' # None
    BY <1>1, <2>1, <2>2, TrackerUpdated
  <2> QED
    BY <1>1, <2>1, <2>3 DEF TrackersOf
<1>5. ASSUME NEW c \in Chapters, FinalizeChapter(c)
      PROVE  inner' # None /\ inner'.event = inner.event /\ inner'.ended = inner.ended
  <2>1. inner' = [inner EXCEPT !.final[c] = TRUE]
    BY <1>5 DEF FinalizeChapter
  <2>2. inner' # None
    BY <1>1, <2>1, TrackerUpdated
  <2> QED
    BY <1>1, <2>1, <2>2 DEF TrackersOf
<1> QED
  BY <1>2, <1>3, <1>4, <1>5

\* The steps that leave the tracker alone.
LEMMA TrackerUntouched ==
  ASSUME \/ Advance \/ Play \/ SkipTick \/ Fire \/ FireInVain \/ BuildFailed
         \/ MatchEnded \/ MatchAggregating \/ MatchFinal \/ MatchOther \/ RecordLive
         \/ UNCHANGED vars
  PROVE  inner' = inner /\ flagged' = flagged
BY DEF Advance, Play, SkipTick, Fire, FireInVain, BuildFailed, MatchEnded, MatchAggregating,
       MatchFinal, MatchOther, RecordLive, vars

LEMMA StepBehind == Shape /\ BehindInv /\ [Next]_vars => BehindInv'
<1> SUFFICES ASSUME Shape, BehindInv, [Next]_vars
             PROVE  BehindInv'
  OBVIOUS
<1> USE DEF clockVars
<1>1. CASE Advance
  <2>1. 0 .. now \subseteq 0 .. now'
    BY <1>1, BoundsAssumption DEF Advance, Shape, TypeOK
  <2> QED
    BY <1>1, <2>1 DEF Advance, BehindInv, NeverBehind
<1>2. CASE Fire
  <2>1. PICK s \in Sightings : seen' = s /\ pc' = IF NeedsInit(s.event) THEN "init" ELSE "match"
    BY <1>2 DEF Fire
  <2>2. /\ s.event \in Nat /\ IsCurrent(s.event, now)
        /\ now' = now /\ inner' = inner /\ now \in 0 .. now
    <3>1. s.event \in Nat /\ IsCurrent(s.event, now)
      BY Looks, ScheduleAssumption
    <3>2. now \in 0 .. now
      BY BoundsAssumption DEF Shape, TypeOK
    <3> QED
      BY <1>2, <3>1, <3>2 DEF Fire
  <2>3. ASSUME ~NeedsInit(s.event)
        PROVE  inner # None /\ s.event <= inner.event
    <3>1. inner # None /\ ~(inner.event < s.event)
      BY <2>3 DEF NeedsInit
    <3>2. inner.event \in Nat
      BY <3>1, InnerTyped, ScheduleAssumption DEF Shape
    <3> QED
      BY <2>2, <3>1, <3>2
  <2>4. CASE NeedsInit(s.event)
    BY <2>1, <2>2, <2>4 DEF BehindInv, NeverBehind
  <2>5. CASE ~NeedsInit(s.event)
    BY <2>1, <2>2, <2>3, <2>5 DEF BehindInv, NeverBehind
  <2> QED
    BY <2>4, <2>5
<1>3. CASE Build
  <2>1. PICK s \in Sightings :
          inner' = [event |-> s.event, ended |-> s.status = "ended" \/ s.event \in flagged,
                    statuses |-> s.chapters, final |-> [c \in Chars(s.event) |-> FALSE],
                    refreshed |-> None]
    BY <1>3 DEF Build
  <2>2. PICK n \in 0 .. now : IsCurrent(seen.event, n)
    BY <1>3 DEF Build, BehindInv
  <2>3. seen.event \in Events /\ now \in Nat
    BY <1>3, SeenTyped, BoundsAssumption DEF Build, Shape, TypeOK
  <2>4. seen.event <= s.event
    BY <2>2, <2>3, Looks, CurrentAdvances
  <2>5. inner' # None
    BY <1>3, StepShape DEF Build, Shape, Next, Tick
  <2>6. inner'.event = s.event /\ seen' = seen /\ pc' = "match"
    BY <1>3, <2>1 DEF Build
  <2> QED
    BY <2>4, <2>5, <2>6 DEF BehindInv, NeverBehind
<1>4. CASE \/ MatchOngoing \/ (\E c \in Chapters : FinalizeChapter(c))
  <2>1. inner # None /\ pc \notin {"idle", "init"} /\ pc' \notin {"idle", "init"} /\ seen' = seen
    BY <1>4 DEF MatchOngoing, Matches, FinalizeChapter, BehindInv, NeverBehind
  <2>2. inner' # None /\ inner'.event = inner.event
    BY <1>4, <2>1, TrackerKept
  <2> QED
    BY <2>1, <2>2 DEF BehindInv, NeverBehind
<1>5. CASE \/ FireInVain \/ BuildFailed \/ MatchAggregating \/ RecordLive \/ RecordFinal
           \/ Refresh \/ Crash
  <2>1. pc' = "idle"
    BY <1>5 DEF FireInVain, BuildFailed, MatchAggregating, RecordLive, RecordFinal, Refresh,
                Crash, TickOver
  <2> QED
    BY <2>1 DEF BehindInv, NeverBehind
<1>6. CASE \/ Play \/ SkipTick \/ UNCHANGED vars
  BY <1>6 DEF Play, SkipTick, vars, BehindInv, NeverBehind
<1>7. CASE MatchEnded \/ MatchFinal \/ MatchOther
  BY <1>7 DEF MatchEnded, MatchFinal, MatchOther, Matches, BehindInv, NeverBehind
<1> QED
  BY <1>1, <1>2, <1>3, <1>4, <1>5, <1>6, <1>7 DEF Next, Tick

\* Whatever fails, and although a tick looks at the clock twice, a tick that
\* is past its initialization has a tracker of the event it saw or a later one.
THEOREM NeverBehindTheClock == Spec => []NeverBehind
<1>1. Init => BehindInv
  BY DEF Init, BehindInv, NeverBehind
<1>2. BehindInv => NeverBehind
  BY DEF BehindInv
<1> QED
  BY <1>1, <1>2, InitShape, StepShape, StepBehind, PTL DEF Spec

LEMMA StepFlag == Shape /\ FlagRespected /\ [Next]_vars => FlagRespected'
<1> SUFFICES ASSUME Shape, FlagRespected, [Next]_vars
             PROVE  FlagRespected'
  OBVIOUS
<1>1. CASE Build
  <2>1. PICK s \in Sightings :
          inner' = [event |-> s.event, ended |-> s.status = "ended" \/ s.event \in flagged,
                    statuses |-> s.chapters, final |-> [c \in Chars(s.event) |-> FALSE],
                    refreshed |-> None]
    BY <1>1 DEF Build
  <2>2. inner'.event = s.event /\ inner'.ended = (s.status = "ended" \/ s.event \in flagged)
    BY <2>1
  <2> QED
    BY <1>1, <2>2 DEF Build, FlagRespected
<1>2. CASE MatchOngoing \/ Refresh \/ \E c \in Chapters : FinalizeChapter(c)
  <2>1. inner # None /\ flagged' = flagged /\ ~RecordFinal
    BY <1>2 DEF MatchOngoing, Matches, Refresh, FinalizeChapter, RecordFinal, Shape
  <2> QED
    BY <1>2, <2>1, TrackerKept DEF FlagRespected
<1>3. CASE RecordFinal
  <2>1. inner # None /\ inner \in TrackersOf(inner.event)
    BY <1>3, InnerTyped DEF RecordFinal, Shape
  <2>2. inner'.ended
    BY <1>3, <2>1 DEF RecordFinal, TrackersOf
  <2> QED
    BY <2>2 DEF FlagRespected
<1>4. CASE Crash
  BY <1>4 DEF Crash, FlagRespected
<1>5. CASE \/ Advance \/ Play \/ SkipTick \/ Fire \/ FireInVain \/ BuildFailed
           \/ MatchEnded \/ MatchAggregating \/ MatchFinal \/ MatchOther \/ RecordLive
           \/ UNCHANGED vars
  BY <1>5, TrackerUntouched DEF FlagRespected
<1> QED
  BY <1>1, <1>2, <1>3, <1>4, <1>5 DEF Next, Tick

\* An event flagged as ended in Redis is never tracked live again.
THEOREM EndedStaysEnded == Spec => []FlagRespected
<1>1. Init => FlagRespected
  BY DEF Init, FlagRespected
<1> QED
  BY <1>1, InitShape, StepShape, StepFlag, PTL DEF Spec


-----------------------------------------------------------------------------
(***************************************************************************)
(* Chapters that count as ended.                                           *)
(***************************************************************************)
Over(e, c) == Schedule[e].chapters[c].end <= now

LEMMA OverIffEnded ==
  ASSUME TypeOK, NEW e \in Events, NEW c \in Chars(e)
  PROVE  /\ ChapterStatus(e, c, now) = "ended" <=> Over(e, c)
         /\ Over(e, c) => ChapterStatus(e, c, now) \notin {"ongoing", "aggregating"}
<1>1. Schedule[e].chapters[c].end \in Nat /\ now \in Nat
  BY ScheduleAssumption, BoundsAssumption DEF TypeOK
<1> QED
  BY <1>1 DEF ChapterStatus, Over

\* What a tick saw as ended is over; so is what the tracker has as ended or
\* counts as written, and the rows of the latter are the final ones, since
\* nobody plays a chapter that is over; chapters to finalize are not written.
SettledInv ==
  /\ seen # None => \A c \in Chars(seen.event) :
       seen.chapters[c] = "ended" => Over(seen.event, c)
  /\ inner # None => \A c \in Chars(inner.event) :
       /\ inner.statuses[c] = "ended" \/ inner.final[c] => Over(inner.event, c)
       /\ inner.final[c] => table[inner.event][c] = up[inner.event][c]
  /\ \A c \in todo : inner.statuses[c] = "ended" /\ ~inner.final[c]

\* A record never takes a chapter back, and brings a tracked one up to date.
LEMMA RecordedKeeps ==
  ASSUME TypeOK, inner # None, Recorded, NEW c \in Chars(inner.event)
  PROVE  /\ Tracked(c) => table'[inner.event][c] = up[inner.event][c]
         /\ ~Tracked(c) => table'[inner.event][c] = table[inner.event][c]
<1>1. inner.event \in Events /\ c \in Chapters
  BY InnerTyped
<1> HIDE DEF Tracked
<1> QED
  BY <1>1 DEF Recorded, TypeOK

LEMMA StepSettled ==
  Shape /\ SettledInv /\ "chapter_record" \notin Faults /\ [Next]_vars => SettledInv'
<1> SUFFICES ASSUME Shape, SettledInv, "chapter_record" \notin Faults, [Next]_vars
             PROVE  SettledInv'
  OBVIOUS
<1> USE DEF clockVars
<1>a. TypeOK
  BY DEF Shape
<1>b. seen # None => seen.event \in Events
  BY <1>a, SeenTyped
<1>c. inner # None => inner.event \in Events /\ inner \in TrackersOf(inner.event)
  BY <1>a, InnerTyped
<1>1. CASE Advance
  <2>1. \A e \in Events : \A c \in Chars(e) : Over(e, c) => Over(e, c)'
    BY <1>1, <1>a, ScheduleAssumption, BoundsAssumption DEF Advance, Over, TypeOK
  <2> QED
    BY <1>1, <1>b, <1>c, <2>1 DEF Advance, SettledInv
<1>2. CASE Play
  <2> PICK e \in Events : \E c \in Chars(e) :
        ChapterStatus(e, c, now) = "ongoing" /\ up' = [up EXCEPT ![e][c] = @ + 1]
    BY <1>2 DEF Play
  <2>1. PICK c \in Chars(e) :
          ChapterStatus(e, c, now) = "ongoing" /\ up' = [up EXCEPT ![e][c] = @ + 1]
    OBVIOUS
  <2>2. ~Over(e, c)
    BY <1>a, <2>1, OverIffEnded
  <2>3. \A f \in Events : \A d \in Chars(f) : Over(f, d) => up'[f][d] = up[f][d]
    BY <1>a, <2>1, <2>2, ScheduleAssumption DEF TypeOK
  <2> QED
    BY <1>2, <1>c, <2>3 DEF Play, SettledInv, Over
<1>3. CASE Fire
  <2>1. PICK s \in Sightings : seen' = s
    BY <1>3 DEF Fire
  <2>2. \A c \in Chars(s.event) : s.chapters[c] = "ended" => Over(s.event, c)
    BY <1>a, Looks, OverIffEnded
  <2> QED
    BY <1>3, <2>1, <2>2 DEF Fire, SettledInv, Over
<1>4. CASE Build
  <2>1. PICK s \in Sightings :
          inner' = [event |-> s.event, ended |-> s.status = "ended" \/ s.event \in flagged,
                    statuses |-> s.chapters, final |-> [c \in Chars(s.event) |-> FALSE],
                    refreshed |-> None]
    BY <1>4 DEF Build
  <2>2. \A c \in Chars(s.event) : s.chapters[c] = "ended" => Over(s.event, c)
    BY <1>a, Looks, OverIffEnded
  <2>3. todo = {}
    BY <1>4 DEF Build, Shape
  <2>4. inner'.event = s.event /\ inner'.statuses = s.chapters
        /\ inner'.final = [c \in Chars(s.event) |-> FALSE]
    BY <2>1
  <2> QED
    BY <1>4, <2>2, <2>3, <2>4 DEF Build, SettledInv, Over
<1>5. CASE MatchOngoing
  <2>1. inner # None /\ seen # None /\ inner.event = seen.event
    BY <1>5 DEF MatchOngoing, Matches, Shape
  <2>2. /\ inner'.event = inner.event /\ inner'.statuses = seen.chapters
        /\ inner'.final = inner.final
    BY <1>5, <1>c, <2>1 DEF MatchOngoing, TrackersOf
  <2>3. todo' = {c \in Chars(inner.event) : seen.chapters[c] = "ended" /\ ~inner.final[c]}
    BY <1>5 DEF MatchOngoing
  <2>4. seen' = seen /\ now' = now /\ up' = up /\ table' = table
    BY <1>5 DEF MatchOngoing
  <2> QED
    BY <2>1, <2>2, <2>3, <2>4 DEF SettledInv, Over
<1>6. ASSUME NEW c \in Chapters, FinalizeChapter(c)
      PROVE  SettledInv'
  <2>1. /\ inner # None /\ c \in todo /\ c \in Chars(inner.event)
        /\ seen' = seen /\ now' = now /\ up' = up /\ todo' = todo \ {c}
    BY <1>6 DEF FinalizeChapter, Shape
  <2>2. Recorded
    BY <1>6 DEF FinalizeChapter, Record, Fault
  <2>3. inner.statuses[c] = "ended" /\ ~inner.final[c] /\ Over(inner.event, c)
    BY <2>1 DEF SettledInv
  <2>4. Tracked(c)
    BY <1>a, <1>c, <2>1, <2>3, OverIffEnded DEF Tracked
  <2>5. /\ inner'.event = inner.event /\ inner'.statuses = inner.statuses
        /\ inner'.final = [inner.final EXCEPT ![c] = TRUE]
    BY <1>6, <1>c, <2>1 DEF FinalizeChapter, TrackersOf
  <2>6. \A d \in Chars(inner.event) : d = c \/ table[inner.event][d] = up[inner.event][d] =>
          table'[inner.event][d] = up[inner.event][d]
    BY <1>a, <2>1, <2>2, <2>4, RecordedKeeps
  <2>7. \A d \in Chars(inner.event) : inner'.final[d] = (d = c \/ inner.final[d])
    BY <1>c, <2>1, <2>5 DEF TrackersOf
  <2>8. \A d \in todo' : d \in Chars(inner.event) /\ d # c
    BY <2>1 DEF Shape
  <2> QED
    BY <2>1, <2>3, <2>5, <2>6, <2>7, <2>8 DEF SettledInv, Over
<1>7. CASE RecordLive \/ RecordFinal \/ Refresh
  <2>1. /\ inner # None /\ seen' = None /\ todo' = {} /\ now' = now /\ up' = up
    BY <1>7 DEF RecordLive, RecordFinal, Refresh, TickOver, Shape
  <2>2. Recorded \/ table' = table
    BY <1>7 DEF RecordLive, RecordFinal, Refresh, Record
  <2>3. /\ inner'.event = inner.event /\ inner'.statuses = inner.statuses
        /\ inner'.final = inner.final
    BY <1>7, <1>c, <2>1 DEF RecordLive, RecordFinal, Refresh, TrackersOf
  <2>4. \A d \in Chars(inner.event) : table[inner.event][d] = up[inner.event][d] =>
          table'[inner.event][d] = up[inner.event][d]
    BY <1>a, <2>1, <2>2, RecordedKeeps
  <2> QED
    BY <2>1, <2>3, <2>4 DEF SettledInv, Over
<1>8. CASE \/ FireInVain \/ BuildFailed \/ MatchAggregating \/ Crash
  <2>1. todo' = {} /\ (seen' = None \/ seen' = seen) /\ (inner' = None \/ inner' = inner)
        /\ UNCHANGED <<now, up, table>>
    BY <1>8 DEF FireInVain, BuildFailed, MatchAggregating, Crash, TickOver, Shape
  <2> QED
    BY <2>1 DEF SettledInv, Over
<1>9. CASE SkipTick \/ MatchEnded \/ MatchFinal \/ MatchOther \/ UNCHANGED vars
  <2>1. UNCHANGED <<now, up, table, seen, inner, todo>>
    BY <1>9 DEF SkipTick, MatchEnded, MatchFinal, MatchOther, vars
  <2> QED
    BY <2>1 DEF SettledInv, Over
<1> QED
  BY <1>1, <1>2, <1>3, <1>4, <1>5, <1>6, <1>7, <1>8, <1>9 DEF Next, Tick

\* If no chapter's last record fails, a chapter counted as ended has its final
\* rows in the database, whatever else fails and however long ticks take.
THEOREM ChaptersSettled == "chapter_record" \notin Faults => (Spec => []ChapterSettled)
<1> SUFFICES ASSUME "chapter_record" \notin Faults PROVE Spec => []ChapterSettled
  OBVIOUS
<1>1. Init => SettledInv
  BY DEF Init, SettledInv
<1>2. SettledInv => ChapterSettled
  BY DEF SettledInv, ChapterSettled
<1>3. Shape /\ SettledInv /\ [Next]_vars => SettledInv'
  BY StepSettled
<1> QED
  BY <1>1, <1>2, <1>3, InitShape, StepShape, PTL DEF Spec

=============================================================================
