--------------------------- MODULE TrackerDaemon ----------------------------
(***************************************************************************)
(* HarukiEventTracker of src/tracker/daemon.rs for one server: each tick   *)
(* looks the current event up in the master data (parser.rs), switches to  *)
(* it, finalizes World Bloom chapters and the event when they end, and     *)
(* records the rankings otherwise.  The clock moves during a tick.         *)
(*                                                                         *)
(* A record is one step here (EventTracker has its inside) and only its    *)
(* World Bloom rows are kept, as a version number for each chapter.        *)
(***************************************************************************)
EXTENDS Integers

CONSTANTS
  Events,     \* ids of the events in the master data, growing with their start
  Chapters,   \* characters a World Bloom chapter may belong to
  Schedule,   \* times of each event and of its chapters
  Grace,      \* how long an event is aggregated (600 000 ms)
  Horizon,    \* bound on the clock
  MaxRows,    \* bound on the versions of a chapter's rankings
  Interval,   \* pause between the refreshes of an ended event
  Faults,     \* what may go wrong
  MaxFaults,  \* bound on the number of faults
  None        \* no event, no tracker

FaultKinds == {"status", "init", "record", "chapter_record", "flag", "crash"}
EventStatuses   == {"ongoing", "aggregating", "ended"}
ChapterStatuses == EventStatuses \cup {"not_started"}

Chars(e) == DOMAIN Schedule[e].chapters

ASSUME ScheduleAssumption ==
  /\ Events \subseteq Nat /\ None \notin Nat
  /\ \A e \in Events :
       /\ Schedule[e].start \in Nat /\ Schedule[e].aggregate \in Nat /\ Schedule[e].close \in Nat
       /\ Chars(e) \subseteq Chapters
       /\ \A c \in Chars(e) : Schedule[e].chapters[c] \in [start : Nat, aggregate : Nat, end : Nat]
  /\ \A d, e \in Events : d < e => Schedule[d].start <= Schedule[e].start
ASSUME BoundsAssumption ==
  /\ Grace \in Nat /\ Horizon \in Nat /\ Interval \in Nat
  /\ MaxRows \in Nat /\ MaxFaults \in Nat /\ Faults \subseteq FaultKinds

VARIABLES
  now, ticked,        \* the clock; has the job fired since it last moved
  up, faults,         \* upstream: version of each chapter's rankings; faults so far
  pc, seen, todo,     \* the tick: where it is, what it saw, chapters to finalize
  inner,              \* the EventTrackerBase: event, ended, statuses, final, refreshed
  flagged,            \* Redis: events with the ended flag
  table               \* database: newest version of each chapter's rankings

clockVars == <<now, ticked>>
vars == <<clockVars, up, faults, pc, seen, todo, inner, flagged, table>>

PCs == {"idle", "init", "match", "chapter", "final", "post", "live"}

-----------------------------------------------------------------------------
(***************************************************************************)
(* The master data against the clock.                                      *)
(***************************************************************************)

\* get_current_event_status takes the first event whose window is open.
Within(e, n)    == Schedule[e].start < n /\ n < Schedule[e].close
IsCurrent(e, n) == Within(e, n) /\ \A d \in Events : d < e => ~Within(d, n)

EventStatus(e, n) ==
  CASE Schedule[e].start < n /\ n < Schedule[e].aggregate -> "ongoing"
    [] Schedule[e].aggregate < n /\ n < Schedule[e].aggregate + Grace -> "aggregating"
    [] OTHER -> "ended"

\* get_world_bloom_character_statuses
ChapterStatus(e, c, n) ==
  LET t == Schedule[e].chapters[c]
  IN  CASE t.end <= n -> "ended"
        [] t.aggregate < n /\ n < t.end -> "aggregating"
        [] t.start < n /\ n < t.aggregate /\ n < t.end -> "ongoing"
        [] OTHER -> "not_started"

\* What a look finds, if anything.
Sightings ==
  {[event |-> e, status |-> EventStatus(e, now),
    chapters |-> [c \in Chars(e) |-> ChapterStatus(e, c, now)]] :
     e \in {d \in Events : IsCurrent(d, now)}}

-----------------------------------------------------------------------------
SightingsOf(e) == [event : {e}, status : EventStatuses, chapters : [Chars(e) -> ChapterStatuses]]
TrackersOf(e)  == [event : {e}, ended : BOOLEAN, statuses : [Chars(e) -> ChapterStatuses],
                   final : [Chars(e) -> BOOLEAN], refreshed : 0 .. Horizon \cup {None}]

ASSUME NoneAssumption ==
  \A e \in Events : None \notin SightingsOf(e) /\ None \notin TrackersOf(e)

\* The types of the daemon's, Redis' and the table's state: a tracker has
\* statuses and flags for the chapters of its own event and for no others.
TypeOK ==
  /\ now \in 0 .. Horizon /\ ticked \in BOOLEAN /\ faults \in 0 .. MaxFaults
  /\ up \in [Events -> [Chapters -> 0 .. MaxRows]]
  /\ table \in [Events -> [Chapters -> 0 .. MaxRows]]
  /\ pc \in PCs /\ todo \in SUBSET Chapters /\ flagged \in SUBSET Events
  /\ seen = None \/ \E e \in Events : seen \in SightingsOf(e)
  /\ inner = None \/ \E e \in Events : inner \in TrackersOf(e)

Init ==
  /\ now = 0 /\ ticked = FALSE /\ faults = 0
  /\ up = [e \in Events |-> [c \in Chapters |-> 0]] /\ table = up
  /\ pc = "idle" /\ seen = None /\ todo = {}
  /\ inner = None /\ flagged = {}

\* Time passes, but the job fires at least once at every instant (whether the
\* daemon is free then or not).
Advance ==
  /\ now < Horizon /\ ticked
  /\ now' = now + 1 /\ ticked' = FALSE
  /\ UNCHANGED <<up, faults, pc, seen, todo, inner, flagged, table>>

\* Players of an ongoing chapter score.
Play ==
  /\ \E e \in Events : \E c \in Chars(e) :
       /\ ChapterStatus(e, c, now) = "ongoing" /\ up[e][c] < MaxRows
       /\ up' = [up EXCEPT ![e][c] = @ + 1]
  /\ UNCHANGED <<clockVars, faults, pc, seen, todo, inner, flagged, table>>

Fault(kind) == kind \in Faults /\ faults < MaxFaults /\ faults' = faults + 1

-----------------------------------------------------------------------------
(***************************************************************************)
(* The job of app.rs and the start of a tick.                              *)
(***************************************************************************)

\* try_lock fails: the previous tick is still running.
SkipTick ==
  /\ pc # "idle" /\ ~ticked /\ ticked' = TRUE
  /\ UNCHANGED <<now, up, faults, pc, seen, todo, inner, flagged, table>>

\* Mutant: a tracker that exists is never replaced.
NeedsInit_NoneOnly(e) == inner = None

\* No tracker yet, or a new event.
NeedsInit(e) == inner = None \/ inner.event < e

\* track_ranking_data begins.
Fire ==
  /\ pc = "idle" /\ ticked' = TRUE
  /\ \E s \in Sightings : /\ seen' = s
                          /\ pc' = IF NeedsInit(s.event) THEN "init" ELSE "match"
  /\ UNCHANGED <<now, up, faults, todo, inner, flagged, table>>

\* No event is active, or the master data cannot be read.
FireInVain ==
  /\ pc = "idle" /\ ticked' = TRUE
  /\ \/ Sightings = {} /\ ~ticked /\ UNCHANGED faults
     \/ Fault("status")
  /\ UNCHANGED <<now, up, pc, seen, todo, inner, flagged, table>>

TickOver == pc' = "idle" /\ seen' = None /\ todo' = {}

\* Mutant: the new tracker starts with the old one's chapter flags.
Build_KeepFlags ==
  /\ pc = "init"
  /\ \E s \in Sightings :
       inner' = [event |-> s.event, ended |-> s.status = "ended" \/ s.event \in flagged,
                 statuses |-> s.chapters,
                 final |-> IF inner = None THEN [c \in Chars(s.event) |-> FALSE] ELSE inner.final,
                 refreshed |-> None]
  /\ pc' = "match"
  /\ UNCHANGED <<clockVars, up, faults, seen, todo, flagged, table>>

\* Mutant: the ended flag in Redis is not consulted.
Build_NoFlag ==
  /\ pc = "init"
  /\ \E s \in Sightings :
       inner' = [event |-> s.event, ended |-> s.status = "ended",
                 statuses |-> s.chapters, final |-> [c \in Chars(s.event) |-> FALSE],
                 refreshed |-> None]
  /\ pc' = "match"
  /\ UNCHANGED <<clockVars, up, faults, seen, todo, flagged, table>>

\* HarukiEventTracker::init looks a second time and may find another event.
Build ==
  /\ pc = "init"
  /\ \E s \in Sightings :
       inner' = [event |-> s.event, ended |-> s.status = "ended" \/ s.event \in flagged,
                 statuses |-> s.chapters, final |-> [c \in Chars(s.event) |-> FALSE],
                 refreshed |-> None]
  /\ pc' = "match"
  /\ UNCHANGED <<clockVars, up, faults, seen, todo, flagged, table>>

\* ... or none, or Redis or the tables fail; the old tracker stays.
BuildFailed ==
  /\ pc = "init"
  /\ \/ Sightings = {} /\ UNCHANGED faults
     \/ Fault("init")
  /\ TickOver
  /\ UNCHANGED <<clockVars, up, inner, flagged, table>>

-----------------------------------------------------------------------------
(***************************************************************************)
(* handle_tracker_match: what kind of tick it is.                          *)
(***************************************************************************)
Matches == pc = "match" /\ inner.event = seen.event

MatchEnded ==
  /\ Matches /\ inner.ended
  /\ pc' = "post"
  /\ UNCHANGED <<clockVars, up, faults, seen, todo, inner, flagged, table>>

MatchAggregating ==
  /\ Matches /\ ~inner.ended /\ seen.status = "aggregating"
  /\ TickOver
  /\ UNCHANGED <<clockVars, up, faults, inner, flagged, table>>

MatchFinal ==
  /\ Matches /\ ~inner.ended /\ seen.status = "ended"
  /\ pc' = "final"
  /\ UNCHANGED <<clockVars, up, faults, seen, todo, inner, flagged, table>>

\* set_world_bloom_statuses keeps the flags; chapters that ended come first.
MatchOngoing ==
  /\ Matches /\ ~inner.ended /\ seen.status = "ongoing"
  /\ inner' = [inner EXCEPT !.statuses = seen.chapters]
  /\ todo' = {c \in Chars(inner.event) : seen.chapters[c] = "ended" /\ ~inner.final[c]}
  /\ pc' = IF todo' = {} THEN "live" ELSE "chapter"
  /\ UNCHANGED <<clockVars, up, faults, seen, flagged, table>>

\* The tracker was built for another event than the tick saw: it records.
MatchOther ==
  /\ pc = "match" /\ inner.event # seen.event
  /\ pc' = "live"
  /\ UNCHANGED <<clockVars, up, faults, seen, todo, inner, flagged, table>>

-----------------------------------------------------------------------------
(***************************************************************************)
(* Records.                                                                *)
(***************************************************************************)

\* Mutant: a chapter that is over is not recorded any more.
Tracked_NoEnded(c) ==
  inner.statuses[c] = "ongoing" /\ ChapterStatus(inner.event, c, now) # "aggregating"

\* process_world_bloom_chapter: the tracker's statuses and flags decide, and
\* upstream marks a chapter while it is being aggregated.
Tracked(c) ==
  /\ inner.statuses[c] = "ongoing" \/ (inner.statuses[c] = "ended" /\ ~inner.final[c])
  /\ ChapterStatus(inner.event, c, now) # "aggregating"

Recorded ==
  LET e == inner.event
  IN  table' = [table EXCEPT ![e] = [c \in Chapters |->
                  IF c \in Chars(e) /\ Tracked(c) THEN up[e][c] ELSE @[c]]]

\* record_ranking_data
Record(kind) ==
  \/ Recorded /\ UNCHANGED faults
  \/ Fault(kind) /\ UNCHANGED table

\* Mutant: the chapter is marked before its last record.
FinalizeChapter_FlagFirst(c) ==
  /\ pc = "chapter" /\ c \in todo
  /\ inner' = [inner EXCEPT !.final[c] = TRUE]
  /\ todo' = todo \ {c}
  /\ pc' = IF todo' = {} THEN "live" ELSE "chapter"
  /\ table' = [table EXCEPT ![inner.event] = [d \in Chapters |->
       IF d \in Chars(inner.event) \ {c} /\ Tracked(d) THEN up[inner.event][d] ELSE @[d]]]
  /\ UNCHANGED <<clockVars, up, faults, seen, flagged>>

\* handle_world_bloom_chapter: however its last record went, the chapter is
\* marked as ended.
FinalizeChapter(c) ==
  /\ pc = "chapter" /\ c \in todo
  /\ Record("chapter_record")
  /\ inner' = [inner EXCEPT !.final[c] = TRUE]
  /\ todo' = todo \ {c}
  /\ pc' = IF todo' = {} THEN "live" ELSE "chapter"
  /\ UNCHANGED <<clockVars, up, seen, flagged>>

\* A record of an ended tracker does nothing.
RecordLive ==
  /\ pc = "live"
  /\ \/ ~inner.ended /\ Record("record")
     \/ inner.ended /\ UNCHANGED <<table, faults>>
  /\ TickOver
  /\ UNCHANGED <<clockVars, up, inner, flagged>>

\* handle_event_ended: however the last record went, the event is marked as
\* ended, first in memory, then in Redis (whose failure is only logged).
RecordFinal ==
  /\ pc = "final"
  /\ \/ Record("record") /\ flagged' = flagged \cup {inner.event}
     \/ (Recorded \/ UNCHANGED table) /\ Fault("flag") /\ UNCHANGED flagged
  /\ inner' = [inner EXCEPT !.ended = TRUE]
  /\ TickOver
  /\ UNCHANGED <<clockVars, up>>

\* should_refresh_after_end
Due == inner.refreshed # None => inner.refreshed + Interval <= now

\* refresh_after_end; one that fails is tried again by the next tick.
Refresh ==
  /\ pc = "post"
  /\ \/ ~Due /\ UNCHANGED <<table, faults, inner>>
     \/ Due /\ Recorded /\ inner' = [inner EXCEPT !.refreshed = now] /\ UNCHANGED faults
     \/ Due /\ Fault("record") /\ UNCHANGED <<table, inner>>
  /\ TickOver
  /\ UNCHANGED <<clockVars, up, flagged>>

\* The process dies and comes back without a tracker.
Crash ==
  /\ Fault("crash")
  /\ inner' = None /\ TickOver
  /\ UNCHANGED <<clockVars, up, flagged, table>>

Tick ==
  \/ Fire \/ FireInVain \/ Build \/ BuildFailed
  \/ MatchEnded \/ MatchAggregating \/ MatchFinal \/ MatchOngoing \/ MatchOther
  \/ (\E c \in Chapters : FinalizeChapter(c)) \/ RecordLive \/ RecordFinal \/ Refresh

Next == Advance \/ Play \/ SkipTick \/ Tick \/ Crash

Spec == Init /\ [][Next]_vars

(***************************************************************************)
(* The scheduler fires, every await returns, and time passes.              *)
(***************************************************************************)
Fairness == WF_vars(Tick) /\ WF_vars(Advance)
FairSpec == Spec /\ Fairness

-----------------------------------------------------------------------------
(***************************************************************************)
(* Properties.                                                             *)
(***************************************************************************)

\* A chapter the tracker counts as ended, and so never records again, has its
\* final rows in the database.
ChapterSettled ==
  inner # None => \A c \in Chars(inner.event) :
    inner.final[c] => table[inner.event][c] = up[inner.event][c]

\* A tracker of an event whose end is recorded in Redis is an ended one,
\* whatever the clock says and however often the process restarted: it will
\* not write the event's final rows and heartbeats a second time.
FlagRespected == inner # None /\ inner.event \in flagged => inner.ended

\* A tick past its initialization never works for an older event than the one
\* it saw: an initialization that fails does not leave the tick to the tracker
\* of the previous event.
NeverBehind ==
  pc \notin {"idle", "init"} => inner # None /\ seen.event <= inner.event

\* Once time and faults are over, every chapter of the tracked event that the
\* tracker saw running or over has its final rows in the database, however the
\* ends of chapters and event, slow ticks, restarts and failed records fell
\* together.
ChaptersConverge ==
  <>[](inner # None => \A c \in Chars(inner.event) :
         inner.statuses[c] \in {"ongoing", "ended"} => table[inner.event][c] = up[inner.event][c])
=============================================================================
