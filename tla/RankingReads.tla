---------------------------- MODULE RankingReads ----------------------------
(***************************************************************************)
(* Readers of the rankings of one event while its tracker writes them.     *)
(* The tracker appends a time id and the changed rows on each tick         *)
(* (tracker/base.rs, db/query/batch.rs); a reader is an API request that   *)
(* takes several queries, each on the database as it is then: a client     *)
(* that pages through rankings, users or a trace (api/handler/web.rs), an  *)
(* overview, live or replayed at an instant, and a snapshot of some ranks  *)
(* with growths or round metrics (api/handler/leaderboard).                *)
(*                                                                         *)
(* Time is in units in which the clock ticks.  The tracker's memory is     *)
(* never lost here and its faults are the failures of a write: EventTracker *)
(* has the rest of it.  One reader is followed in a behaviour.             *)
(***************************************************************************)
EXTENDS RankingQueries, RoundMetrics, TLC

CONSTANTS
  Chapters,    \* World Bloom characters; {} for another event
  Payloads,    \* upstream, as the event goes on: a sequence of
               \* [main |-> board, wl |-> [Chapters -> board]], a board
               \* giving some ranks a [key, score]
  Calls,       \* the requests that may be made
  TopLimit,    \* TOP_RANK_LIMIT
  LineRanks,   \* SEKAI_EVENT_RANKING_LINES_*
  MaxNow, MaxFaults   \* bounds on the clock and on failures

ASSUME ChaptersAssumption ==
  /\ IsFiniteSet(Chapters)
  /\ None \notin Chapters
  /\ None \notin [tid : Int, key : Int, rank : Int, score : Int, chapter : Chapters]

\* clamp_limit makes the limit of a page at least 1; a client begins without a
\* cursor.
IsPageFilter(f, parts) ==
  DOMAIN f = parts \cup {"cursor", "limit"} /\ f.cursor = None /\ f.limit \in Nat \ {0}

ASSUME CallsAssumption ==
  \A q \in Calls :
    /\ q.chapter \in Chapters \cup {None}
    /\ q.kind = "rankings" =>
         IsPageFilter(q.filter, {"ranks", "low", "high", "from", "upto", "at"})
    /\ q.kind = "users" => IsPageFilter(q.filter, {"matching"})
    /\ q.kind = "trace" => IsPageFilter(q.filter, {"from", "upto"})
    /\ q.kind \in {"trace", "subject"} => q.by \in {"user", "rank"}
    /\ q.kind = "overview" => q.at \in Int \cup {None}
    /\ q.kind = "snapshot" => q.ranks \in Seq(Int)

\* A board has finitely many ranks, each with one user; a user at two ranks is
\* left to EventTracker.
IsBoard(b) ==
  /\ IsFiniteSet(DOMAIN b) /\ DOMAIN b \subseteq Nat \ {0}
  /\ \A k \in DOMAIN b : b[k] \in [key : Nat, score : Int]
  /\ \A k, l \in DOMAIN b : b[k].key = b[l].key => k = l

ASSUME PayloadsAssumption ==
  /\ Len(Payloads) \in Nat \ {0} /\ DOMAIN Payloads = 1..Len(Payloads)
  /\ \A i \in 1..Len(Payloads) :
       IsBoard(Payloads[i].main) /\ \A c \in Chapters : IsBoard(Payloads[i].wl[c])

ASSUME BoundsAssumption == TopLimit \in Nat /\ MaxNow \in Nat \ {0} /\ MaxFaults \in Nat

VARIABLES
  now,     \* the clock, in seconds
  db,      \* the tables
  tick,    \* the tracker's tick
  prev,    \* its prev_rank_state and prev_world_bloom_state
  game,    \* upstream: the payload it gave last
  faults,  \* failures so far
  ask,     \* the reader's request, a member of Calls
  pages,   \* a client that pages: where it is and what it has
  call,    \* any other request: the queries to do, and their results
  answer   \* what that request answered, None before

vars == <<now, db, tick, prev, game, faults, ask, pages, call, answer>>

trackerVars == <<db, tick, prev, game>>
readerVars == <<ask, pages, call, answer>>

IdleTick == [phase |-> "idle", begun |-> 0, time |-> 0, data |-> 1, landed |-> FALSE]
NothingRead == [top |-> None, players |-> None, lines |-> None, early |-> None,
                late |-> None, status |-> None, items |-> <<>>, traces |-> <<>>,
                current |-> None]
Queries == {"resolve", "items", "top", "span", "players", "lines", "early",
            "late", "status", "subject", "trace"}

TypeOK ==
  /\ now \in 1..MaxNow
  /\ \A r \in db.rows \cup db.wl : r.tid \in DOMAIN db.stamps /\ r.key \in db.users
  /\ tick.phase \in {"idle", "fetch", "main", "chapters"}
  /\ tick.begun <= now /\ tick.time <= now
  /\ game \in DOMAIN Payloads /\ tick.data <= game /\ faults \in 0..MaxFaults
  /\ ask \in Calls
  /\ pages.state \in {"none", "open", "closed"}
  /\ \A r \in pages.edges : r \in pages.base \cup db.rows \cup db.wl
                                      \cup {[key |-> u] : u \in db.users}
  /\ call.state \in {"none", "run", "done"}
  /\ call.todo \subseteq Queries /\ call.jobs \subseteq DOMAIN call.res.items
  /\ call.todo # {} => call.state = "run"
  /\ answer # None => call.state = "done"

Init ==
  /\ now = 1
  /\ db = [stamps |-> <<>>, rows |-> {}, wl |-> {}, users |-> {}]
  /\ tick = IdleTick
  /\ prev = [ranks |-> <<>>, players |-> <<>>]
  /\ game = 1 /\ faults = 0
  /\ ask \in Calls
  /\ pages = [state |-> "none", cursor |-> None, got |-> <<>>, edges |-> {}, base |-> {}]
  /\ call = [state |-> "none", end |-> None, ranks |-> <<>>, todo |-> {}, jobs |-> {},
             res |-> NothingRead,
             due |-> {}, seen |-> {}, failed |-> FALSE, settled |-> FALSE]
  /\ answer = None

Elapse ==
  /\ now < MaxNow /\ now' = now + 1
  /\ UNCHANGED <<trackerVars, faults, readerVars>>

Fault == faults < MaxFaults /\ faults' = faults + 1

-----------------------------------------------------------------------------
(* The tracker.  *)

\* A time id for a moment, made unless there is one.
WithStamp(stamps, ts, status) ==
  IF \E i \in DOMAIN stamps : stamps[i].ts = ts THEN stamps
  ELSE Append(stamps, [ts |-> ts, status |-> status])

TimeId(stamps, ts) == CHOOSE i \in DOMAIN stamps : stamps[i].ts = ts

\* write_heartbeat.
Heartbeat(ts, status) == [db EXCEPT !.stamps = WithStamp(@, ts, status)]

Begin ==
  /\ tick.phase = "idle"
  /\ tick' = [IdleTick EXCEPT !.phase = "fetch", !.begun = now]
  /\ UNCHANGED <<now, db, prev, game, faults, readerVars>>

\* Upstream fails: a heartbeat with status 1, that may fail as well.
FetchFails ==
  /\ tick.phase = "fetch" /\ tick' = IdleTick
  /\ db' \in {db, Heartbeat(tick.begun, 1)} /\ Fault
  /\ UNCHANGED <<now, prev, game, readerVars>>

\* The payload is dated after it has come.  Two of a second are left to
\* EventTracker.
Fetched ==
  /\ tick.phase = "fetch"
  /\ \A i \in DOMAIN db.stamps : db.stamps[i].ts # now
  /\ game' \in game..Len(Payloads)
  /\ tick' = [tick EXCEPT !.phase = "main", !.time = now, !.data = game']
  /\ UNCHANGED <<now, db, prev, faults, readerVars>>

\* diff_rank_based.
ChangedRanks(board) ==
  {k \in DOMAIN board : k \notin DOMAIN prev.ranks \/ prev.ranks[k] # board[k]}

\* The World Bloom diff is by user and chapter.
ChangedPlayers(wl) ==
  UNION {{[chapter |-> c, key |-> wl[c][k].key, score |-> wl[c][k].score, rank |-> k]
            : k \in {k \in DOMAIN wl[c] :
                       LET who == <<wl[c][k].key, c>>
                       IN who \notin DOMAIN prev.players
                          \/ prev.players[who] # [score |-> wl[c][k].score, rank |-> k]}}
           : c \in Chapters}

\* batch_insert_event_rankings: the users and then, in one transaction, the
\* time id and the rows.
LandMain ==
  LET board == Payloads[tick.data].main
      changed == ChangedRanks(board)
      stamps == WithStamp(db.stamps, tick.time, 0)
      new == {[tid |-> TimeId(stamps, tick.time), key |-> board[k].key, rank |-> k,
               score |-> board[k].score] : k \in changed}
  IN /\ tick.phase = "main"
     /\ IF changed = {}
        THEN /\ tick' = [tick EXCEPT !.phase = "chapters"]
             /\ UNCHANGED <<db, prev>>
        ELSE /\ db' = [db EXCEPT !.stamps = stamps, !.rows = @ \cup new,
                                 !.users = @ \cup {r.key : r \in new}]
             /\ prev' = [prev EXCEPT !.ranks = board @@ @]
             /\ tick' = [tick EXCEPT !.phase = "chapters", !.landed = TRUE]
     /\ UNCHANGED <<now, game, faults, readerVars>>

LandChapters_Beat ==
  LET changed == ChangedPlayers(Payloads[tick.data].wl)
      stamps == WithStamp(db.stamps, tick.time, 0)
      new == {[tid |-> TimeId(stamps, tick.time), key |-> r.key, rank |-> r.rank,
               score |-> r.score, chapter |-> r.chapter] : r \in changed}
      written == [db EXCEPT !.stamps = stamps, !.wl = @ \cup new,
                            !.users = @ \cup {r.key : r \in new}]
  IN /\ tick.phase = "chapters" /\ tick' = IdleTick
     /\ db' = IF changed # {}
              THEN [written EXCEPT !.stamps = WithStamp(@, tick.begun, 0)]
              ELSE Heartbeat(tick.begun, 0)
     /\ prev' = [prev EXCEPT !.players =
                   [who \in {<<r.key, r.chapter>> : r \in changed} |->
                      LET r == CHOOSE r \in changed : <<r.key, r.chapter>> = who
                      IN [score |-> r.score, rank |-> r.rank]] @@ @]
     /\ UNCHANGED <<now, game, faults, readerVars>>

\* batch_insert_world_bloom_rankings, and the idle heartbeat of a tick that
\* has written nothing: it has the time at which the tick began.
LandChapters ==
  LET changed == ChangedPlayers(Payloads[tick.data].wl)
      stamps == WithStamp(db.stamps, tick.time, 0)
      new == {[tid |-> TimeId(stamps, tick.time), key |-> r.key, rank |-> r.rank,
               score |-> r.score, chapter |-> r.chapter] : r \in changed}
  IN /\ tick.phase = "chapters" /\ tick' = IdleTick
     /\ db' = IF changed # {}
              THEN [db EXCEPT !.stamps = stamps, !.wl = @ \cup new,
                              !.users = @ \cup {r.key : r \in new}]
              ELSE IF tick.landed THEN db ELSE Heartbeat(tick.begun, 0)
     /\ prev' = [prev EXCEPT !.players =
                   [who \in {<<r.key, r.chapter>> : r \in changed} |->
                      LET r == CHOOSE r \in changed : <<r.key, r.chapter>> = who
                      IN [score |-> r.score, rank |-> r.rank]] @@ @]
     /\ UNCHANGED <<now, game, faults, readerVars>>

\* A write fails and ends the tick; the users may have been upserted.
LandFails ==
  LET board == Payloads[tick.data].main
      wl == ChangedPlayers(Payloads[tick.data].wl)
  IN /\ \/ tick.phase = "main" /\ ChangedRanks(board) # {}
        \/ tick.phase = "chapters" /\ (wl # {} \/ ~tick.landed)
     /\ tick' = IdleTick
     /\ db' \in {db, [db EXCEPT !.users = @ \cup
                        (IF tick.phase = "main" THEN {board[k].key : k \in ChangedRanks(board)}
                                                ELSE {r.key : r \in wl})]}
     /\ Fault /\ UNCHANGED <<now, prev, game, readerVars>>

Tracker == Begin \/ FetchFails \/ Fetched \/ LandMain \/ LandChapters \/ LandFails

-----------------------------------------------------------------------------
(* A client that pages: [kind, chapter, filter], a trace with by, subject.  *)

Paged(q) == q.kind \in {"rankings", "users", "trace"}

TableOf(c) == IF c = None THEN db.rows ELSE ChapterRows(db, c)

\* What the client is after: all that the filter selects now.
Wanted(q) ==
  CASE q.kind = "rankings" ->
         IF IsRankWindow(q.filter)
         THEN LatestOfEachRank(db, TableOf(q.chapter), q.filter)
         ELSE Matching(db, TableOf(q.chapter), q.filter)
    [] q.kind = "users" -> {[key |-> u] : u \in db.users \cap q.filter.matching}
    [] q.kind = "trace" ->
         {r \in TableOf(q.chapter) :
            /\ IF q.by = "user" THEN r.key = q.subject ELSE r.rank = q.subject
            /\ InSpan(q.filter, Stamp(db, r))}

Open ==
  /\ Paged(ask) /\ pages.state = "none"
  /\ pages' = [pages EXCEPT !.state = "open", !.base = Wanted(ask)]
  /\ UNCHANGED <<now, trackerVars, faults, ask, call, answer>>

\* One page of rankings; the cursor names the moment, rank and key of a row.
RankingPage ==
  LET f == [ask.filter EXCEPT !.cursor = pages.cursor]
      page == IF ask.chapter = None THEN SearchRankings(db, f)
              ELSE SearchChapterRankings(db, ask.chapter, f)
      more == page.next # None
  IN /\ ask.kind = "rankings" /\ pages.state = "open"
     /\ pages' = [pages EXCEPT
          !.state = IF more THEN "open" ELSE "closed",
          !.cursor = IF more THEN Item(db, page.next) ELSE None,
          !.got = @ \o [i \in DOMAIN page.rows |-> Item(db, page.rows[i])],
          !.edges = IF more THEN @ \cup {page.next} ELSE @]
     /\ UNCHANGED <<now, trackerVars, faults, ask, call, answer>>

UserPage ==
  LET page == SearchUsers(db, [ask.filter EXCEPT !.cursor = pages.cursor])
      more == page.next # None
  IN /\ ask.kind = "users" /\ pages.state = "open"
     /\ pages' = [pages EXCEPT
          !.state = IF more THEN "open" ELSE "closed", !.cursor = page.next,
          !.got = @ \o page.rows,
          !.edges = IF more THEN @ \cup {page.next} ELSE @]
     /\ UNCHANGED <<now, trackerVars, faults, ask, call, answer>>

\* search_user_trace, search_rank_trace and their World Bloom twins.
TraceOf(c, by, subject, f) ==
  CASE c = None /\ by = "user" -> UserTrace(db, subject, f)
    [] c = None /\ by = "rank" -> RankTrace(db, subject, f)
    [] c # None /\ by = "user" -> ChapterUserTrace(db, c, subject, f)
    [] c # None /\ by = "rank" -> ChapterRankTrace(db, c, subject, f)

\* The client goes on behind the last time it has, until a page is not full.
TracePage ==
  LET f == [ask.filter EXCEPT !.cursor = pages.cursor]
      rows == TraceOf(ask.chapter, ask.by, ask.subject, f)
      items == [i \in DOMAIN rows |-> Item(db, rows[i])]
      more == Len(rows) = f.limit
  IN /\ ask.kind = "trace" /\ pages.state = "open"
     /\ pages' = [pages EXCEPT
          !.state = IF more THEN "open" ELSE "closed",
          !.cursor = IF more THEN items[Len(items)].ts ELSE None,
          !.got = @ \o items]
     /\ UNCHANGED <<now, trackerVars, faults, ask, call, answer>>

-----------------------------------------------------------------------------
(* The other requests: [kind, chapter, interval, at] and, of a snapshot,    *)
(* ranks or user, adjacent, growth and rounds.                              *)

Doing(t) == call.state = "run" /\ t \in call.todo

\* The result of query t; it is followed by the queries of next.  An error that
\* is not hidden ends the request, and is left out.
Finds(t, next, field, value) ==
  /\ Doing(t)
  /\ call' = [call EXCEPT !.todo = (@ \ {t}) \cup next, !.res[field] = value]
  /\ UNCHANGED <<now, trackerVars, faults, ask, pages, answer>>

\* The span of the growths.
Span == [from |-> call.end - ask.interval, upto |-> call.end]

\* No tick can still write at that moment or before.
Settled(at) == at < now /\ (tick.phase # "idle" => tick.begun > at)

\* build_overview: first the top ranks, of a filter with nothing else.
AskOverview ==
  /\ ask.kind = "overview" /\ call.state = "none"
  /\ call' = [call EXCEPT !.state = "run", !.todo = {"top"},
                !.settled = ask.at # None /\ Settled(ask.at)]
  /\ UNCHANGED <<now, trackerVars, faults, ask, pages, answer>>

RankFilter(ranks, at, limit) ==
  [ranks |-> ranks, low |-> None, high |-> None, from |-> None, upto |-> None,
   at |-> at, cursor |-> None, limit |-> limit]

TopRows(c, at) ==
  LET f == RankFilter(1..TopLimit, at, TopLimit)
  IN (IF c = None THEN SearchRankings(db, f) ELSE SearchChapterRankings(db, c, f)).rows

Top == Finds("top", {"span"}, "top", TopRows(ask.chapter, ask.at))

\* Only now is the end of the span taken, and the rest asked all at once.
OverviewSpan ==
  /\ Doing("span")
  /\ call' = [call EXCEPT !.todo = {"players", "lines", "early", "late", "status"},
                          !.end = IF ask.at # None THEN ask.at ELSE now]
  /\ UNCHANGED <<now, trackerVars, faults, ask, pages, answer>>

PlayersOf(c, top, span) ==
  LET rows == {top[i] : i \in DOMAIN top}
  IN IF c = None THEN TopPlayerGrowths(db, rows, span)
                 ELSE ChapterPlayerGrowths(db, c, rows, span)

Players ==
  Finds("players", {}, "players", PlayersOf(ask.chapter, call.res.top, Span))

LinesOf(c, at) ==
  LET border == {k \in LineRanks : k > TopLimit}
  IN IF c = None THEN RankLines(db, border, at) ELSE ChapterLines(db, c, border, at)

\* An error of the query leaves no lines.
Lines ==
  /\ Doing("lines")
  /\ \E fails \in BOOLEAN :
       /\ IF fails THEN Fault ELSE UNCHANGED faults
       /\ call' = [call EXCEPT !.todo = @ \ {"lines"}, !.failed = @ \/ fails,
            !.res.lines = IF fails THEN <<>> ELSE LinesOf(ask.chapter, ask.at)]
  /\ UNCHANGED <<now, trackerVars, ask, pages, answer>>

\* The ranks whose growth is asked for.
GrowthRanks ==
  IF ask.kind = "overview" THEN 1..TopLimit \cup LineRanks
  ELSE {call.ranks[i] : i \in DOMAIN call.ranks}

\* The samples of a rank that the span holds, as they were written.
Samples(c, k, span) ==
  {Item(db, r) : r \in {r \in TableOf(c) : r.rank = k /\ InSpan(span, Stamp(db, r))}}

\* Whether the span holds two.
Due(c, k, span) == Cardinality({s.ts : s \in Samples(c, k, span)}) > 1

\* The difference of the last and the first score in the span, by time.
TrueGrowth(c, k, span) ==
  LET S == Samples(c, k, span)
      first == CHOOSE s \in S : \A t \in S : s.ts <= t.ts
      last == CHOOSE s \in S : \A t \in S : s.ts >= t.ts
  IN [rank |-> k, from |-> first.ts, upto |-> last.ts,
      growth |-> last.score - first.score]

TrueGrowths(c, ranks, span) ==
  {TrueGrowth(c, k, span) : k \in {k \in ranks : Due(c, k, span)}}

\* One of the two queries of fetch_growths; an error leaves no rows.
Edge(e) ==
  LET other == IF e = "early" THEN "late" ELSE "early"
      found == RankEdge(db, TableOf(ask.chapter), GrowthRanks, e, Span)
  IN /\ Doing(e)
     /\ \E fails \in BOOLEAN :
          /\ IF fails THEN Fault ELSE UNCHANGED faults
          /\ call' = [call EXCEPT
            !.todo = @ \ {e}, !.res[e] = IF fails THEN <<>> ELSE found,
            !.failed = @ \/ fails,
            !.due = IF other \in call.todo
                    THEN {k \in GrowthRanks : Due(ask.chapter, k, Span)} ELSE @,
            !.seen = IF e = "late" THEN TrueGrowths(ask.chapter, GrowthRanks, Span)
                     ELSE @]
     /\ UNCHANGED <<now, trackerVars, ask, pages, answer>>

\* overview_status.
Status == Finds("status", {}, "status", LatestHeartbeat(db, ask.at))

\* build_rank_snapshots_response: the end of the span is taken first.  The
\* snapshot of a user is that of the rank it was last seen at.
AskSnapshot ==
  /\ ask.kind = "snapshot" /\ call.state = "none"
  /\ call' = [call EXCEPT !.state = "run",
       !.todo = IF ask.user = None THEN {"items"} ELSE {"resolve"},
       !.ranks = ask.ranks,
       !.end = IF ask.at # None THEN ask.at ELSE now]
  /\ UNCHANGED <<now, trackerVars, faults, ask, pages, answer>>

\* The newest row of a user or of a rank.
Latest(by, subject) ==
  CASE ask.chapter = None /\ by = "user" -> LatestOfUser(db, subject)
    [] ask.chapter = None /\ by = "rank" -> LatestOfRank(db, subject)
    [] ask.chapter # None /\ by = "user" -> LatestOfChapterUser(db, ask.chapter, subject)
    [] ask.chapter # None /\ by = "rank" -> LatestOfChapterRank(db, ask.chapter, subject)

Resolve_Goes ==
  LET latest == Latest("user", ask.user)
  IN /\ Doing("resolve")
     /\ call' = IF latest = None THEN [call EXCEPT !.state = "done"]
                ELSE [call EXCEPT !.todo = {"items"}, !.ranks = <<latest.rank>>,
                        !.end = IF ask.at # None THEN ask.at ELSE now]
     /\ UNCHANGED <<now, trackerVars, faults, ask, pages, answer>>

\* The rank a user was last seen at; a user that is not found ends the request,
\* without an answer.
Resolve ==
  LET latest == Latest("user", ask.user)
  IN /\ Doing("resolve")
     /\ call' = IF latest = None THEN [call EXCEPT !.state = "done", !.todo = {}]
                ELSE [call EXCEPT !.todo = {"items"}, !.ranks = <<latest.rank>>,
                        !.end = IF ask.at # None THEN ask.at ELSE now]
     /\ UNCHANGED <<now, trackerVars, faults, ask, pages, answer>>

\* The ranks that are fetched: those asked for and, perhaps, their neighbours.
Requested ==
  LET ranks == {call.ranks[i] : i \in DOMAIN call.ranks}
  IN IF ask.adjacent THEN ranks \cup {k + 1 : k \in ranks} \cup ({k - 1 : k \in ranks} \ {0})
     ELSE ranks

\* fetch_snapshot_items, and with it how the request goes on: cloud_query_for_scope
\* asks for the trace of the user of every rank it has found.
Items ==
  LET f == RankFilter(Requested, ask.at, Cardinality(Requested))
      rows == (IF ask.chapter = None THEN SearchRankings(db, f)
               ELSE SearchChapterRankings(db, ask.chapter, f)).rows
      found == {Item(db, rows[i]) : i \in DOMAIN rows}
      items == [k \in {x.rank : x \in found} |-> CHOOSE x \in found : x.rank = k]
      shown == DOMAIN items \cap {call.ranks[i] : i \in DOMAIN call.ranks}
  IN /\ Doing("items")
     /\ call' = [call EXCEPT !.res.items = items,
          !.todo = IF ask.growth THEN {"early", "late"} ELSE {},
          !.jobs = IF ask.rounds THEN shown ELSE {}]
     /\ UNCHANGED <<now, trackerVars, faults, ask, pages, answer>>

MetricsFilter_NoEnd(item) ==
  [from |-> None, upto |-> None, cursor |-> None, limit |-> None]

\* cloud_trace_metrics_filter: up to the row that is shown.
MetricsFilter(item) ==
  [from |-> None, upto |-> item.ts, cursor |-> None, limit |-> None]

\* The trace of the user at rank k; without a permit, or on an error, none.
Enrich(k) ==
  LET item == call.res.items[k]
      rows == TraceOf(ask.chapter, "user", item.key, MetricsFilter(item))
      trace == [i \in DOMAIN rows |-> [ts |-> Stamp(db, rows[i]), score |-> rows[i].score]]
      traces == [l \in DOMAIN call.res.traces \cup {k} |->
                   IF l = k THEN trace ELSE call.res.traces[l]]
  IN /\ k \in call.jobs
     /\ \E known \in BOOLEAN :
          /\ IF known THEN UNCHANGED faults ELSE Fault
          /\ call' = [call EXCEPT !.jobs = @ \ {k},
                     !.res.traces = IF known THEN traces ELSE @]
     /\ UNCHANGED <<now, trackerVars, ask, pages, answer>>

\* build_subject_trace_response, a request [kind, chapter, by, subject]: first
\* its current row, without which a rank has no trace, and then the trace.
AskSubject ==
  /\ ask.kind = "subject" /\ call.state = "none"
  /\ call' = [call EXCEPT !.state = "run", !.todo = {"subject"}]
  /\ UNCHANGED <<now, trackerVars, faults, ask, pages, answer>>

ResolveSubject ==
  LET latest == Latest(ask.by, ask.subject)
  IN /\ Doing("subject")
     /\ call' = IF latest = None /\ ask.by = "rank"
                THEN [call EXCEPT !.state = "done", !.todo = {}]
                ELSE [call EXCEPT !.todo = {"trace"},
                  !.res.current = IF latest = None THEN None ELSE Item(db, latest)]
     /\ UNCHANGED <<now, trackerVars, faults, ask, pages, answer>>

\* The trace, once a permit is there; an empty one is an error.
SubjectTrace ==
  LET all == [from |-> None, upto |-> None, cursor |-> None, limit |-> None]
      rows == TraceOf(ask.chapter, ask.by, ask.subject, all)
  IN /\ Doing("trace")
     /\ call' = [call EXCEPT !.state = "done", !.todo = {}]
     /\ answer' = IF rows = <<>> THEN None
                  ELSE [current |-> call.res.current,
                        trace |-> [i \in DOMAIN rows |-> Item(db, rows[i])]]
     /\ UNCHANGED <<now, trackerVars, faults, ask, pages>>

-----------------------------------------------------------------------------
(* The answers.  *)

OverviewAnswer(top, players, lines, early, late, status) ==
  LET growths == Growths(1..TopLimit \cup LineRanks, early, late)
  IN [top |-> [i \in DOMAIN top |-> Item(db, top[i])], players |-> players, lines |-> lines,
      topGrowths |-> {g \in growths : g.rank <= TopLimit},
      borderGrowths |-> {g \in growths : g.rank > TopLimit},
      status |-> status]

ReplyOverview ==
  LET r == call.res
  IN /\ ask.kind = "overview" /\ call.state = "run" /\ call.todo = {}
     /\ call' = [call EXCEPT !.state = "done"]
     /\ answer' = OverviewAnswer(r.top, r.players, r.lines, r.early, r.late, r.status)
     /\ UNCHANGED <<now, trackerVars, faults, ask, pages>>

\* A rank that was not found is left out; when none was, neither is there an
\* answer.
ReplySnapshot ==
  LET r == call.res
      shown == SelectSeq(call.ranks, LAMBDA k : k \in DOMAIN r.items)
      item(k) == IF k \in DOMAIN r.items THEN r.items[k] ELSE None
      growths == IF ask.growth THEN Growths(GrowthRanks, r.early, r.late) ELSE {}
      growth(k) == {g \in growths : g.rank = k}
      rounds(k) == IF k \in DOMAIN r.traces THEN Metrics(r.traces[k], now) ELSE NoMetrics
  IN /\ ask.kind = "snapshot" /\ call.state = "run"
     /\ call.todo = {} /\ call.jobs = {}
     /\ call' = [call EXCEPT !.state = "done"]
     /\ answer' =
          IF shown = <<>> THEN None
          ELSE [time |-> now,
                ranks |-> [i \in DOMAIN shown |->
                  [current |-> item(shown[i]), growth |-> growth(shown[i]),
                   previous |-> IF ask.adjacent THEN item(shown[i] - 1) ELSE None,
                   next |-> IF ask.adjacent THEN item(shown[i] + 1) ELSE None,
                   rounds |-> rounds(shown[i])]]]
     /\ UNCHANGED <<now, trackerVars, faults, ask, pages>>

Reader ==
  \/ Open \/ RankingPage \/ UserPage \/ TracePage
  \/ AskOverview \/ Top \/ OverviewSpan \/ Players \/ Lines \/ Status
  \/ \E e \in {"early", "late"} : Edge(e)
  \/ AskSnapshot \/ Resolve \/ Items
  \/ AskSubject \/ ResolveSubject \/ SubjectTrace
  \/ \E k \in call.jobs : Enrich(k)
  \/ ReplyOverview \/ ReplySnapshot

Next == Elapse \/ Tracker \/ Reader

Spec == Init /\ [][Next]_vars

-----------------------------------------------------------------------------
(* What the readers may rely on.  *)

\* Later time ids have later times: the queries take the order of time ids,
\* which an index gives, for the order of time.
MonotoneTimes ==
  \A i, j \in DOMAIN db.stamps : i < j => db.stamps[i].ts < db.stamps[j].ts

ItemOf(x) == IF ask.kind = "users" THEN x ELSE Item(db, x)

\* Whether a client that pages has x before y.
Before(x, y) ==
  CASE ask.kind = "users" -> x.key < y.key
    [] ask.kind = "trace" -> x.ts < y.ts
    [] ask.kind = "rankings" /\ IsRankWindow(ask.filter) ->
         x.rank < y.rank \/ (x.rank = y.rank /\ x.key < y.key)
    [] OTHER -> \/ x.ts > y.ts
                \/ x.ts = y.ts /\ (x.rank < y.rank \/ (x.rank = y.rank /\ x.key < y.key))

\* A client that has read to the last page, while the tracker wrote, has
\* nothing twice and all in order; of what its filter selected when it began,
\* and still selects, it lacks at most the rows of the cursors.
PagesLoseOnlyCursors ==
  pages.state = "closed" =>
    /\ \A i, j \in DOMAIN pages.got : i < j => Before(pages.got[i], pages.got[j])
    /\ \A r \in pages.base \cap Wanted(ask) :
         r \in pages.edges \/ \E i \in DOMAIN pages.got : pages.got[i] = ItemOf(r)

\* Paginating with an order and a keyset cursor, as db/schema.rs has it of
\* /users and WEB_API_CAPABILITIES.md of the rankings, gives every row: the
\* code leaves out the row of each cursor.
PagesComplete ==
  pages.state = "closed" =>
    \A r \in pages.base \cap Wanted(ask) :
      \E i \in DOMAIN pages.got : pages.got[i] = ItemOf(r)

\* The first and the last scores of the growths are read by two queries, in
\* either order, while the table changes.  Yet all the growths of an answer are
\* those of the table at one moment, when the last scores were read; and a rank
\* that had one before both is not left out, unless a query failed.
GrowthIsSnapshot ==
  (call.res.early # None /\ call.res.late # None) =>
    LET growths == Growths(GrowthRanks, call.res.early, call.res.late)
    IN /\ growths \subseteq call.seen
       /\ call.failed \/ \A k \in call.due : \E g \in growths : g.rank = k

\* A replayed overview is cached for long, whatever is written.  If the
\* instant had passed for the tracker too when it was asked for, the answer is
\* what the database will always give.
ReplaySettled ==
  (answer # None /\ ask.kind = "overview" /\ call.settled /\ ~call.failed) =>
    LET c == ask.chapter
        top == TopRows(c, ask.at)
        edge(e) == RankEdge(db, TableOf(c), 1..TopLimit \cup LineRanks, e, Span)
    IN answer = OverviewAnswer(top, PlayersOf(c, top, Span), LinesOf(c, ask.at),
                  edge("early"), edge("late"), LatestHeartbeat(db, ask.at))

\* What the table has of the user of a row, up to that row.
UpToRow(row) ==
  {Item(db, r) : r \in {r \in TableOf(ask.chapter) : r.key = row.key /\ Stamp(db, r) <= row.ts}}

\* Where a window that starts then begins: with the last item until then, or else the
\* first of all.
BaseOf(own, start) ==
  LET old == {s \in own : s.ts <= start}
  IN IF old # {} THEN CHOOSE s \in old : \A t \in old : t.ts <= s.ts
     ELSE CHOOSE s \in own : \A t \in own : s.ts <= t.ts

\* The items that have more points than the one just before them, from base on.
Rises(own, base) ==
  {s \in own : \E t \in own :
     /\ base.ts <= t.ts /\ t.ts < s.ts /\ t.score < s.score
     /\ ~ \E w \in own : t.ts < w.ts /\ w.ts < s.ts}

\* The round metrics are those of the row they are shown with, although the
\* trace is read later: they start from the sample its user had an hour, or
\* twenty minutes, before the end of the window, and count the rises up to that row.
MetricsOfTheRow ==
  (answer # None /\ ask.kind = "snapshot") =>
    \A i \in DOMAIN answer.ranks :
      LET row == answer.ranks[i].current
          m == answer.ranks[i].rounds
          own == UpToRow(row)
          end == IF answer.time - row.ts > MaxLag THEN row.ts ELSE answer.time
          base == BaseOf(own, end - Hour)
          recent == BaseOf(own, end - Window)
      IN /\ m.hourRound.known => m.hourRound.value = Cardinality(Rises(own, base))
         /\ m.speed.known =>
              m.speed.value = (AtLeastZero(row.score - base.score) * Hour) \div (end - base.ts)
         /\ m.windowSpeed.known =>
              m.windowSpeed.value = AtLeastZero(row.score - recent.score) * (Hour \div Window)

\* A trace is read after the current row it is shown with, while others take
\* that rank and the user another one: the row is in the trace.
CurrentInTrace ==
  (answer # None /\ ask.kind = "subject" /\ answer.current # None) =>
    \E i \in DOMAIN answer.trace : answer.trace[i] = answer.current

\* What a request reads in a later query belongs to the rows it read before.
LaterReadsAgree == MetricsOfTheRow /\ CurrentInTrace
=============================================================================
