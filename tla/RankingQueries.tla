--------------------------- MODULE RankingQueries ---------------------------
(***************************************************************************)
(* The queries on the tables of one event (db/query): what each returns    *)
(* for a content of the database                                           *)
(*   db.stamps  event_<id>_time_id: the i-th element is time_id i          *)
(*   db.rows    event_<id>: [tid, key, rank, score], key a user_id_key     *)
(*   db.wl      wl_<id>: the same with a chapter (its character_id)        *)
(*   db.users   event_<id>_users: the keys                                 *)
(* The World Bloom queries are those of the event on the rows of a chapter *)
(* and are written once, over a set of rows.  The columns that only say    *)
(* who a user is are left out; a user is a key.                            *)
(***************************************************************************)
EXTENDS Integers, Sequences, FiniteSets, FiniteSetsExt, SequencesExt

CONSTANT None

ASSUME NoneIsNoNumber == None \notin Int
ASSUME NoneIsNoRecord ==
  /\ None \notin [key : Int] \cup [ts : Int, rank : Int, key : Int, score : Int]
  /\ None \notin [tid : Int, key : Int, rank : Int, score : Int]
  /\ None \notin [rank : Int, from : Int, upto : Int, growth : Int]

-----------------------------------------------------------------------------
(* Rows and their order.  *)

Stamp(db, r) == db.stamps[r.tid].ts

\* What a response shows of a row.
Item(db, r) == [ts |-> Stamp(db, r), rank |-> r.rank, key |-> r.key,
                score |-> r.score]

ChapterRows(db, c) == {r \in db.wl : r.chapter = c}

ByRank(a, b) == a.rank < b.rank \/ (a.rank = b.rank /\ a.key < b.key)
ByMoment(a, b) == a.tid > b.tid \/ (a.tid = b.tid /\ ByRank(a, b))
ByTime(a, b) == a.tid < b.tid \/ (a.tid = b.tid /\ a.key < b.key)

\* ORDER BY: the place of a row is the number of rows before it.
Ordered(S, before(_, _)) ==
  [i \in 1..Cardinality(S) |->
     CHOOSE r \in S : Cardinality({q \in S : before(q, r)}) = i - 1]

-----------------------------------------------------------------------------
(* Filters: [ranks, low, high, from, upto, at, cursor, limit], None for a   *)
(* part that is not given.  before and after repeat upto and from; ranks is *)
(* what rankMin, rankMax or rank_in select.                                 *)

IsRankWindow(f) == f.ranks # None

HasTimeFilter_Bounds(f) == f.from # None \/ f.upto # None

HasTimeFilter(f) == f.from # None \/ f.upto # None \/ f.at # None

InSpan(f, ts) ==
  (f.from # None => ts >= f.from) /\ (f.upto # None => ts <= f.upto)

InScores(f, s) ==
  (f.low # None => s >= f.low) /\ (f.high # None => s <= f.high)

AfterRank_NoRank(c, r) == r.key > c.key

AfterRank(c, r) == r.rank > c.rank \/ (r.rank = c.rank /\ r.key > c.key)

AfterMoment(c, ts, r) == ts < c.ts \/ (ts = c.ts /\ AfterRank(c, r))

\* apply_common_filters: a page of the history, at one moment if asked.
Matching(db, table, f) ==
  {r \in table :
     LET ts == Stamp(db, r)
     IN /\ InScores(f, r.score) /\ InSpan(f, ts)
        /\ f.at # None => ts = f.at
        /\ f.cursor # None => AfterMoment(f.cursor, ts, r)}

\* The subquery of a rank window: the rows that may be the latest of a rank.
\* Its time filters need the join with the time table.
Eligible(db, table, f) ==
  {r \in table :
     /\ r.rank \in f.ranks /\ InScores(f, r.score)
     /\ HasTimeFilter(f) =>
          /\ InSpan(f, Stamp(db, r))
          /\ f.at # None => Stamp(db, r) <= f.at}

\* The rows at the MAX(time_id) of each rank, filtered once more.
LatestOfEachRank(db, table, f) ==
  LET eligible == Eligible(db, table, f)
      latest == {<<q.rank, Max({p.tid : p \in {p \in eligible : p.rank = q.rank}})>>
                   : q \in eligible}
  IN {r \in table : /\ <<r.rank, r.tid>> \in latest
                    /\ InScores(f, r.score)
                    /\ f.cursor # None => AfterRank(f.cursor, r)}

RankWindow(db, f) == LatestOfEachRank(db, db.rows, f)
ChapterRankWindow(db, c, f) == LatestOfEachRank(db, ChapterRows(db, c), f)

-----------------------------------------------------------------------------
(* Pages.  limit + 1 rows are fetched; the last of them is taken off and    *)
(* becomes the cursor of the next page.                                     *)

Page(sorted, limit) ==
  LET fetched == SubSeq(sorted, 1, Min({limit + 1, Len(sorted)}))
  IN IF Len(fetched) > limit
     THEN [rows |-> Front(fetched), next |-> Last(fetched)]
     ELSE [rows |-> fetched, next |-> None]

\* search_ranking_rows and its World Bloom twin.
SearchRankings(db, f) ==
  IF IsRankWindow(f)
  THEN Page(Ordered(RankWindow(db, f), ByRank), f.limit)
  ELSE Page(Ordered(Matching(db, db.rows, f), ByMoment), f.limit)

SearchChapterRankings(db, c, f) ==
  IF IsRankWindow(f)
  THEN Page(Ordered(ChapterRankWindow(db, c, f), ByRank), f.limit)
  ELSE Page(Ordered(Matching(db, ChapterRows(db, c), f), ByMoment), f.limit)

\* search_users: which users match is the filter's.
SearchUsers(db, f) ==
  LET ByKey(a, b) == a.key < b.key
      hits == {u \in db.users \cap f.matching :
                 f.cursor # None => u > f.cursor.key}
  IN Page(Ordered({[key |-> u] : u \in hits}, ByKey), f.limit)

\* The traces have no spare row: a client goes on after the last time it saw.
\* A trace filter is [from, upto, cursor, limit].
Trace(db, table, f) ==
  LET hits == {r \in table : /\ InSpan(f, Stamp(db, r))
                             /\ f.cursor # None => Stamp(db, r) > f.cursor}
      sorted == Ordered(hits, ByTime)
  IN IF f.limit = None THEN sorted
     ELSE SubSeq(sorted, 1, Min({f.limit, Len(sorted)}))

UserTrace(db, u, f) == Trace(db, {r \in db.rows : r.key = u}, f)
RankTrace(db, k, f) == Trace(db, {r \in db.rows : r.rank = k}, f)
ChapterUserTrace(db, c, u, f) ==
  Trace(db, {r \in ChapterRows(db, c) : r.key = u}, f)
ChapterRankTrace(db, c, k, f) ==
  Trace(db, {r \in ChapterRows(db, c) : r.rank = k}, f)

-----------------------------------------------------------------------------
(* Single rows, lines and growths.  *)

\* ORDER BY time_id DESC LIMIT 1.
Newest(S) == IF S = {} THEN None ELSE CHOOSE r \in S : \A q \in S : q.tid <= r.tid

LatestOfUser(db, u) == Newest({r \in db.rows : r.key = u})
LatestOfRank(db, k) == Newest({r \in db.rows : r.rank = k})
LatestOfChapterUser(db, c, u) == Newest({r \in ChapterRows(db, c) : r.key = u})
LatestOfChapterRank(db, c, k) == Newest({r \in ChapterRows(db, c) : r.rank = k})

\* The newest heartbeat or tick, not later than at.
LatestHeartbeat(db, at) ==
  LET S == {db.stamps[i] : i \in {i \in DOMAIN db.stamps :
                                    at # None => db.stamps[i].ts <= at}}
  IN IF S = {} THEN None ELSE CHOOSE s \in S : \A t \in S : t.ts <= s.ts

EdgeRows_Unbounded(db, table, ranks, span) ==
  {r \in table : r.rank \in ranks /\ (span.upto # None => Stamp(db, r) <= span.upto)}

EdgeRows(db, table, ranks, span) ==
  {r \in table : r.rank \in ranks /\ InSpan(span, Stamp(db, r))}

\* rank_edge_select: of each rank that has rows in the span, the first or the
\* last one by time_id.
RankEdge(db, table, ranks, edge, span) ==
  LET inner == EdgeRows(db, table, ranks, span)
      tids(k) == {r.tid : r \in {r \in inner : r.rank = k}}
      tid(k) == IF edge = "early" THEN Min(tids(k)) ELSE Max(tids(k))
  IN [k \in {r.rank : r \in inner} |->
        LET r == CHOOSE r \in table : r.rank = k /\ r.tid = tid(k)
        IN [ts |-> Stamp(db, r), score |-> r.score]]

\* build_growth: two different samples are needed.
Growth(k, earlier, latest) ==
  IF earlier.ts = latest.ts THEN None
  ELSE [rank |-> k, from |-> earlier.ts, upto |-> latest.ts,
        growth |-> latest.score - earlier.score]

Growths(ranks, early, late) ==
  {Growth(k, early[k], late[k])
     : k \in ranks \cap DOMAIN early \cap DOMAIN late} \ {None}

\* The rank lines: each rank's newest sample, not later than at.
RankLines(db, ranks, at) ==
  RankEdge(db, db.rows, ranks, "late", [from |-> None, upto |-> at])
ChapterLines(db, c, ranks, at) ==
  RankEdge(db, ChapterRows(db, c), ranks, "late", [from |-> None, upto |-> at])

\* earliest_rows_by_user, and the growth of a player since then.
EarliestByUser(db, table, keys, span) ==
  LET hits == {r \in table : r.key \in keys /\ InSpan(span, Stamp(db, r))}
  IN [u \in {r.key : r \in hits} |->
        CHOOSE r \in hits : /\ r.key = u
                            /\ \A q \in hits : q.key = u => Stamp(db, r) <= Stamp(db, q)]

PlayerGrowth(db, top, earliest) ==
  IF Stamp(db, earliest) < Stamp(db, top)
  THEN [key |-> top.key, from |-> Stamp(db, earliest), upto |-> Stamp(db, top),
        growth |-> top.score - earliest.score]
  ELSE None

PlayerGrowths(db, table, top, span) ==
  LET earliest == EarliestByUser(db, table, {r.key : r \in top}, span)
  IN {PlayerGrowth(db, r, earliest[r.key])
        : r \in {r \in top : r.key \in DOMAIN earliest}} \ {None}

TopPlayerGrowths(db, top, span) == PlayerGrowths(db, db.rows, top, span)
ChapterPlayerGrowths(db, c, top, span) ==
  PlayerGrowths(db, ChapterRows(db, c), top, span)
=============================================================================
