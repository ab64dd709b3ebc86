--------------------------- MODULE MCRankingReads ---------------------------
(***************************************************************************)
(* Instances of RankingReads for TLC: two ranks, three users, one chapter. *)
(***************************************************************************)
EXTENDS RankingReads

CONSTANT c1

MCChapters == {c1}

Board(k1, s1, k2, s2) == <<[key |-> k1, score |-> s1], [key |-> k2, score |-> s2]>>

\* A board, the two players overtaken one by one, and a newcomer.
MCPayloads ==
  <<[main |-> Board(1, 2, 2, 1), wl |-> (c1 :> Board(2, 2, 1, 1))],
   [main |-> Board(2, 3, 1, 2), wl |-> (c1 :> Board(2, 2, 1, 1))],
   [main |-> Board(1, 4, 3, 3), wl |-> (c1 :> Board(3, 4, 2, 2))]>>

Filter(ranks, from, at) ==
  [ranks |-> ranks, low |-> None, high |-> None, from |-> from, upto |-> None,
   at |-> at, cursor |-> None, limit |-> 1]
Pages(c, f) == [kind |-> "rankings", chapter |-> c, filter |-> f]
UserPages == [kind |-> "users", chapter |-> None,
              filter |-> [matching |-> 1..3, cursor |-> None, limit |-> 1]]
TracePages(c, by, s) ==
  [kind |-> "trace", chapter |-> c, by |-> by, subject |-> s,
   filter |-> [from |-> 2, upto |-> None, cursor |-> None, limit |-> 1]]
Overview(c, at) == [kind |-> "overview", chapter |-> c, interval |-> 2, at |-> at]
Snapshot(c, ranks, user, growth, rounds) ==
  [kind |-> "snapshot", chapter |-> c, ranks |-> ranks, user |-> user, at |-> None,
   interval |-> 2, adjacent |-> ~growth, growth |-> growth, rounds |-> rounds]
Subject(c, by, s) == [kind |-> "subject", chapter |-> c, by |-> by, subject |-> s]

MCCalls ==
  {Pages(None, Filter({1, 2}, None, None)), Pages(c1, Filter({1, 2}, None, 3)),
   Pages(None, Filter(None, 2, None)), Pages(c1, Filter(None, None, 2)),
   UserPages, TracePages(None, "user", 1), TracePages(c1, "rank", 1),
   TracePages(None, "rank", 2), TracePages(c1, "user", 2),
   Overview(None, 2),
   Subject(None, "user", 2), Subject(c1, "user", 3),
   Subject(None, "rank", 1), Subject(c1, "rank", 2),
   Snapshot(None, <<1, 2>>, None, TRUE, FALSE), Snapshot(c1, <<1>>, None, TRUE, FALSE),
   Snapshot(None, <<1>>, None, FALSE, TRUE), Snapshot(c1, <<>>, 2, FALSE, TRUE)}

Paging == {Pages(None, Filter({1, 2}, None, None)), UserPages}
=============================================================================
