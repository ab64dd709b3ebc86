------------------------- MODULE RankingReadsProofs -------------------------
(***************************************************************************)
(* Theorems about RankingReads, each from an invariant of its own that     *)
(* adds to Typed, Times, Tabled and Stages what it is about:               *)
(*   TimeIdsAreInOrder        Times: a tick writes behind all there is     *)
(*   GrowthsAreOfOneMoment    GrowthInv: first rows stay the first ones    *)
(*   PagesLoseNoMore          PagesInv: what has been read is all before   *)
(*                            the cursor, and all that was there           *)
(*   TracesHoldTheCurrentRow  SubjectInv: the row is still in the table    *)
(*   LaterReadsAreOfTheRow    MetricsInv: a trace is that of its row       *)
(*   ReadsTyped               all of these, and Bounds and CallInv         *)
(*   ReplaysAreSettled        ReplayInv: what was read would be read again *)
(* The queries are taken one by one: what they select and in which order   *)
(* (OrderedByRank and its like, PageIs, RankEdgeIs, TraceIs, WindowIs).    *)
(***************************************************************************)
EXTENDS RankingReads, FiniteSetTheorems, SequenceTheorems, WellFoundedInduction, TLAPS

-----------------------------------------------------------------------------
(* The tables and the clock.  *)

StampRec == [ts : Nat, status : {0, 1}]
Row == [tid : Nat, key : Nat, rank : Nat, score : Int]
ChapterRow == [tid : Nat, key : Nat, rank : Nat, score : Int, chapter : Chapters]
Tables == [stamps : Seq(StampRec), rows : SUBSET Row, wl : SUBSET ChapterRow,
           users : SUBSET Nat]
Ticks == [phase : {"idle", "fetch", "main", "chapters"}, begun : Nat, time : Nat,
          data : 1..Len(Payloads), landed : BOOLEAN]

Typed ==
  /\ now \in Nat /\ db \in Tables /\ tick \in Ticks
  /\ game \in 1..Len(Payloads) /\ tick.data <= game

\* Before its first insert a tick is later than all that is stored.
Clocks ==
  /\ tick.begun <= now /\ tick.time <= now
  /\ tick.phase \in {"main", "chapters"} => tick.begun <= tick.time
  /\ tick.phase \in {"fetch", "main"} => ~tick.landed

Fresh ==
  \A i \in DOMAIN db.stamps :
    /\ db.stamps[i].ts <= now
    /\ tick.phase # "idle" /\ ~tick.landed => db.stamps[i].ts <= tick.begun
    /\ tick.phase \in {"main", "chapters"} /\ ~tick.landed => db.stamps[i].ts < tick.time

LandedLast ==
  tick.phase = "chapters" /\ tick.landed =>
    /\ db.stamps # <<>>
    /\ db.stamps[Len(db.stamps)].ts = tick.time

Times == Clocks /\ Fresh /\ LandedLast /\ MonotoneTimes

\* A time id for a time after all others, or for one of them.
LEMMA WithStampIs ==
  ASSUME NEW s \in Seq(StampRec), NEW ts \in Nat, NEW status \in {0, 1}
  PROVE  \/ /\ \E i \in DOMAIN s : s[i].ts = ts
            /\ WithStamp(s, ts, status) = s
         \/ /\ \A i \in DOMAIN s : s[i].ts # ts
            /\ WithStamp(s, ts, status) \in Seq(StampRec)
            /\ Len(WithStamp(s, ts, status)) = Len(s) + 1
            /\ \A i \in 1..Len(s) : WithStamp(s, ts, status)[i] = s[i]
            /\ WithStamp(s, ts, status)[Len(s) + 1] = [ts |-> ts, status |-> status]
<1>1. [ts |-> ts, status |-> status] \in StampRec
  BY DEF StampRec
<1>2. CASE \E i \in DOMAIN s : s[i].ts = ts
  BY <1>2 DEF WithStamp
<1>3. CASE ~ \E i \in DOMAIN s : s[i].ts = ts
  <2>1. WithStamp(s, ts, status) = Append(s, [ts |-> ts, status |-> status])
    BY <1>3 DEF WithStamp
  <2> QED
    BY <1>1, <1>3, <2>1, AppendProperties
<1> QED
  BY <1>2, <1>3

\* The only rows a step adds are rows of one time id.
LEMMA ChangedRowsTyped ==
  ASSUME Typed, tick.phase \in {"main", "chapters"}
  PROVE  /\ \A k \in ChangedRanks(Payloads[tick.data].main) :
              /\ k \in Nat /\ Payloads[tick.data].main[k].key \in Nat
              /\ Payloads[tick.data].main[k].score \in Int
         /\ \A r \in ChangedPlayers(Payloads[tick.data].wl) :
              /\ r.chapter \in Chapters /\ r.key \in Nat /\ r.rank \in Nat /\ r.score \in Int
<1>1. /\ IsBoard(Payloads[tick.data].main)
      /\ \A c \in Chapters : IsBoard(Payloads[tick.data].wl[c])
  BY PayloadsAssumption DEF Typed, Ticks
<1>2. \A k \in ChangedRanks(Payloads[tick.data].main) :
              /\ k \in Nat /\ Payloads[tick.data].main[k].key \in Nat
              /\ Payloads[tick.data].main[k].score \in Int
  BY <1>1 DEF ChangedRanks, IsBoard
<1>3. ASSUME NEW r \in ChangedPlayers(Payloads[tick.data].wl)
      PROVE  r.chapter \in Chapters /\ r.key \in Nat /\ r.rank \in Nat /\ r.score \in Int
  <2>1. PICK c \in Chapters : \E k \in DOMAIN Payloads[tick.data].wl[c] :
           r = [chapter |-> c, key |-> Payloads[tick.data].wl[c][k].key,
                score |-> Payloads[tick.data].wl[c][k].score, rank |-> k]
    BY <1>3 DEF ChangedPlayers
  <2>2. PICK k \in DOMAIN Payloads[tick.data].wl[c] :
           r = [chapter |-> c, key |-> Payloads[tick.data].wl[c][k].key,
                score |-> Payloads[tick.data].wl[c][k].score, rank |-> k]
    BY <2>1
  <2> QED
    BY <1>1, <2>2 DEF IsBoard
<1> QED
  BY <1>2, <1>3

\* The stamps a step of the tracker leaves: those there were, and perhaps one
\* more at the end, of the time it writes at.
Extends(s, t, ts) ==
  /\ Len(s) <= Len(t)
  /\ \A i \in DOMAIN s : i \in DOMAIN t /\ t[i] = s[i]
  /\ \A i \in DOMAIN t : i \in DOMAIN s \/ (i = Len(s) + 1 /\ t[i].ts = ts)

LEMMA WithStampExtends ==
  ASSUME NEW s \in Seq(StampRec), NEW ts \in Nat, NEW status \in {0, 1}
  PROVE  /\ WithStamp(s, ts, status) \in Seq(StampRec)
         /\ Extends(s, WithStamp(s, ts, status), ts)
         /\ TimeId(WithStamp(s, ts, status), ts) \in DOMAIN WithStamp(s, ts, status)
         /\ WithStamp(s, ts, status)[TimeId(WithStamp(s, ts, status), ts)].ts = ts
         /\ TimeId(WithStamp(s, ts, status), ts) \in Nat
<1> DEFINE w == WithStamp(s, ts, status)
<1>1. /\ Len(s) \in Nat /\ DOMAIN s = 1..Len(s)
  BY LenProperties
<1>2. /\ w \in Seq(StampRec) /\ Extends(s, w, ts)
      /\ \E i \in DOMAIN w : w[i].ts = ts
  <2>1. CASE /\ \E i \in DOMAIN s : s[i].ts = ts
             /\ w = s
    BY <1>1, <2>1 DEF Extends
  <2>2. CASE /\ w \in Seq(StampRec)
             /\ Len(w) = Len(s) + 1
             /\ \A i \in 1..Len(s) : w[i] = s[i]
             /\ w[Len(s) + 1] = [ts |-> ts, status |-> status]
    <3>1. DOMAIN w = 1..(Len(s) + 1)
      BY <2>2, LenProperties
    <3> HIDE DEF w
    <3>2. \A i \in DOMAIN w : i \in 1..Len(s) \/ i = Len(s) + 1
      BY <1>1, <3>1
    <3>3. \A i \in DOMAIN s : i \in DOMAIN w /\ w[i] = s[i]
      BY <1>1, <2>2, <3>1
    <3>4. Len(s) + 1 \in DOMAIN w /\ w[Len(s) + 1].ts = ts
      BY <1>1, <2>2, <3>1
    <3>5. Extends(s, w, ts)
      BY <1>1, <2>2, <3>2, <3>3, <3>4 DEF Extends
    <3> QED
      BY <2>2, <3>4, <3>5
  <2>3. \/ /\ \E i \in DOMAIN s : s[i].ts = ts
           /\ w = s
        \/ /\ w \in Seq(StampRec)
           /\ Len(w) = Len(s) + 1
           /\ \A i \in 1..Len(s) : w[i] = s[i]
           /\ w[Len(s) + 1] = [ts |-> ts, status |-> status]
    BY WithStampIs, Zenon
  <2> HIDE DEF w
  <2> QED
    BY <2>1, <2>2, <2>3
<1>3. TimeId(w, ts) \in DOMAIN w /\ w[TimeId(w, ts)].ts = ts
  BY <1>2 DEF TimeId
<1>4. DOMAIN w \subseteq Nat
  BY <1>2, LenProperties
<1> QED
  BY <1>2, <1>3, <1>4

LEMMA InitTimes == Init => Typed /\ Times
<1> SUFFICES ASSUME Init
             PROVE  Typed /\ Times
  OBVIOUS
<1>1. db.stamps = <<>> /\ <<>> \in Seq(StampRec) /\ DOMAIN <<>> = {}
  BY EmptySeq DEF Init
<1>2. Len(Payloads) \in Nat \ {0}
  BY PayloadsAssumption
<1>3. Typed
  BY <1>1, <1>2 DEF Init, Typed, Tables, Ticks, IdleTick
<1>4. Times
  BY <1>1 DEF Init, Times, Clocks, Fresh, LandedLast, MonotoneTimes, IdleTick
<1> QED
  BY <1>3, <1>4

\* The rows of a landed insert.
LEMMA NewMainRows ==
  ASSUME Typed, tick.phase = "main", NEW t \in Nat
  PROVE  /\ {[tid |-> t, key |-> Payloads[tick.data].main[k].key, rank |-> k,
               score |-> Payloads[tick.data].main[k].score] :
                k \in ChangedRanks(Payloads[tick.data].main)} \subseteq Row
BY ChangedRowsTyped DEF Row

LEMMA NewChapterRows ==
  ASSUME Typed, tick.phase = "chapters", NEW t \in Nat
  PROVE  /\ {[tid |-> t, key |-> r.key, rank |-> r.rank,
               score |-> r.score, chapter |-> r.chapter] :
                r \in ChangedPlayers(Payloads[tick.data].wl)} \subseteq ChapterRow
BY ChangedRowsTyped DEF ChapterRow

\* A step of the tracker, and what it does to the tables.
LEMMA LandMainIs ==
  ASSUME Typed, LandMain
  PROVE  \/ db' = db /\ ChangedRanks(Payloads[tick.data].main) = {}
            /\ tick' = [tick EXCEPT !.phase = "chapters"]
         \/ \E t \in Nat : 
              /\ db' \in Tables
              /\ db'.stamps = WithStamp(db.stamps, tick.time, 0)
              /\ t = TimeId(db'.stamps, tick.time)
              /\ db'.rows = db.rows \cup
                   {[tid |-> t, key |-> Payloads[tick.data].main[k].key, rank |-> k,
                     score |-> Payloads[tick.data].main[k].score] :
                       k \in ChangedRanks(Payloads[tick.data].main)}
              /\ db'.wl = db.wl
              /\ db'.users = db.users \cup
                   {Payloads[tick.data].main[k].key : k \in ChangedRanks(Payloads[tick.data].main)}
              /\ tick' = [tick EXCEPT !.phase = "chapters", !.landed = TRUE]
<1> DEFINE board == Payloads[tick.data].main
           changed == ChangedRanks(board)
           stamps == WithStamp(db.stamps, tick.time, 0)
           new == {[tid |-> TimeId(stamps, tick.time), key |-> board[k].key, rank |-> k,
                    score |-> board[k].score] : k \in changed}
<1>1. CASE changed = {}
  BY <1>1 DEF LandMain
<1>2. CASE changed # {}
  <2>1. /\ db' = [db EXCEPT !.stamps = stamps, !.rows = @ \cup new,
                            !.users = @ \cup {r.key : r \in new}]
        /\ tick' = [tick EXCEPT !.phase = "chapters", !.landed = TRUE]
        /\ tick.phase = "main"
    BY <1>2, Zenon DEF LandMain
  <2>2. {r.key : r \in new} = {board[k].key : k \in changed}
    <3>1. \A r \in new : r.key \in {board[k].key : k \in changed}
      OBVIOUS
    <3>2. ASSUME NEW k \in changed
          PROVE  board[k].key \in {r.key : r \in new}
      <4> DEFINE r == [tid |-> TimeId(stamps, tick.time), key |-> board[k].key, rank |-> k,
                       score |-> board[k].score]
      <4>1. r \in new /\ r.key = board[k].key
        OBVIOUS
      <4> HIDE DEF r, new
      <4> QED
        BY <4>1
    <3> HIDE DEF new
    <3> QED
      BY <3>1, <3>2
  <2>3. stamps \in Seq(StampRec) /\ TimeId(stamps, tick.time) \in Nat
    BY WithStampExtends DEF Typed, Tables, Ticks
  <2>4. new \subseteq Row
    BY <2>1, <2>3, NewMainRows
  <2>5. {r.key : r \in new} \subseteq Nat
    BY <2>4 DEF Row
  <2> HIDE DEF board, changed, stamps, new
  <2>6. /\ db' \in Tables /\ db'.stamps = stamps /\ db'.rows = db.rows \cup new
        /\ db'.wl = db.wl /\ db'.users = db.users \cup {r.key : r \in new}
    BY <2>1, <2>3, <2>4, <2>5 DEF Typed, Tables
  <2> QED
    BY <2>1, <2>2, <2>3, <2>6 DEF new, board, changed, stamps
<1> QED
  BY <1>1, <1>2

LEMMA LandChaptersIs ==
  ASSUME Typed, LandChapters
  PROVE  /\ tick' = IdleTick
         /\ \/ db' = db /\ tick.landed
            \/ db' \in Tables /\ ~tick.landed /\ db' = Heartbeat(tick.begun, 0)
               /\ db'.stamps = WithStamp(db.stamps, tick.begun, 0)
               /\ db'.rows = db.rows /\ db'.wl = db.wl /\ db'.users = db.users
            \/ \E t \in Nat : 
                 /\ db' \in Tables
                 /\ db'.stamps = WithStamp(db.stamps, tick.time, 0)
                 /\ t = TimeId(db'.stamps, tick.time)
                 /\ db'.rows = db.rows
                 /\ db'.wl = db.wl \cup
                      {[tid |-> t, key |-> r.key, rank |-> r.rank, score |-> r.score,
                        chapter |-> r.chapter] : r \in ChangedPlayers(Payloads[tick.data].wl)}
                 /\ db'.users = db.users \cup
                      {r.key : r \in ChangedPlayers(Payloads[tick.data].wl)}
<1> DEFINE changed == ChangedPlayers(Payloads[tick.data].wl)
           stamps == WithStamp(db.stamps, tick.time, 0)
           new == {[tid |-> TimeId(stamps, tick.time), key |-> r.key, rank |-> r.rank,
                    score |-> r.score, chapter |-> r.chapter] : r \in changed}
<1>1. tick' = IdleTick /\ tick.phase = "chapters"
  BY DEF LandChapters
<1>2. CASE changed # {}
  <2>1. db' = [db EXCEPT !.stamps = stamps, !.wl = @ \cup new,
                         !.users = @ \cup {r.key : r \in new}]
    BY <1>2, Zenon DEF LandChapters
  <2>2. {r.key : r \in new} = {r.key : r \in changed}
    <3>1. \A r \in new : r.key \in {q.key : q \in changed}
      OBVIOUS
    <3>2. ASSUME NEW q \in changed
          PROVE  q.key \in {r.key : r \in new}
      <4> DEFINE r == [tid |-> TimeId(stamps, tick.time), key |-> q.key, rank |-> q.rank,
                       score |-> q.score, chapter |-> q.chapter]
      <4>1. r \in new /\ r.key = q.key
        OBVIOUS
      <4> HIDE DEF r, new
      <4> QED
        BY <4>1
    <3> HIDE DEF new
    <3> QED
      BY <3>1, <3>2
  <2>3. stamps \in Seq(StampRec) /\ TimeId(stamps, tick.time) \in Nat
    BY WithStampExtends DEF Typed, Tables, Ticks
  <2>4. new \subseteq ChapterRow
    BY <1>1, <2>3, NewChapterRows
  <2>5. {r.key : r \in new} \subseteq Nat
    BY <2>4 DEF ChapterRow
  <2> HIDE DEF changed, stamps, new
  <2>6. /\ db' \in Tables /\ db'.stamps = stamps /\ db'.wl = db.wl \cup new
        /\ db'.rows = db.rows /\ db'.users = db.users \cup {r.key : r \in new}
    BY <2>1, <2>3, <2>4, <2>5 DEF Typed, Tables
  <2> QED
    BY <1>1, <2>2, <2>3, <2>6 DEF new, changed, stamps
<1>3. CASE changed = {}
  <2>1. db' = IF tick.landed THEN db ELSE Heartbeat(tick.begun, 0)
    BY <1>3, Zenon DEF LandChapters
  <2>2. WithStamp(db.stamps, tick.begun, 0) \in Seq(StampRec)
    BY WithStampExtends DEF Typed, Tables, Ticks
  <2> QED
    BY <1>1, <2>1, <2>2 DEF Typed, Tables, Ticks, Heartbeat
<1> QED
  BY <1>2, <1>3

LEMMA FailuresAre ==
  ASSUME Typed, FetchFails \/ LandFails
  PROVE  /\ tick' = IdleTick /\ db' \in Tables
         /\ db'.rows = db.rows /\ db'.wl = db.wl /\ db.users \subseteq db'.users
         /\ \/ db'.stamps = db.stamps
            \/ tick.phase = "fetch" /\ db'.stamps = WithStamp(db.stamps, tick.begun, 1)
<1>1. CASE FetchFails
  <2>1. WithStamp(db.stamps, tick.begun, 1) \in Seq(StampRec)
    BY WithStampExtends DEF Typed, Tables, Ticks
  <2> QED
    BY <1>1, <2>1 DEF FetchFails, Heartbeat, Typed, Tables
<1>2. CASE LandFails
  <2>1. tick' = IdleTick /\ tick.phase \in {"main", "chapters"}
    BY <1>2 DEF LandFails
  <2>2. PICK U : U \subseteq Nat /\ db' \in {db, [db EXCEPT !.users = @ \cup U]}
    <3> DEFINE M == {Payloads[tick.data].main[k].key :
                       k \in ChangedRanks(Payloads[tick.data].main)}
               W == {r.key : r \in ChangedPlayers(Payloads[tick.data].wl)}
    <3>1. M \subseteq Nat /\ W \subseteq Nat
      BY <2>1, ChangedRowsTyped
    <3>2. db' \in {db, [db EXCEPT !.users = @ \cup
                          (IF tick.phase = "main" THEN M ELSE W)]}
      BY <1>2, Zenon DEF LandFails
    <3> HIDE DEF M, W
    <3> QED
      BY <3>1, <3>2
  <2> QED
    BY <2>1, <2>2 DEF Typed, Tables
<1> QED
  BY <1>1, <1>2

\* The other steps leave the tables alone.
LEMMA OtherSteps ==
  ASSUME [Next]_vars
  PROVE  LandMain \/ LandChapters \/ FetchFails \/ LandFails \/ UNCHANGED db
BY DEF Next, Tracker, Begin, Fetched, Elapse, Reader, Open, RankingPage, UserPage, TracePage,
       AskOverview, Top, OverviewSpan, Players, Lines, Status, Edge, AskSnapshot, Resolve,
       Items, AskSubject, ResolveSubject, SubjectTrace, Enrich, ReplyOverview, ReplySnapshot,
       Finds, vars, trackerVars

LEMMA ReaderStep ==
  ASSUME Reader
  PROVE  UNCHANGED <<now, db, tick, prev, game, ask>>
BY DEF Reader, Open, RankingPage, UserPage, TracePage, AskOverview, Top, OverviewSpan,
       Players, Lines, Status, Edge, AskSnapshot, Resolve, Items, AskSubject, ResolveSubject,
       SubjectTrace, Enrich, ReplyOverview, ReplySnapshot, Finds, trackerVars

\* A write later than all stamps, or at the last one, keeps their order.
LEMMA OrderKept ==
  ASSUME NEW s \in Seq(StampRec), NEW ts \in Nat, NEW status \in {0, 1},
         \A i, j \in DOMAIN s : i < j => s[i].ts < s[j].ts,
         \/ \A i \in DOMAIN s : s[i].ts <= ts
         \/ s # <<>> /\ s[Len(s)].ts = ts
  PROVE  LET w == WithStamp(s, ts, status)
         IN /\ \A i, j \in DOMAIN w : i < j => w[i].ts < w[j].ts
            /\ w # <<>> /\ w[Len(w)].ts = ts
<1> DEFINE w == WithStamp(s, ts, status)
<1>1. /\ Len(s) \in Nat /\ DOMAIN s = 1..Len(s) /\ (s # <<>> => Len(s) \in 1..Len(s))
      /\ \A i \in 1..Len(s) : s[i].ts \in Nat
  <2>1. Len(s) \in Nat /\ DOMAIN s = 1..Len(s)
    BY LenProperties
  <2>2. s # <<>> => Len(s) \in 1..Len(s)
    BY <2>1, EmptySeq
  <2>3. \A i \in 1..Len(s) : s[i] \in StampRec
    BY ElementOfSeq
  <2> QED
    BY <2>1, <2>2, <2>3 DEF StampRec
<1>2. CASE (\E i \in DOMAIN s : s[i].ts = ts) /\ w = s
  <2>1. PICK i \in DOMAIN s : s[i].ts = ts
    BY <1>2
  <2>2. s # <<>> /\ Len(s) \in DOMAIN s /\ s[Len(s)].ts \in Nat
    BY <1>1, <2>1
  <2>3. i <= Len(s) /\ i \in Nat /\ (i < Len(s) => s[i].ts < s[Len(s)].ts)
    BY <1>1, <2>2
  <2>4. s[Len(s)].ts <= ts
    BY <2>2
  <2>5. s[Len(s)].ts = ts
    BY <1>1, <2>1, <2>2, <2>3, <2>4
  <2> QED
    BY <1>2, <2>2, <2>5
<1>3. CASE /\ \A i \in DOMAIN s : s[i].ts # ts
           /\ w \in Seq(StampRec)
           /\ Len(w) = Len(s) + 1
           /\ \A i \in 1..Len(s) : w[i] = s[i]
           /\ w[Len(s) + 1] = [ts |-> ts, status |-> status]
  <2>1. DOMAIN w = 1..(Len(s) + 1) /\ w # <<>> /\ w[Len(w)].ts = ts
    BY <1>1, <1>3, LenProperties, EmptySeq
  <2>2. \A i \in DOMAIN s : s[i].ts < ts
    BY <1>1, <1>3
  <2>3. ASSUME NEW i \in DOMAIN w, NEW j \in DOMAIN w, i < j
        PROVE  w[i].ts < w[j].ts
    <3>1. i \in DOMAIN s /\ (j \in DOMAIN s \/ j = Len(s) + 1)
      BY <1>1, <2>1, <2>3
    <3>2. CASE j \in DOMAIN s
      BY <1>1, <1>3, <2>3, <3>1, <3>2
    <3>3. CASE j = Len(s) + 1
      BY <1>1, <1>3, <2>2, <3>1, <3>3
    <3> QED
      BY <3>1, <3>2, <3>3
  <2> QED
    BY <2>1, <2>3
<1>4. \/ (\E i \in DOMAIN s : s[i].ts = ts) /\ w = s
      \/ /\ \A i \in DOMAIN s : s[i].ts # ts
         /\ w \in Seq(StampRec)
         /\ Len(w) = Len(s) + 1
         /\ \A i \in 1..Len(s) : w[i] = s[i]
         /\ w[Len(s) + 1] = [ts |-> ts, status |-> status]
  BY WithStampIs
<1> QED
  BY <1>2, <1>3, <1>4

LEMMA TypedStep ==
  ASSUME Typed, [Next]_vars
  PROVE  Typed'
<1> USE DEF Typed, Ticks, IdleTick
<1>0. /\ Len(Payloads) \in Nat /\ Len(Payloads) >= 1
      /\ IdleTick \in Ticks /\ IdleTick.data = 1
  BY PayloadsAssumption
<1>1. CASE LandMain
  <2>1. UNCHANGED <<now, game>> /\ db' \in Tables
    BY <1>1, LandMainIs, Zenon DEF LandMain
  <2>2. \/ tick' = [tick EXCEPT !.phase = "chapters"]
        \/ tick' = [tick EXCEPT !.phase = "chapters", !.landed = TRUE]
    BY <1>1, LandMainIs
  <2> QED
    BY <2>1, <2>2
<1>2. CASE LandChapters
  <2>1. UNCHANGED <<now, game>>
    BY <1>2 DEF LandChapters
  <2>2. db' \in Tables /\ tick' = IdleTick
    BY <1>2, LandChaptersIs, Zenon
  <2> QED
    BY <1>0, <2>1, <2>2
<1>3. CASE FetchFails \/ LandFails
  <2>1. UNCHANGED <<now, game>>
    BY <1>3 DEF FetchFails, LandFails
  <2>2. db' \in Tables /\ tick' = IdleTick
    BY <1>3, FailuresAre
  <2> QED
    BY <1>0, <2>1, <2>2
<1>4. CASE Begin
  <2>1. /\ tick' = [IdleTick EXCEPT !.phase = "fetch", !.begun = now]
        /\ UNCHANGED <<now, db, game>>
    BY <1>4 DEF Begin
  <2>2. tick' \in Ticks /\ tick'.data = 1
    BY <1>0, <2>1
  <2> QED
    BY <1>0, <2>1, <2>2
<1>5. CASE Fetched
  <2>1. /\ UNCHANGED <<now, db>> /\ game' \in game..Len(Payloads)
        /\ tick' = [tick EXCEPT !.phase = "main", !.time = now, !.data = game']
    BY <1>5 DEF Fetched
  <2>2. game' \in 1..Len(Payloads)
    BY <1>0, <2>1
  <2>3. tick' \in Ticks /\ tick'.data = game'
    BY <2>1, <2>2
  <2> QED
    BY <2>1, <2>2, <2>3
<1>6. CASE Elapse
  BY <1>6 DEF Elapse, trackerVars
<1>7. CASE Reader \/ UNCHANGED vars
  <2>1. UNCHANGED <<now, db, tick, game>>
    BY <1>7, ReaderStep DEF vars
  <2> QED
    BY <2>1
<1> QED
  BY <1>1, <1>2, <1>3, <1>4, <1>5, <1>6, <1>7 DEF Next, Tracker

\* The stamps of a tick that has landed or gives up stay below the clock.
LEMMA FreshKept ==
  ASSUME Typed, Times, NEW ts \in Nat, NEW status \in {0, 1}, ts <= now,
         db' \in Tables, db'.stamps = WithStamp(db.stamps, ts, status)
  PROVE  \A i \in DOMAIN db'.stamps : db'.stamps[i].ts <= now
<1>1. db.stamps \in Seq(StampRec)
  BY DEF Typed, Tables
<1>2. Extends(db.stamps, WithStamp(db.stamps, ts, status), ts)
  BY <1>1, WithStampExtends, Zenon
<1>3. /\ \A i \in DOMAIN WithStamp(db.stamps, ts, status) :
           i \in DOMAIN db.stamps \/ WithStamp(db.stamps, ts, status)[i].ts = ts
      /\ \A i \in DOMAIN db.stamps : WithStamp(db.stamps, ts, status)[i] = db.stamps[i]
  BY <1>2, Zenon DEF Extends
<1>4. \A i \in DOMAIN db.stamps : db.stamps[i].ts <= now
  BY DEF Times, Fresh
<1> QED
  BY <1>3, <1>4

LEMMA TimesStep ==
  ASSUME Typed, Times, [Next]_vars
  PROVE  Times'
<1>0. /\ db.stamps \in Seq(StampRec) /\ now \in Nat /\ tick.begun \in Nat /\ tick.time \in Nat
      /\ \A i \in DOMAIN db.stamps : db.stamps[i].ts \in Nat
  <2>1. db.stamps \in Seq(StampRec) /\ now \in Nat /\ tick.begun \in Nat /\ tick.time \in Nat
    BY DEF Typed, Tables, Ticks
  <2>2. \A i \in DOMAIN db.stamps : db.stamps[i] \in StampRec
    BY <2>1, ElementOfSeq, LenProperties
  <2> QED
    BY <2>1, <2>2 DEF StampRec
<1>1. CASE LandMain
  <2>1. UNCHANGED now /\ tick.phase = "main"
    BY <1>1 DEF LandMain
  <2>2. CASE db' = db /\ tick' = [tick EXCEPT !.phase = "chapters"]
    BY <2>1, <2>2 DEF Typed, Ticks, Times, Clocks, Fresh, LandedLast, MonotoneTimes
  <2>3. CASE /\ db' \in Tables
             /\ db'.stamps = WithStamp(db.stamps, tick.time, 0)
             /\ tick' = [tick EXCEPT !.phase = "chapters", !.landed = TRUE]
    <3>1. /\ tick'.phase = "chapters" /\ tick'.landed /\ tick'.begun = tick.begun
          /\ tick'.time = tick.time
      BY <2>3 DEF Typed, Ticks
    <3>2. \A i \in DOMAIN db.stamps : db.stamps[i].ts <= tick.time
      BY <1>0, <2>1 DEF Times, Clocks, Fresh
    <3>3. MonotoneTimes' /\ db'.stamps # <<>> /\ db'.stamps[Len(db'.stamps)].ts = tick.time
      <4>1. \A i, j \in DOMAIN db.stamps : i < j => db.stamps[i].ts < db.stamps[j].ts
        BY DEF Times, MonotoneTimes
      <4>2. LET w == WithStamp(db.stamps, tick.time, 0)
            IN /\ \A i, j \in DOMAIN w : i < j => w[i].ts < w[j].ts
               /\ w # <<>> /\ w[Len(w)].ts = tick.time
        BY <1>0, <3>2, <4>1, OrderKept
      <4> QED
        BY <2>3, <4>2 DEF MonotoneTimes
    <3>4. \A i \in DOMAIN db'.stamps : db'.stamps[i].ts <= now
      BY <1>0, <2>3, FreshKept DEF Times, Clocks
    <3> QED
      BY <2>1, <3>1, <3>3, <3>4 DEF Times, Clocks, Fresh, LandedLast
  <2> QED
    BY <1>1, <2>2, <2>3, LandMainIs, Zenon
<1>2. CASE LandChapters
  <2>1. UNCHANGED now /\ tick.phase = "chapters" /\ tick' = IdleTick
    BY <1>2 DEF LandChapters
  <2>2. ASSUME NEW ts \in Nat, ts <= now, db' \in Tables,
               db'.stamps = WithStamp(db.stamps, ts, 0),
               \/ \A i \in DOMAIN db.stamps : db.stamps[i].ts <= ts
               \/ db.stamps # <<>> /\ db.stamps[Len(db.stamps)].ts = ts
        PROVE  Times'
    <3>1. MonotoneTimes'
      BY <1>0, <2>2, OrderKept, Zenon DEF Times, MonotoneTimes
    <3>2. \A i \in DOMAIN db'.stamps : db'.stamps[i].ts <= now
      BY <2>2, FreshKept
    <3> QED
      BY <1>0, <2>1, <3>1, <3>2 DEF Times, Clocks, Fresh, LandedLast, IdleTick
  <2>3. CASE db' = db
    BY <1>0, <2>1, <2>3 DEF Times, Clocks, Fresh, LandedLast, MonotoneTimes, IdleTick
  <2>4. CASE db' \in Tables /\ ~tick.landed /\ db'.stamps = WithStamp(db.stamps, tick.begun, 0)
    <3>1. tick.begun <= now /\ \A i \in DOMAIN db.stamps : db.stamps[i].ts <= tick.begun
      BY <2>1, <2>4 DEF Times, Clocks, Fresh
    <3> QED
      BY <1>0, <2>2, <2>4, <3>1
  <2>5. CASE db' \in Tables /\ db'.stamps = WithStamp(db.stamps, tick.time, 0)
    <3>1. tick.time <= now
      BY DEF Times, Clocks
    <3>2. CASE tick.landed
      BY <1>0, <2>1, <2>2, <2>5, <3>1, <3>2 DEF Times, LandedLast
    <3>3. CASE ~tick.landed
      <4>1. \A i \in DOMAIN db.stamps : db.stamps[i].ts <= tick.time
        BY <1>0, <2>1, <3>3 DEF Times, Fresh
      <4> QED
        BY <1>0, <2>2, <2>5, <3>1, <4>1
    <3> QED
      BY <3>2, <3>3
  <2> QED
    BY <1>2, <2>3, <2>4, <2>5, LandChaptersIs, Zenon
<1>3. CASE FetchFails \/ LandFails
  <2>1. UNCHANGED now /\ tick' = IdleTick /\ db' \in Tables
    BY <1>3, FailuresAre DEF FetchFails, LandFails
  <2>2. CASE db'.stamps = db.stamps
    BY <1>0, <2>1, <2>2 DEF Times, Clocks, Fresh, LandedLast, MonotoneTimes, IdleTick
  <2>3. CASE tick.phase = "fetch" /\ db'.stamps = WithStamp(db.stamps, tick.begun, 1)
    <3>1. tick.begun <= now /\ \A i \in DOMAIN db.stamps : db.stamps[i].ts <= tick.begun
      BY <2>3 DEF Times, Clocks, Fresh
    <3>2. MonotoneTimes'
      BY <1>0, <2>3, <3>1, OrderKept, Zenon DEF Times, MonotoneTimes
    <3>3. \A i \in DOMAIN db'.stamps : db'.stamps[i].ts <= now
      BY <1>0, <2>1, <2>3, <3>1, FreshKept
    <3> QED
      BY <1>0, <2>1, <3>2, <3>3 DEF Times, Clocks, Fresh, LandedLast, IdleTick
  <2> QED
    BY <1>3, <2>2, <2>3, FailuresAre
<1>4. CASE Begin
  BY <1>0, <1>4 DEF Begin, Times, Clocks, Fresh, LandedLast, MonotoneTimes, IdleTick
<1>5. CASE Fetched
  <2>1. /\ UNCHANGED <<now, db>> /\ tick.phase = "fetch"
        /\ \A i \in DOMAIN db.stamps : db.stamps[i].ts # now
        /\ tick' = [tick EXCEPT !.phase = "main", !.time = now, !.data = game']
    BY <1>5 DEF Fetched
  <2>2. /\ tick'.phase = "main" /\ tick'.time = now /\ tick'.begun = tick.begun
        /\ tick'.landed = tick.landed
    BY <2>1 DEF Typed, Ticks
  <2> QED
    BY <1>0, <2>1, <2>2 DEF Times, Clocks, Fresh, LandedLast, MonotoneTimes
<1>6. CASE Elapse
  BY <1>0, <1>6 DEF Elapse, trackerVars, Times, Clocks, Fresh, LandedLast, MonotoneTimes
<1>7. CASE Reader \/ UNCHANGED vars
  <2>1. UNCHANGED <<now, db, tick>>
    BY <1>7, ReaderStep DEF vars
  <2> QED
    BY <2>1 DEF Times, Clocks, Fresh, LandedLast, MonotoneTimes
<1> QED
  BY <1>1, <1>2, <1>3, <1>4, <1>5, <1>6, <1>7 DEF Next, Tracker

\* Time ids are in the order of time.  The queries take the order of time_id, which an
\* index gives them, for the order of timestamps (db/query/web.rs).
THEOREM TimeIdsAreInOrder == Spec => []MonotoneTimes
<1>1. Typed /\ Times /\ [Next]_vars => (Typed /\ Times)'
  BY TypedStep, TimesStep
<1>2. Typed /\ Times => MonotoneTimes
  BY DEF Times
<1> QED
  BY InitTimes, <1>1, <1>2, PTL DEF Spec

-----------------------------------------------------------------------------
(* The rows: keys of the tables, and that the tables only grow.  *)

Keyed(rows) ==
  \A q, r \in rows : q.tid = r.tid /\ (q.rank = r.rank \/ q.key = r.key) => q = r

\* The rows of a tick are of one time id, and it has no others in their table.
Tabled ==
  /\ \A r \in db.rows \cup db.wl : r.tid \in DOMAIN db.stamps /\ r.key \in db.users
  /\ Keyed(db.rows) /\ \A c \in Chapters : Keyed(ChapterRows(db, c))
  /\ tick.phase = "chapters" => \A r \in db.wl : Stamp(db, r) < tick.time

Newer(old, new) == \A q \in old, r \in new \ old : q.tid < r.tid

\* e is d and what was written behind it, not before ts.
Grows(d, e, ts) ==
  /\ Len(d.stamps) <= Len(e.stamps)
  /\ \A i \in DOMAIN d.stamps : i \in DOMAIN e.stamps /\ e.stamps[i] = d.stamps[i]
  /\ \A i \in DOMAIN e.stamps : i \in DOMAIN d.stamps \/ e.stamps[i].ts >= ts
  /\ d.rows \subseteq e.rows /\ d.wl \subseteq e.wl /\ d.users \subseteq e.users
  /\ Newer(d.rows, e.rows) /\ Newer(d.wl, e.wl)
  /\ \A r \in (e.rows \cup e.wl) \ (d.rows \cup d.wl) : e.stamps[r.tid].ts >= ts

LEMMA ChangedRowsKeyed ==
  ASSUME Typed, tick.phase \in {"main", "chapters"}
  PROVE  /\ \A k, l \in ChangedRanks(Payloads[tick.data].main) :
              Payloads[tick.data].main[k].key = Payloads[tick.data].main[l].key => k = l
         /\ \A q, r \in ChangedPlayers(Payloads[tick.data].wl) :
              q.chapter = r.chapter /\ (q.rank = r.rank \/ q.key = r.key)
                => q = r
<1>1. /\ IsBoard(Payloads[tick.data].main)
      /\ \A c \in Chapters : IsBoard(Payloads[tick.data].wl[c])
  BY PayloadsAssumption DEF Typed, Ticks
<1>2. \A k, l \in ChangedRanks(Payloads[tick.data].main) :
        Payloads[tick.data].main[k].key = Payloads[tick.data].main[l].key => k = l
  BY <1>1 DEF ChangedRanks, IsBoard
<1> DEFINE wl == Payloads[tick.data].wl
           Rec(c, k) == [chapter |-> c, key |-> wl[c][k].key, score |-> wl[c][k].score,
                         rank |-> k]
<1>3. \A r \in ChangedPlayers(wl) : \E c \in Chapters : \E k \in DOMAIN wl[c] : r = Rec(c, k)
  BY DEF ChangedPlayers
<1>4. \A c \in Chapters : \A k, l \in DOMAIN wl[c] : wl[c][k].key = wl[c][l].key => k = l
  BY <1>1 DEF IsBoard
<1> HIDE DEF wl
<1>5. ASSUME NEW q \in ChangedPlayers(wl), NEW r \in ChangedPlayers(wl),
             q.chapter = r.chapter, q.rank = r.rank \/ q.key = r.key
      PROVE  q = r
  <2>1. PICK c \in Chapters : \E k \in DOMAIN wl[c] : q = Rec(c, k)
    BY <1>3
  <2>2. PICK k \in DOMAIN wl[c] : q = Rec(c, k)
    BY <2>1
  <2>3. PICK d \in Chapters : \E l \in DOMAIN wl[d] : r = Rec(d, l)
    BY <1>3
  <2>4. PICK l \in DOMAIN wl[d] : r = Rec(d, l)
    BY <2>3
  <2>5. c = d /\ (k = l \/ wl[c][k].key = wl[d][l].key)
    BY <1>5, <2>2, <2>4
  <2>6. k = l
    BY <1>4, <2>5
  <2> QED
    BY <2>2, <2>4, <2>5, <2>6
<1> QED
  BY <1>2, <1>5 DEF wl

\* Rows of time id t are added to a table whose rows are all of earlier times.
LEMMA RowsAdded ==
  ASSUME NEW s \in Seq(StampRec), NEW w \in Seq(StampRec), NEW ts \in Nat,
         Extends(s, w, ts), \A i, j \in DOMAIN w : i < j => w[i].ts < w[j].ts,
         NEW t \in DOMAIN w, w[t].ts = ts,
         NEW old, NEW new, \A r \in old : r.tid \in DOMAIN s /\ s[r.tid].ts < ts,
         \A r \in new : r.tid = t,
         Keyed(old), Keyed(new)
  PROVE  Newer(old, old \cup new) /\ Keyed(old \cup new)
<1>1. DOMAIN s \subseteq DOMAIN w /\ DOMAIN w \subseteq Nat
      /\ \A i \in DOMAIN w : w[i].ts \in Nat
  <2>1. DOMAIN w = 1..Len(w) /\ Len(w) \in Nat
    BY LenProperties
  <2>2. \A i \in DOMAIN w : w[i] \in StampRec
    BY <2>1, ElementOfSeq
  <2> QED
    BY <2>1, <2>2 DEF StampRec, Extends
<1>2. ASSUME NEW q \in old
      PROVE  q.tid < t
  <2>1. q.tid \in DOMAIN w /\ w[q.tid].ts < ts
    BY DEF Extends
  <2>2. ~ (t < q.tid) /\ t # q.tid
    BY <1>1, <2>1
  <2> QED
    BY <1>1, <2>1, <2>2
<1>3. Newer(old, old \cup new)
  BY <1>2 DEF Newer
<1>4. \A q \in old, r \in new : q.tid # r.tid
  BY <1>1, <1>2
<1>5. Keyed(old \cup new)
  BY <1>4 DEF Keyed
<1> QED
  BY <1>3, <1>5

LEMMA InitTabled == Init => Tabled
BY DEF Init, Tabled, Keyed, ChapterRows, IdleTick

\* What a heartbeat or nothing but users adds.
LEMMA StampAdded ==
  ASSUME Typed, Tabled, NEW ts \in Nat, NEW status \in {0, 1}, NEW from \in Nat, from <= ts,
         db' \in Tables, db'.stamps \in {db.stamps, WithStamp(db.stamps, ts, status)},
         db'.rows = db.rows, db'.wl = db.wl, db.users \subseteq db'.users,
         tick'.phase # "chapters"
  PROVE  Grows(db, db', from) /\ Tabled'
<1>1. db.stamps \in Seq(StampRec) /\ Len(db.stamps) \in Nat
  BY LenProperties DEF Typed, Tables
<1>2. \/ db'.stamps = db.stamps
      \/ Extends(db.stamps, db'.stamps, ts)
  <2>1. Extends(db.stamps, WithStamp(db.stamps, ts, status), ts)
    BY <1>1, WithStampExtends, Zenon
  <2> QED
    BY <2>1
<1>3. /\ Len(db.stamps) <= Len(db'.stamps)
      /\ \A i \in DOMAIN db.stamps : i \in DOMAIN db'.stamps /\ db'.stamps[i] = db.stamps[i]
      /\ \A i \in DOMAIN db'.stamps : i \in DOMAIN db.stamps \/ db'.stamps[i].ts >= from
  BY <1>1, <1>2 DEF Extends
<1>4. Newer(db.rows, db'.rows) /\ Newer(db.wl, db'.wl)
  BY DEF Newer
<1>5. Grows(db, db', from)
  BY <1>3, <1>4 DEF Grows
<1>6. Tabled'
  BY <1>3 DEF Tabled, ChapterRows
<1> QED
  BY <1>5, <1>6

LEMMA TablesStep ==
  ASSUME Typed, Times, Tabled, [Next]_vars
  PROVE  /\ Tabled'
         /\ db' = db \/ (tick.phase # "idle" /\ Grows(db, db', tick.begun))
<1>0. /\ Typed' /\ Times' /\ db.stamps \in Seq(StampRec) /\ db' \in Tables
      /\ db'.stamps \in Seq(StampRec)
      /\ tick.begun \in Nat /\ tick.time \in Nat
  BY TypedStep, TimesStep DEF Typed, Tables, Ticks
<1>1. CASE LandMain
  <2>1. tick.phase = "main" /\ tick.begun <= tick.time /\ tick'.phase = "chapters"
        /\ tick'.time = tick.time /\ UNCHANGED now
    <3>1. tick.phase = "main" /\ UNCHANGED now
      BY <1>1 DEF LandMain
    <3>2. \/ tick' = [tick EXCEPT !.phase = "chapters"]
          \/ tick' = [tick EXCEPT !.phase = "chapters", !.landed = TRUE]
      BY <1>1, LandMainIs
    <3> QED
      BY <3>1, <3>2 DEF Typed, Ticks, Times, Clocks
  <2>2. \A i \in DOMAIN db.stamps : db.stamps[i].ts < tick.time
    BY <2>1 DEF Times, Clocks, Fresh
  <2>3. CASE db' = db
    BY <2>1, <2>2, <2>3 DEF Tabled, Stamp, ChapterRows
  <2>4. ASSUME NEW t \in Nat,
               db'.stamps = WithStamp(db.stamps, tick.time, 0),
               t = TimeId(db'.stamps, tick.time),
               db'.rows = db.rows \cup
                 {[tid |-> t, key |-> Payloads[tick.data].main[k].key, rank |-> k,
                   score |-> Payloads[tick.data].main[k].score] :
                     k \in ChangedRanks(Payloads[tick.data].main)},
               db'.wl = db.wl,
               db'.users = db.users \cup
                 {Payloads[tick.data].main[k].key : k \in ChangedRanks(Payloads[tick.data].main)}
        PROVE  Tabled' /\ Grows(db, db', tick.begun)
    <3> DEFINE changed == ChangedRanks(Payloads[tick.data].main)
               board == Payloads[tick.data].main
               new == {[tid |-> t, key |-> board[k].key, rank |-> k,
                        score |-> board[k].score] : k \in changed}
    <3>1. /\ Extends(db.stamps, db'.stamps, tick.time)
          /\ t \in DOMAIN db'.stamps /\ db'.stamps[t].ts = tick.time
      <4>1. /\ Extends(db.stamps, WithStamp(db.stamps, tick.time, 0), tick.time)
            /\ TimeId(WithStamp(db.stamps, tick.time, 0), tick.time)
                 \in DOMAIN WithStamp(db.stamps, tick.time, 0)
            /\ WithStamp(db.stamps, tick.time, 0)[
                 TimeId(WithStamp(db.stamps, tick.time, 0), tick.time)].ts = tick.time
        BY <1>0, WithStampExtends
      <4> QED
        BY <2>4, <4>1
    <3>2. \A k, l \in changed : board[k].key = board[l].key => k = l
      BY <2>1, ChangedRowsKeyed
    <3>3. Keyed(new)
      BY <3>2 DEF Keyed
    <3>4. \A r \in new : r.tid = t /\ r.key \in db'.users
      BY <2>4
    <3>5. db'.rows = db.rows \cup new
      BY <2>4
    <3> HIDE DEF new, changed, board
    <3>6. \A r \in db.rows \cup db.wl : r.tid \in DOMAIN db.stamps /\ r.key \in db'.users
                         /\ db.stamps[r.tid].ts < tick.time
      BY <2>2, <2>4 DEF Tabled
    <3>7. \A i, j \in DOMAIN db'.stamps : i < j => db'.stamps[i].ts < db'.stamps[j].ts
      BY <1>0 DEF Times, MonotoneTimes
    <3>8. Newer(db.rows, db'.rows) /\ Keyed(db'.rows)
      <4>1. /\ Keyed(db.rows) /\ \A r \in new : r.tid = t
            /\ \A r \in db.rows : r.tid \in DOMAIN db.stamps /\ db.stamps[r.tid].ts < tick.time
        BY <3>4, <3>6 DEF Tabled
      <4>2. Newer(db.rows, db.rows \cup new) /\ Keyed(db.rows \cup new)
        BY <1>0, <3>1, <3>3, <3>7, <4>1, RowsAdded
      <4> QED
        BY <3>5, <4>2
    <3>9. \A r \in db.rows \cup db.wl : r.tid \in DOMAIN db'.stamps
                                        /\ db'.stamps[r.tid] = db.stamps[r.tid]
      BY <3>1, <3>6 DEF Extends
    <3>10. Tabled'
      BY <2>1, <2>4, <3>1, <3>4, <3>5, <3>6, <3>8, <3>9 DEF Tabled, ChapterRows, Stamp
    <3>11. Grows(db, db', tick.begun)
      <4>1. /\ Len(db.stamps) <= Len(db'.stamps)
            /\ \A i \in DOMAIN db.stamps : i \in DOMAIN db'.stamps
                                           /\ db'.stamps[i] = db.stamps[i]
            /\ \A i \in DOMAIN db'.stamps : i \in DOMAIN db.stamps
                                            \/ db'.stamps[i].ts >= tick.begun
        BY <1>0, <2>1, <3>1 DEF Extends
      <4>2. Newer(db.wl, db'.wl)
        BY <2>4 DEF Newer
      <4>3. \A r \in (db'.rows \cup db'.wl) \ (db.rows \cup db.wl) :
              db'.stamps[r.tid].ts >= tick.begun
        BY <1>0, <2>1, <2>4, <3>1, <3>4, <3>5
      <4>4. db.rows \subseteq db'.rows /\ db.wl \subseteq db'.wl /\ db.users \subseteq db'.users
        BY <2>4
      <4> QED
        BY <3>8, <4>1, <4>2, <4>3, <4>4 DEF Grows
    <3> QED
      BY <3>10, <3>11
  <2> QED
    BY <1>1, <2>1, <2>3, <2>4, LandMainIs, Zenon
<1>2. CASE LandChapters
  <2>1. tick.phase = "chapters" /\ tick' = IdleTick /\ tick.begun <= tick.time
        /\ tick'.phase = "idle"
    BY <1>2 DEF LandChapters, Times, Clocks, IdleTick
  <2>2. CASE db' = db
    BY <2>1, <2>2 DEF Tabled, ChapterRows
  <2>3. CASE /\ db'.stamps = WithStamp(db.stamps, tick.begun, 0)
             /\ db'.rows = db.rows /\ db'.wl = db.wl /\ db'.users = db.users
    BY <1>0, <2>1, <2>3, StampAdded
  <2>4. ASSUME NEW t \in Nat,
               db'.stamps = WithStamp(db.stamps, tick.time, 0),
               t = TimeId(db'.stamps, tick.time),
               db'.rows = db.rows,
               db'.wl = db.wl \cup
                 {[tid |-> t, key |-> r.key, rank |-> r.rank, score |-> r.score,
                   chapter |-> r.chapter] : r \in ChangedPlayers(Payloads[tick.data].wl)},
               db'.users = db.users \cup
                 {r.key : r \in ChangedPlayers(Payloads[tick.data].wl)}
        PROVE  Tabled' /\ Grows(db, db', tick.begun)
    <3> DEFINE changed == ChangedPlayers(Payloads[tick.data].wl)
               new == {[tid |-> t, key |-> r.key, rank |-> r.rank, score |-> r.score,
                        chapter |-> r.chapter] : r \in changed}
               Of(c, rows) == {r \in rows : r.chapter = c}
    <3>1. /\ Extends(db.stamps, db'.stamps, tick.time)
          /\ t \in DOMAIN db'.stamps /\ db'.stamps[t].ts = tick.time
      <4>1. /\ Extends(db.stamps, WithStamp(db.stamps, tick.time, 0), tick.time)
            /\ TimeId(WithStamp(db.stamps, tick.time, 0), tick.time)
                 \in DOMAIN WithStamp(db.stamps, tick.time, 0)
            /\ WithStamp(db.stamps, tick.time, 0)[
                 TimeId(WithStamp(db.stamps, tick.time, 0), tick.time)].ts = tick.time
        BY <1>0, WithStampExtends
      <4> QED
        BY <2>4, <4>1
    <3>2. \A q, r \in changed :
            q.chapter = r.chapter /\ (q.rank = r.rank \/ q.key = r.key) => q = r
      BY <2>1, ChangedRowsKeyed
    <3>3. \A c \in Chapters : Keyed(Of(c, new))
      BY <3>2 DEF Keyed
    <3>4. \A r \in new : r.tid = t /\ r.key \in db'.users
      BY <2>4
    <3>5. db'.wl = db.wl \cup new
      BY <2>4
    <3> HIDE DEF new, changed
    <3>6. \A r \in db.rows \cup db.wl : r.tid \in DOMAIN db.stamps /\ r.key \in db'.users
      BY <2>4 DEF Tabled
    <3>7. \A r \in db.wl : db.stamps[r.tid].ts < tick.time
      BY <2>1 DEF Tabled, Stamp
    <3>8. \A i, j \in DOMAIN db'.stamps : i < j => db'.stamps[i].ts < db'.stamps[j].ts
      BY <1>0 DEF Times, MonotoneTimes
    <3>9. ASSUME NEW c \in Chapters
          PROVE  Keyed(ChapterRows(db, c) \cup Of(c, new))
      <4>1. /\ Keyed(ChapterRows(db, c)) /\ Keyed(Of(c, new))
            /\ \A r \in ChapterRows(db, c) : r.tid \in DOMAIN db.stamps
                                             /\ db.stamps[r.tid].ts < tick.time
            /\ \A r \in Of(c, new) : r.tid = t
        BY <3>3, <3>4, <3>6, <3>7 DEF Tabled, ChapterRows
      <4> HIDE DEF Of
      <4> QED
        BY <1>0, <3>1, <3>8, <4>1, RowsAdded
    <3>10. \A c \in Chapters : Keyed(ChapterRows(db, c)')
      <4> SUFFICES ASSUME NEW c \in Chapters
                   PROVE  Keyed(ChapterRows(db, c)')
        OBVIOUS
      <4>1. ChapterRows(db, c)' = ChapterRows(db, c) \cup Of(c, new)
        BY <3>5 DEF ChapterRows
      <4> QED
        BY <3>9, <4>1
    <3>11. Newer(db.wl, db'.wl)
      <4> SUFFICES ASSUME NEW q \in db.wl, NEW r \in new
                   PROVE  q.tid < r.tid
        BY <3>5 DEF Newer
      <4>1. Newer({q}, {q} \cup {r})
        <5>1. Keyed({q}) /\ Keyed({r}) /\ \A x \in {r} : x.tid = t
          BY <3>4 DEF Keyed
        <5>2. \A x \in {q} : x.tid \in DOMAIN db.stamps /\ db.stamps[x.tid].ts < tick.time
          BY <3>6, <3>7
        <5> QED
          BY <1>0, <3>1, <3>8, <5>1, <5>2, RowsAdded
      <4>2. q # r
        <5>1. /\ r.tid = t /\ q.tid \in DOMAIN db.stamps /\ db.stamps[q.tid].ts < tick.time
              /\ db'.stamps[q.tid] = db.stamps[q.tid]
          BY <3>1, <3>4, <3>6, <3>7 DEF Extends
        <5> QED
          BY <1>0, <3>1, <5>1
      <4> QED
        BY <4>1, <4>2 DEF Newer
    <3>12. \A r \in db.rows \cup db.wl : r.tid \in DOMAIN db'.stamps
                                        /\ db'.stamps[r.tid] = db.stamps[r.tid]
      BY <3>1, <3>6 DEF Extends
    <3>13. Tabled'
      BY <2>1, <2>4, <3>1, <3>4, <3>5, <3>6, <3>10, <3>12 DEF Tabled
    <3>14. Grows(db, db', tick.begun)
      <4>1. /\ Len(db.stamps) <= Len(db'.stamps)
            /\ \A i \in DOMAIN db.stamps : i \in DOMAIN db'.stamps
                                           /\ db'.stamps[i] = db.stamps[i]
            /\ \A i \in DOMAIN db'.stamps : i \in DOMAIN db.stamps
                                            \/ db'.stamps[i].ts >= tick.begun
        BY <1>0, <2>1, <3>1 DEF Extends
      <4>2. Newer(db.rows, db'.rows)
        BY <2>4 DEF Newer
      <4>3. \A r \in (db'.rows \cup db'.wl) \ (db.rows \cup db.wl) :
              db'.stamps[r.tid].ts >= tick.begun
        BY <1>0, <2>1, <2>4, <3>1, <3>4, <3>5
      <4>4. db.rows \subseteq db'.rows /\ db.wl \subseteq db'.wl /\ db.users \subseteq db'.users
        BY <2>4
      <4> QED
        BY <3>11, <4>1, <4>2, <4>3, <4>4 DEF Grows
    <3> QED
      BY <3>13, <3>14
  <2> QED
    BY <1>2, <2>1, <2>2, <2>3, <2>4, LandChaptersIs, Zenon
<1>3. CASE FetchFails \/ LandFails
  <2>1. tick' = IdleTick /\ tick'.phase # "chapters" /\ tick.phase # "idle"
    BY <1>3, FailuresAre DEF FetchFails, LandFails, IdleTick
  <2>2. /\ db'.rows = db.rows /\ db'.wl = db.wl /\ db.users \subseteq db'.users
        /\ db'.stamps \in {db.stamps, WithStamp(db.stamps, tick.begun, 1)}
    BY <1>3, FailuresAre
  <2> QED
    BY <1>0, <2>1, <2>2, StampAdded
<1>4. CASE UNCHANGED db /\ ~LandMain
  <2>1. tick'.phase = "chapters" => tick.phase = "chapters" /\ UNCHANGED tick
    <3>1. CASE Begin \/ Fetched \/ LandChapters \/ FetchFails \/ LandFails
      <4>1. CASE Begin
        BY <4>1 DEF Begin, IdleTick
      <4>2. CASE Fetched
        BY <4>2 DEF Fetched, Typed, Ticks
      <4>3. CASE LandChapters \/ FetchFails \/ LandFails
        BY <4>3 DEF LandChapters, FetchFails, LandFails, IdleTick
      <4> QED
        BY <3>1, <4>1, <4>2, <4>3
    <3>2. CASE Elapse
      BY <3>2 DEF Elapse, trackerVars
    <3>3. CASE Reader \/ UNCHANGED vars
      BY <3>3, ReaderStep DEF vars
    <3> QED
      BY <1>4, <3>1, <3>2, <3>3 DEF Next, Tracker
  <2> QED
    BY <1>4, <2>1 DEF Tabled, ChapterRows, Stamp
<1> QED
  BY <1>1, <1>2, <1>3, <1>4, OtherSteps

-----------------------------------------------------------------------------
(* The first and the last of some rows.  *)

LEMMA MinOfNats ==
  ASSUME NEW S \in SUBSET Nat, S # {}
  PROVE  Min(S) \in S /\ \A y \in S : Min(S) <= y
<1>1. \E x \in S : \A y \in S : <<y, x>> \notin OpToRel(<, Nat)
  BY WFMin, NatLessThanWellFounded, Zenon
<1>2. PICK x \in S : \A y \in S : <<y, x>> \notin OpToRel(<, Nat)
  BY <1>1
<1>3. ASSUME NEW y \in S
      PROVE  ~ (y < x)
  BY <1>2, Zenon DEF OpToRel
<1>4. \A y \in S : x <= y
  <2> TAKE y \in S
  <2>1. x \in Nat /\ y \in Nat /\ ~ (y < x)
    BY <1>3
  <2> QED
    BY <2>1
<1> QED
  BY <1>4 DEF Min

LEMMA MaxOfNats ==
  ASSUME NEW n \in Nat, NEW S \in SUBSET (1..n), S # {}
  PROVE  Max(S) \in S /\ \A y \in S : y <= Max(S)
<1> DEFINE D == {n - x : x \in S}
<1>1. D \in SUBSET Nat /\ D # {}
  <2>1. \A x \in S : n - x \in Nat
    OBVIOUS
  <2>2. PICK x \in S : TRUE
    OBVIOUS
  <2>3. n - x \in D
    OBVIOUS
  <2> QED
    BY <2>1, <2>3
<1> HIDE DEF D
<1>2. Min(D) \in D /\ \A y \in D : Min(D) <= y
  BY <1>1, MinOfNats
<1>3. PICK x \in S : Min(D) = n - x
  BY <1>2 DEF D
<1>4. ASSUME NEW y \in S
      PROVE  y <= x
  <2>1. n - y \in D
    BY DEF D
  <2>2. n - x <= n - y
    BY <1>2, <1>3, <2>1
  <2> QED
    BY <2>2
<1>5. \E z \in S : \A y \in S : z >= y
  BY <1>4
<1> QED
  BY <1>5 DEF Max

\* A set with two different elements has more than one, and the other way round.
LEMMA MoreThanOne ==
  ASSUME NEW S, IsFiniteSet(S)
  PROVE  Cardinality(S) > 1 <=> \E a, b \in S : a # b
<1>1. Cardinality(S) \in Nat
  BY FS_CardinalityType
<1>2. ASSUME NEW a \in S, NEW b \in S, a # b
      PROVE  Cardinality(S) > 1
  <2>1. IsFiniteSet({a}) /\ Cardinality({a}) = 1
    BY FS_Singleton
  <2>2. IsFiniteSet({a} \cup {b}) /\ Cardinality({a} \cup {b}) = 2
    <3>1. Cardinality({a} \cup {b}) = IF b \in {a} THEN Cardinality({a})
                                     ELSE Cardinality({a}) + 1
      BY <2>1, FS_AddElement
    <3>2. IsFiniteSet({a} \cup {b})
      BY <2>1, FS_AddElement
    <3> QED
      BY <1>2, <2>1, <3>1, <3>2
  <2>3. {a} \cup {b} \in SUBSET S
    OBVIOUS
  <2>4. Cardinality({a} \cup {b}) <= Cardinality(S)
    BY <2>3, FS_Subset
  <2> QED
    BY <1>1, <2>2, <2>4
<1>3. ASSUME Cardinality(S) > 1
      PROVE  \E a, b \in S : a # b
  <2>1. S # {}
    BY <1>3, FS_EmptySet
  <2>2. PICK a \in S : TRUE
    BY <2>1
  <2>3. CASE S = {a}
    <3>1. Cardinality(S) = 1
      BY <2>3, FS_Singleton
    <3> QED
      BY <1>3, <3>1
  <2>4. CASE S # {a}
    BY <2>2, <2>4
  <2> QED
    BY <2>3, <2>4
<1> QED
  BY <1>2, <1>3

\* What a table of rows has in common with its time ids.
LEMMA TableFacts ==
  ASSUME Typed, Times, Tabled, ask \in Calls
  PROVE  LET T == TableOf(ask.chapter)
         IN /\ Keyed(T)
            /\ \A r \in T : /\ r.tid \in DOMAIN db.stamps /\ r.tid \in 1..Len(db.stamps)
                            /\ r.rank \in Nat /\ r.key \in Nat /\ r.score \in Int
                            /\ Stamp(db, r) \in Nat
            /\ \A q, r \in T : /\ q.tid < r.tid <=> Stamp(db, q) < Stamp(db, r)
                               /\ q.tid = r.tid <=> Stamp(db, q) = Stamp(db, r)
            /\ Len(db.stamps) \in Nat
<1> DEFINE T == TableOf(ask.chapter)
<1>1. ask.chapter \in Chapters \cup {None}
  BY CallsAssumption
<1>2. Keyed(T)
  BY <1>1 DEF Tabled, TableOf
<1>3. T \subseteq db.rows \cup db.wl
  BY DEF TableOf, ChapterRows
<1>4. \A r \in T : r.tid \in DOMAIN db.stamps
  BY <1>3 DEF Tabled
<1>5. \A r \in T : r.rank \in Nat /\ r.key \in Nat /\ r.score \in Int
  BY <1>3 DEF Typed, Tables, Row, ChapterRow
<1>6. DOMAIN db.stamps = 1..Len(db.stamps) /\ Len(db.stamps) \in Nat
  BY LenProperties DEF Typed, Tables
<1>7. \A i \in DOMAIN db.stamps : db.stamps[i].ts \in Nat
  <2>1. \A i \in DOMAIN db.stamps : db.stamps[i] \in StampRec
    BY <1>6, ElementOfSeq DEF Typed, Tables
  <2> QED
    BY <2>1 DEF StampRec
<1>8. ASSUME NEW q \in T, NEW r \in T
      PROVE  /\ q.tid < r.tid <=> Stamp(db, q) < Stamp(db, r)
             /\ q.tid = r.tid <=> Stamp(db, q) = Stamp(db, r)
  <2> DEFINE i == q.tid  j == r.tid  a == db.stamps[i].ts  b == db.stamps[j].ts
  <2>1. i \in Nat /\ j \in Nat /\ a \in Nat /\ b \in Nat
    BY <1>4, <1>6, <1>7
  <2>2. (i < j => a < b) /\ (j < i => b < a) /\ (i = j => a = b)
    BY <1>4 DEF Times, MonotoneTimes
  <2>3. a = Stamp(db, q) /\ b = Stamp(db, r)
    BY DEF Stamp
  <2> HIDE DEF i, j, a, b
  <2>4. (i < j <=> a < b) /\ (i = j <=> a = b)
    BY <2>1, <2>2
  <2> QED
    BY <2>3, <2>4 DEF i, j
<1>9. \A r \in T : Stamp(db, r) \in Nat
  BY <1>4, <1>7 DEF Stamp
<1> HIDE DEF T
<1>10. /\ Keyed(T)
       /\ \A r \in T : /\ r.tid \in DOMAIN db.stamps /\ r.tid \in 1..Len(db.stamps)
                       /\ r.rank \in Nat /\ r.key \in Nat /\ r.score \in Int
                       /\ Stamp(db, r) \in Nat
       /\ \A q, r \in T : /\ q.tid < r.tid <=> Stamp(db, q) < Stamp(db, r)
                          /\ q.tid = r.tid <=> Stamp(db, q) = Stamp(db, r)
       /\ Len(db.stamps) \in Nat
  BY <1>2, <1>4, <1>5, <1>6, <1>8, <1>9
<1> QED
  BY <1>10 DEF T

\* found has the first or the last row of each rank.
EdgesOf(inner, found, e) ==
  /\ DOMAIN found = {r.rank : r \in inner}
  /\ \A k \in DOMAIN found : \E r \in inner :
       /\ r.rank = k
       /\ found[k] = [ts |-> Stamp(db, r), score |-> r.score]
       /\ \A q \in inner : q.rank = k =>
            IF e = "early" THEN r.tid <= q.tid ELSE q.tid <= r.tid

\* rank_edge_select gives each rank in the span its first or its last row.
LEMMA RankEdgeIs ==
  ASSUME Typed, Times, Tabled, ask \in Calls, NEW ranks, NEW span,
         NEW e \in {"early", "late"}
  PROVE  EdgesOf(EdgeRows(db, TableOf(ask.chapter), ranks, span),
                 RankEdge(db, TableOf(ask.chapter), ranks, e, span), e)
<1> DEFINE T == TableOf(ask.chapter)
           inner == EdgeRows(db, T, ranks, span)
           found == RankEdge(db, T, ranks, e, span)
           tids(k) == {r.tid : r \in {r \in inner : r.rank = k}}
           tid(k) == IF e = "early" THEN Min(tids(k)) ELSE Max(tids(k))
<1>1. /\ Keyed(T) /\ Len(db.stamps) \in Nat
      /\ \A r \in T : r.tid \in 1..Len(db.stamps)
  BY TableFacts
<1>2. inner \subseteq T
  BY DEF EdgeRows
<1>3. found = [k \in {r.rank : r \in inner} |->
                 LET r == CHOOSE r \in T : r.rank = k /\ r.tid = tid(k)
                 IN [ts |-> Stamp(db, r), score |-> r.score]]
  BY Zenon DEF RankEdge
<1>4. DOMAIN found = {r.rank : r \in inner}
  BY <1>3
<1>5. ASSUME NEW k \in DOMAIN found
      PROVE  \E r \in inner :
               /\ r.rank = k
               /\ found[k] = [ts |-> Stamp(db, r), score |-> r.score]
               /\ \A q \in inner : q.rank = k =>
                    IF e = "early" THEN r.tid <= q.tid ELSE q.tid <= r.tid
  <2> HIDE DEF T, inner, found
  <2>1. tids(k) \in SUBSET (1..Len(db.stamps)) /\ tids(k) # {}
    BY <1>1, <1>2, <1>4
  <2> DEFINE t == tid(k)  S == tids(k)
  <2>2. S \in SUBSET Nat
    BY <2>1
  <2>3. /\ t \in S
        /\ \A y \in S : IF e = "early" THEN t <= y ELSE y <= t
    <3>1. CASE e = "early"
      <4>1. t = Min(S)
        BY <3>1
      <4> HIDE DEF S, t
      <4> QED
        BY <2>1, <2>2, <3>1, <4>1, MinOfNats DEF S
    <3>2. CASE e = "late"
      <4>1. t = Max(S)
        BY <3>2
      <4>2. Max(S) \in S /\ \A y \in S : y <= Max(S)
        BY <1>1, <2>1, MaxOfNats
      <4> HIDE DEF S, t
      <4> QED
        BY <3>2, <4>1, <4>2
    <3> QED
      BY <3>1, <3>2
  <2>4. PICK r \in inner : r.rank = k /\ r.tid = t
    BY <2>3
  <2>5. (CHOOSE x \in T : x.rank = k /\ x.tid = t) = r
    <3>1. \A x \in T : x.rank = k /\ x.tid = t => x = r
      BY <1>1, <1>2, <2>4 DEF Keyed
    <3>2. r \in T /\ r.rank = k /\ r.tid = t
      BY <1>2, <2>4
    <3> HIDE DEF t
    <3> QED
      BY <3>1, <3>2
  <2>6. found[k] = [ts |-> Stamp(db, r), score |-> r.score]
    BY <1>3, <1>4, <2>5, Zenon
  <2>7. \A q \in inner : q.rank = k =>
                    IF e = "early" THEN r.tid <= q.tid ELSE q.tid <= r.tid
    <3> TAKE q \in inner
    <3> HAVE q.rank = k
    <3>1. q.tid \in S
      OBVIOUS
    <3> HIDE DEF S, t
    <3> QED
      BY <2>3, <2>4, <3>1
  <2> QED
    BY <2>4, <2>6, <2>7
<1> HIDE DEF inner, found
<1>6. EdgesOf(inner, found, e)
  BY <1>4, <1>5 DEF EdgesOf
<1> QED
  BY <1>6 DEF inner, found

-----------------------------------------------------------------------------
(* The queries of a request, and its growths.  *)

\* One query at first, and the joined ones last: nothing is read of the edges
\* before, and the rows they are asked for are fixed then.
Joined == {"players", "lines", "early", "late", "status"}

Stages ==
  /\ ask \in Calls
  /\ DOMAIN call = {"state", "end", "ranks", "todo", "jobs", "res", "due", "seen",
                    "failed", "settled"}
  /\ DOMAIN call.res = DOMAIN NothingRead
  /\ call.state \in {"none", "run", "done"}
  /\ call.state = "none" => call.res = NothingRead /\ call.jobs = {}
  /\ call.state # "run" => call.todo = {}
  /\ call.failed \in BOOLEAN
  /\ \/ call.todo \subseteq Joined
     \/ /\ call.todo \in {{"resolve"}, {"items"}, {"top"}, {"span"}, {"subject"}, {"trace"}}
        /\ call.res.early = None /\ call.res.late = None
  /\ "early" \in call.todo => call.res.early = None
  /\ "late" \in call.todo => call.res.late = None

LEMMA InitStages == Init => Stages
BY DEF Init, Stages, NothingRead

\* A trace more, or none.
LEMMA EnrichIs ==
  ASSUME NEW k, Enrich(k)
  PROVE  /\ k \in call.jobs /\ UNCHANGED ask
         /\ \E traces : call' = [call EXCEPT !.jobs = @ \ {k}, !.res.traces = traces]
<1> DEFINE item == call.res.items[k]
           rows == TraceOf(ask.chapter, "user", item.key, MetricsFilter(item))
           trace == [i \in DOMAIN rows |-> [ts |-> Stamp(db, rows[i]), score |-> rows[i].score]]
           more == [l \in DOMAIN call.res.traces \cup {k} |->
                      IF l = k THEN trace ELSE call.res.traces[l]]
<1>1. PICK known \in BOOLEAN :
        call' = [call EXCEPT !.jobs = @ \ {k}, !.res.traces = IF known THEN more ELSE @]
  BY Zenon DEF Enrich
<1>2. k \in call.jobs /\ UNCHANGED ask
  BY DEF Enrich
<1> DEFINE traces == IF known THEN more ELSE call.res.traces
<1> HIDE DEF more
<1>3. call' = [call EXCEPT !.jobs = @ \ {k}, !.res.traces = traces]
  BY <1>1
<1> HIDE DEF traces
<1> QED
  BY <1>2, <1>3

LEMMA StagesStep ==
  ASSUME Stages, [Next]_vars
  PROVE  Stages'
<1> USE DEF Stages, NothingRead, Joined
<1>1. CASE Elapse \/ Tracker \/ UNCHANGED vars
  BY <1>1 DEF Elapse, Tracker, Begin, FetchFails, Fetched, LandMain, LandChapters, LandFails,
              readerVars, vars
<1>2. CASE Open \/ RankingPage \/ UserPage \/ TracePage
  BY <1>2 DEF Open, RankingPage, UserPage, TracePage
<1>3. CASE AskOverview \/ AskSnapshot \/ AskSubject
  <2>1. CASE AskOverview
    BY <2>1 DEF AskOverview
  <2>2. CASE AskSnapshot
    BY <2>2 DEF AskSnapshot
  <2>3. CASE AskSubject
    BY <2>3 DEF AskSubject
  <2> QED
    BY <1>3, <2>1, <2>2, <2>3
<1>4. CASE Top
  BY <1>4 DEF Top, Finds, Doing
<1>5. CASE OverviewSpan
  BY <1>5 DEF OverviewSpan, Doing
<1>6. CASE Players
  BY <1>6 DEF Players, Finds, Doing
<1>7. CASE Status
  BY <1>7 DEF Status, Finds, Doing
<1>8. CASE Lines
  BY <1>8 DEF Lines, Doing
<1>9. ASSUME NEW e \in {"early", "late"}, Edge(e)
      PROVE  Stages'
  BY <1>9 DEF Edge, Doing
<1>10. CASE Resolve
  BY <1>10 DEF Resolve, Doing
<1>11. CASE Items
  BY <1>11 DEF Items, Doing
<1>12. CASE ResolveSubject
  BY <1>12 DEF ResolveSubject, Doing
<1>13. CASE SubjectTrace
  BY <1>13 DEF SubjectTrace, Doing
<1>14. ASSUME NEW k \in call.jobs, Enrich(k)
       PROVE  Stages'
  <2>1. PICK traces : call' = [call EXCEPT !.jobs = @ \ {k}, !.res.traces = traces]
    BY <1>14, EnrichIs
  <2>2. UNCHANGED ask /\ call.state # "none"
    BY <1>14, EnrichIs
  <2> QED
    BY <2>1, <2>2
<1>15. CASE ReplyOverview \/ ReplySnapshot
  BY <1>15 DEF ReplyOverview, ReplySnapshot
<1> QED
  BY <1>1, <1>2, <1>3, <1>4, <1>5, <1>6, <1>7, <1>8, <1>9, <1>10, <1>11, <1>12, <1>13, <1>14,
     <1>15 DEF Next, Reader

\* The other steps let alone what the growths are made of, or come before.
LEMMA GrowthUntouched ==
  ASSUME Stages, [Next]_vars
  PROVE  /\ UNCHANGED ask
         /\ \/ (call.res.early = None)' /\ (call.res.late = None)'
            \/ /\ UNCHANGED <<call.res.early, call.res.late, call.ranks, call.end, call.due,
                              call.seen>>
               /\ call'.todo \cap {"early", "late"} = call.todo \cap {"early", "late"}
               /\ call.failed => call'.failed
            \/ \E e \in {"early", "late"} : Edge(e) /\ UNCHANGED db
<1> USE DEF Stages, NothingRead, Joined
<1>1. CASE Elapse \/ Tracker \/ UNCHANGED vars
  BY <1>1 DEF Elapse, Tracker, Begin, FetchFails, Fetched, LandMain, LandChapters, LandFails,
              readerVars, vars
<1>2. CASE Open \/ RankingPage \/ UserPage \/ TracePage
  BY <1>2 DEF Open, RankingPage, UserPage, TracePage
<1>3. CASE AskOverview \/ AskSnapshot \/ AskSubject
  <2>1. CASE AskOverview
    BY <2>1 DEF AskOverview
  <2>2. CASE AskSnapshot
    BY <2>2 DEF AskSnapshot
  <2>3. CASE AskSubject
    BY <2>3 DEF AskSubject
  <2> QED
    BY <1>3, <2>1, <2>2, <2>3
<1>4. CASE Top
  BY <1>4 DEF Top, Finds, Doing
<1>5. CASE OverviewSpan
  BY <1>5 DEF OverviewSpan, Doing
<1>6. CASE Players
  BY <1>6 DEF Players, Finds, Doing
<1>7. CASE Status
  BY <1>7 DEF Status, Finds, Doing
<1>8. CASE Lines
  BY <1>8 DEF Lines, Doing
<1>9. ASSUME NEW e \in {"early", "late"}, Edge(e)
      PROVE  UNCHANGED ask /\ UNCHANGED db
  BY <1>9 DEF Edge, trackerVars
<1>10. CASE Resolve
  BY <1>10 DEF Resolve, Doing
<1>11. CASE Items
  BY <1>11 DEF Items, Doing
<1>12. CASE ResolveSubject
  BY <1>12 DEF ResolveSubject, Doing
<1>13. CASE SubjectTrace
  BY <1>13 DEF SubjectTrace, Doing
<1>14. ASSUME NEW k \in call.jobs, Enrich(k)
       PROVE  /\ UNCHANGED <<ask, call.res.early, call.res.late, call.ranks, call.end,
                              call.due, call.seen, call.todo, call.failed>>
  <2>1. PICK traces : call' = [call EXCEPT !.jobs = @ \ {k}, !.res.traces = traces]
    BY <1>14, EnrichIs
  <2>2. UNCHANGED ask /\ call.state # "none"
    BY <1>14, EnrichIs
  <2> QED
    BY <2>1, <2>2
<1>15. CASE ReplyOverview \/ ReplySnapshot
  BY <1>15 DEF ReplyOverview, ReplySnapshot
<1> QED
  BY <1>1, <1>2, <1>3, <1>4, <1>5, <1>6, <1>7, <1>8, <1>9, <1>10, <1>11, <1>12, <1>13, <1>14,
     <1>15 DEF Next, Reader

\* The rows of the tables that the growths are about.
GrowthRows == EdgeRows(db, TableOf(ask.chapter), GrowthRanks, Span)

Sample(r) == [ts |-> Stamp(db, r), score |-> r.score]

IsFirst(r) == \A q \in GrowthRows : q.rank = r.rank => r.tid <= q.tid

\* The first row of a rank in the span stays the first one.
EarlyInv ==
  call.res.early # None =>
    \A k \in DOMAIN call.res.early : \E r \in GrowthRows :
      r.rank = k /\ IsFirst(r) /\ call.res.early[k] = Sample(r)

\* What was the last one has given a growth, from that first one.
LateInv ==
  call.res.late # None =>
    \A k \in DOMAIN call.res.late : \E f, l \in GrowthRows :
      /\ f.rank = k /\ l.rank = k /\ IsFirst(f) /\ call.res.late[k] = Sample(l)
      /\ Stamp(db, f) # Stamp(db, l) =>
           [rank |-> k, from |-> Stamp(db, f), upto |-> Stamp(db, l),
            growth |-> l.score - f.score] \in call.seen

\* A rank that is due has what the second query needs.
DueInv ==
  /\ call.res.early # None /\ "late" \in call.todo /\ ~call.failed =>
       \A k \in call.due : /\ k \in DOMAIN call.res.early
                           /\ \E r \in GrowthRows : /\ r.rank = k
                                                    /\ Stamp(db, r) # call.res.early[k].ts
  /\ call.res.late # None /\ "early" \in call.todo /\ ~call.failed =>
       \A k \in call.due : /\ k \in DOMAIN call.res.late
                           /\ \E r \in GrowthRows : /\ r.rank = k /\ IsFirst(r)
                                                    /\ Stamp(db, r) # call.res.late[k].ts

GrowthInv == EarlyInv /\ LateInv /\ DueInv /\ GrowthIsSnapshot

LEMMA InitGrowth == Init => GrowthInv
BY DEF Init, NothingRead, GrowthInv, EarlyInv, LateInv, DueInv, GrowthIsSnapshot

\* Growing tables keep the rows in a span, and add later ones.
LEMMA GrowthRowsStay ==
  ASSUME Typed, Times, Tabled, Stages, [Next]_vars,
         UNCHANGED <<ask, call.ranks, call.end>>
  PROVE  /\ \A r \in GrowthRows : /\ r \in GrowthRows'
                                  /\ Stamp(db, r)' = Stamp(db, r)
         /\ \A q \in GrowthRows : \A r \in GrowthRows' :
              /\ q.tid \in Nat /\ r.tid \in Nat
              /\ r \in GrowthRows \/ q.tid < r.tid
<1>1. ask.chapter \in Chapters \cup {None} /\ ask \in Calls
  BY CallsAssumption DEF Stages
<1>2. Typed' /\ Tabled' /\ (db' = db \/ Grows(db, db', tick.begun))
  BY TypedStep, TimesStep, TablesStep
<1> DEFINE T == TableOf(ask.chapter)
<1>3. \A r \in T : r.tid \in DOMAIN db.stamps /\ r.tid \in Nat
  BY <1>1, TableFacts
<1>4. T \subseteq T' /\ (\A q \in T : \A r \in T' : r \in T \/ q.tid < r.tid)
  <2>1. CASE db' = db
    BY <2>1 DEF TableOf, ChapterRows
  <2>2. CASE Grows(db, db', tick.begun)
    BY <2>2 DEF Grows, Newer, TableOf, ChapterRows
  <2> QED
    BY <1>2, <2>1, <2>2
<1>5. \A r \in T : Stamp(db, r)' = Stamp(db, r)
  BY <1>2, <1>3 DEF Grows, Stamp
<1>6. \A r \in T' : r.tid \in Nat
  BY <1>2 DEF Typed, Tables, Row, ChapterRow, TableOf, ChapterRows
<1>7. GrowthRanks' = GrowthRanks /\ Span' = Span
  BY DEF GrowthRanks, Span
<1>8. GrowthRows = {r \in T : r.rank \in GrowthRanks /\ InSpan(Span, Stamp(db, r))}
  BY DEF GrowthRows, EdgeRows
<1>9. GrowthRows' = {r \in T' : r.rank \in GrowthRanks /\ InSpan(Span, Stamp(db, r)')}
  BY <1>7 DEF GrowthRows, EdgeRows, InSpan, Stamp
<1> HIDE DEF T
<1>10. \A r \in GrowthRows : r \in T /\ r \in GrowthRows' /\ Stamp(db, r)' = Stamp(db, r)
  BY <1>4, <1>5, <1>8, <1>9
<1>11. \A r \in GrowthRows' : r \in T' /\ (r \in T => r \in GrowthRows)
  BY <1>5, <1>8, <1>9
<1> QED
  BY <1>3, <1>4, <1>6, <1>10, <1>11

\* A step that reads no edge.
LEMMA GrowthKept ==
  ASSUME Typed, Times, Tabled, Stages, [Next]_vars, GrowthInv,
         UNCHANGED <<ask, call.res.early, call.res.late, call.ranks, call.end, call.due,
                     call.seen>>,
         call'.todo \cap {"early", "late"} = call.todo \cap {"early", "late"},
         call.failed => call'.failed
  PROVE  GrowthInv'
<1>1. /\ \A r \in GrowthRows : /\ r \in GrowthRows'
                               /\ Stamp(db, r)' = Stamp(db, r)
      /\ \A q \in GrowthRows : \A r \in GrowthRows' :
           /\ q.tid \in Nat /\ r.tid \in Nat
           /\ r \in GrowthRows \/ q.tid < r.tid
  BY GrowthRowsStay
<1>2. \A r \in GrowthRows : IsFirst(r) => IsFirst(r)'
  BY <1>1 DEF IsFirst
<1>3. \A r \in GrowthRows : Sample(r)' = Sample(r)
  BY <1>1 DEF Sample
<1>4. EarlyInv'
  BY <1>1, <1>2, <1>3 DEF GrowthInv, EarlyInv
<1>5. LateInv'
  <2> SUFFICES ASSUME call.res.late # None, NEW k \in DOMAIN call.res.late
               PROVE  (\E f, l \in GrowthRows :
                /\ f.rank = k /\ l.rank = k /\ IsFirst(f) /\ call.res.late[k] = Sample(l)
                /\ Stamp(db, f) # Stamp(db, l) =>
                     [rank |-> k, from |-> Stamp(db, f), upto |-> Stamp(db, l),
                      growth |-> l.score - f.score] \in call.seen)'
    BY DEF LateInv
  <2>1. PICK f \in GrowthRows, l \in GrowthRows :
                /\ f.rank = k /\ l.rank = k /\ IsFirst(f) /\ call.res.late[k] = Sample(l)
                /\ Stamp(db, f) # Stamp(db, l) =>
                     [rank |-> k, from |-> Stamp(db, f), upto |-> Stamp(db, l),
                      growth |-> l.score - f.score] \in call.seen
    BY DEF GrowthInv, LateInv
  <2>2. /\ f \in GrowthRows' /\ l \in GrowthRows' /\ IsFirst(f)' /\ Sample(l)' = Sample(l)
        /\ Stamp(db, f)' = Stamp(db, f) /\ Stamp(db, l)' = Stamp(db, l)
    BY <1>1, <1>2, <1>3, <2>1
  <2> QED
    BY <2>1, <2>2
<1>6. DueInv'
  <2>1. /\ ("late" \in call'.todo <=> "late" \in call.todo)
        /\ ("early" \in call'.todo <=> "early" \in call.todo)
    OBVIOUS
  <2>2. ASSUME call.res.early # None, "late" \in call.todo, ~call'.failed, NEW k \in call.due
        PROVE  /\ k \in DOMAIN call.res.early
               /\ (\E r \in GrowthRows : r.rank = k /\ Stamp(db, r) # call.res.early[k].ts)'
    <3>1. /\ k \in DOMAIN call.res.early
          /\ \E r \in GrowthRows : r.rank = k /\ Stamp(db, r) # call.res.early[k].ts
      BY <2>2 DEF GrowthInv, DueInv
    <3> QED
      BY <1>1, <3>1
  <2>3. ASSUME call.res.late # None, "early" \in call.todo, ~call'.failed, NEW k \in call.due
        PROVE  /\ k \in DOMAIN call.res.late
               /\ (\E r \in GrowthRows :
                     r.rank = k /\ IsFirst(r) /\ Stamp(db, r) # call.res.late[k].ts)'
    <3>1. PICK r \in GrowthRows :
             /\ k \in DOMAIN call.res.late
             /\ r.rank = k /\ IsFirst(r) /\ Stamp(db, r) # call.res.late[k].ts
      BY <2>3 DEF GrowthInv, DueInv
    <3> QED
      BY <1>1, <1>2, <3>1
  <2> QED
    BY <2>1, <2>2, <2>3 DEF DueInv
<1>7. GrowthIsSnapshot'
  <2>1. GrowthRanks' = GrowthRanks
    BY DEF GrowthRanks
  <2> QED
    BY <2>1 DEF GrowthInv, GrowthIsSnapshot
<1> QED
  BY <1>4, <1>5, <1>6, <1>7 DEF GrowthInv

LEMMA GrowthRowFacts ==
  ASSUME Typed, Times, Tabled, ask \in Calls
  PROVE  /\ \A r \in GrowthRows :
              /\ r \in TableOf(ask.chapter) /\ r.rank \in GrowthRanks
              /\ InSpan(Span, Stamp(db, r))
              /\ r.tid \in Nat /\ r.rank \in Nat /\ r.score \in Int /\ Stamp(db, r) \in Nat
              /\ Stamp(db, r) <= now
         /\ \A q, r \in GrowthRows : /\ q.tid < r.tid <=> Stamp(db, q) < Stamp(db, r)
                                     /\ q.tid = r.tid <=> Stamp(db, q) = Stamp(db, r)
                                     /\ q.tid = r.tid /\ q.rank = r.rank => q = r
<1>1. \A r \in GrowthRows : /\ r \in TableOf(ask.chapter) /\ r.rank \in GrowthRanks
                            /\ InSpan(Span, Stamp(db, r))
  BY DEF GrowthRows, EdgeRows
<1> DEFINE T == TableOf(ask.chapter)
<1>2. /\ Keyed(T)
      /\ \A r \in T : /\ r.tid \in DOMAIN db.stamps /\ r.tid \in 1..Len(db.stamps)
                      /\ r.rank \in Nat /\ r.score \in Int /\ Stamp(db, r) \in Nat
      /\ \A q, r \in T : /\ q.tid < r.tid <=> Stamp(db, q) < Stamp(db, r)
                         /\ q.tid = r.tid <=> Stamp(db, q) = Stamp(db, r)
      /\ Len(db.stamps) \in Nat
  BY TableFacts
<1>3. \A r \in T : Stamp(db, r) <= now
  BY <1>2 DEF Times, Fresh, Stamp
<1> HIDE DEF T
<1>4. \A r \in T : r.tid \in Nat
  BY <1>2
<1> QED
  BY <1>1, <1>2, <1>3, <1>4 DEF T, Keyed

\* Two first rows of a rank are one.
LEMMA OneFirst ==
  ASSUME Typed, Times, Tabled, ask \in Calls, NEW q \in GrowthRows, NEW r \in GrowthRows,
         q.rank = r.rank, IsFirst(q), IsFirst(r)
  PROVE  q = r
<1>1. q.tid \in Nat /\ r.tid \in Nat /\ q.tid <= r.tid /\ r.tid <= q.tid
  BY GrowthRowFacts DEF IsFirst
<1>2. q.tid = r.tid
  BY <1>1
<1> QED
  BY <1>2, GrowthRowFacts

\* The span holds two samples of a rank.
LEMMA DueMeans ==
  ASSUME Typed, Times, Tabled, ask \in Calls, NEW k \in GrowthRanks
  PROVE  Due(ask.chapter, k, Span) <=>
           \E q, r \in GrowthRows : q.rank = k /\ r.rank = k /\ Stamp(db, q) # Stamp(db, r)
<1> DEFINE S == {s.ts : s \in Samples(ask.chapter, k, Span)}
           R == {r \in TableOf(ask.chapter) : r.rank = k /\ InSpan(Span, Stamp(db, r))}
<1>1. \A r : r \in R <=> r \in GrowthRows /\ r.rank = k
  BY DEF GrowthRows, EdgeRows
<1>2. \A t : t \in S <=> \E r \in R : t = Stamp(db, r)
  <2>1. Samples(ask.chapter, k, Span) = {Item(db, r) : r \in R}
    BY DEF Samples
  <2>2. \A r \in R : Item(db, r).ts = Stamp(db, r)
    BY DEF Item
  <2> HIDE DEF R
  <2> QED
    BY <2>1, <2>2
<1> HIDE DEF R, S
<1>3. S \in SUBSET Nat /\ \A t \in S : t <= now
  BY <1>1, <1>2, GrowthRowFacts
<1>4. IsFiniteSet(S)
  BY <1>3, FS_BoundedSetOfNaturals DEF Typed
<1>5. Due(ask.chapter, k, Span) <=> \E a, b \in S : a # b
  <2>1. Due(ask.chapter, k, Span) <=> Cardinality(S) > 1
    BY DEF Due, S
  <2> QED
    BY <1>4, <2>1, MoreThanOne
<1> QED
  BY <1>1, <1>2, <1>5

\* From the first to the last sample.
LEMMA TrueGrowthIs ==
  ASSUME Typed, Times, Tabled, ask \in Calls, NEW f \in GrowthRows, NEW l \in GrowthRows,
         f.rank = l.rank, IsFirst(f), \A q \in GrowthRows : q.rank = l.rank => q.tid <= l.tid,
         Stamp(db, f) # Stamp(db, l)
  PROVE  [rank |-> f.rank, from |-> Stamp(db, f), upto |-> Stamp(db, l),
          growth |-> l.score - f.score] \in TrueGrowths(ask.chapter, GrowthRanks, Span)
<1> DEFINE k == f.rank
           S == Samples(ask.chapter, k, Span)
           R == {r \in TableOf(ask.chapter) : r.rank = k /\ InSpan(Span, Stamp(db, r))}
<1>1. k \in GrowthRanks /\ Due(ask.chapter, k, Span)
  BY DueMeans, GrowthRowFacts
<1>2. \A r : r \in R <=> r \in GrowthRows /\ r.rank = k
  BY DEF GrowthRows, EdgeRows
<1>3. S = {Item(db, r) : r \in R}
  BY DEF Samples
<1>4. \A r : Item(db, r).ts = Stamp(db, r) /\ Item(db, r).score = r.score
  BY DEF Item
<1> HIDE DEF R, S
<1>5. f \in R /\ l \in R /\ Item(db, f) \in S /\ Item(db, l) \in S
  BY <1>2, <1>3
<1>6. \A s \in S : Item(db, f).ts <= s.ts /\ s.ts <= Item(db, l).ts
  <2> SUFFICES ASSUME NEW r \in R
               PROVE  Stamp(db, f) <= Stamp(db, r) /\ Stamp(db, r) <= Stamp(db, l)
    BY <1>3, <1>4
  <2>1. r \in GrowthRows /\ f.tid <= r.tid /\ r.tid <= l.tid
    BY <1>2 DEF IsFirst
  <2> QED
    BY <2>1, GrowthRowFacts
<1>7. \A s \in S : (s.ts = Item(db, f).ts => s = Item(db, f)) /\
                   (s.ts = Item(db, l).ts => s = Item(db, l))
  <2> SUFFICES ASSUME NEW r \in R
               PROVE  /\ Stamp(db, r) = Stamp(db, f) => r = f
                      /\ Stamp(db, r) = Stamp(db, l) => r = l
    BY <1>3, <1>4
  <2> QED
    BY <1>2, GrowthRowFacts
<1>8. \A s \in S : s.ts \in Nat
  BY <1>2, <1>3, <1>4, GrowthRowFacts
<1>9. (CHOOSE s \in S : \A t \in S : s.ts <= t.ts) = Item(db, f)
  <2>1. \A s \in S : (\A t \in S : s.ts <= t.ts) => s = Item(db, f)
    <3> SUFFICES ASSUME NEW s \in S, \A t \in S : s.ts <= t.ts
                 PROVE  s.ts = Item(db, f).ts
      BY <1>7
    <3> QED
      BY <1>5, <1>6, <1>8
  <2> QED
    BY <1>5, <1>6, <2>1
<1>10. (CHOOSE s \in S : \A t \in S : s.ts >= t.ts) = Item(db, l)
  <2>1. \A s \in S : (\A t \in S : s.ts >= t.ts) => s = Item(db, l)
    <3> SUFFICES ASSUME NEW s \in S, \A t \in S : s.ts >= t.ts
                 PROVE  s.ts = Item(db, l).ts
      BY <1>7
    <3> QED
      BY <1>5, <1>6, <1>8
  <2>2. \A t \in S : Item(db, l).ts >= t.ts
    BY <1>5, <1>6, <1>8
  <2> QED
    BY <1>5, <2>1, <2>2
<1>11. TrueGrowth(ask.chapter, k, Span) =
         [rank |-> k, from |-> Stamp(db, f), upto |-> Stamp(db, l),
          growth |-> l.score - f.score]
  BY <1>4, <1>9, <1>10 DEF TrueGrowth, S
<1> HIDE DEF k
<1> QED
  BY <1>1, <1>11 DEF TrueGrowths, k

\* First and last samples that belong together give the growths seen, one for
\* each rank whose two samples differ.
LEMMA GrowthsSeen ==
  ASSUME Typed, Times, Tabled, ask \in Calls, NEW early, NEW late, NEW seen,
         \A k \in DOMAIN early : \E r \in GrowthRows :
           r.rank = k /\ IsFirst(r) /\ early[k] = Sample(r),
         \A k \in DOMAIN late : \E f, l \in GrowthRows :
           /\ f.rank = k /\ l.rank = k /\ IsFirst(f) /\ late[k] = Sample(l)
           /\ Stamp(db, f) # Stamp(db, l) =>
                [rank |-> k, from |-> Stamp(db, f), upto |-> Stamp(db, l),
                 growth |-> l.score - f.score] \in seen
  PROVE  /\ Growths(GrowthRanks, early, late) \subseteq seen
         /\ \A k \in GrowthRanks \cap DOMAIN early \cap DOMAIN late :
              early[k].ts # late[k].ts => \E g \in Growths(GrowthRanks, early, late) : g.rank = k
<1> DEFINE K == GrowthRanks \cap DOMAIN early \cap DOMAIN late
           G(k) == Growth(k, early[k], late[k])
<1>1. ASSUME NEW k \in K
      PROVE  IF early[k].ts = late[k].ts THEN G(k) = None
             ELSE G(k) \in seen /\ G(k).rank = k /\ G(k) # None
  <2>1. PICK r \in GrowthRows : r.rank = k /\ IsFirst(r) /\ early[k] = Sample(r)
    OBVIOUS
  <2>2. PICK f \in GrowthRows, l \in GrowthRows :
           /\ f.rank = k /\ l.rank = k /\ IsFirst(f) /\ late[k] = Sample(l)
           /\ Stamp(db, f) # Stamp(db, l) =>
                [rank |-> k, from |-> Stamp(db, f), upto |-> Stamp(db, l),
                 growth |-> l.score - f.score] \in seen
    OBVIOUS
  <2>3. r = f
    BY <2>1, <2>2, OneFirst
  <2> DEFINE g == [rank |-> k, from |-> Stamp(db, f), upto |-> Stamp(db, l),
                   growth |-> l.score - f.score]
  <2>4. /\ early[k].ts = Stamp(db, f) /\ late[k].ts = Stamp(db, l)
        /\ early[k].score = f.score /\ late[k].score = l.score
    BY <2>1, <2>2, <2>3 DEF Sample
  <2>5. G(k) = IF early[k].ts = late[k].ts THEN None ELSE g
    BY <2>4 DEF Growth
  <2>6. g \in [rank : Int, from : Int, upto : Int, growth : Int]
    BY <2>2, GrowthRowFacts
  <2>7. g # None
    BY <2>6, NoneIsNoRecord
  <2> QED
    BY <2>2, <2>4, <2>5, <2>7
<1>2. Growths(GrowthRanks, early, late) = {G(k) : k \in K} \ {None}
  BY DEF Growths
<1> HIDE DEF K, G
<1> QED
  BY <1>1, <1>2 DEF K

\* One of the two queries of the growths returns or fails.
LEMMA EdgeIs ==
  ASSUME Stages, NEW e \in {"early", "late"}, Edge(e)
  PROVE  LET other == IF e = "early" THEN "late" ELSE "early"
             found == RankEdge(db, TableOf(ask.chapter), GrowthRanks, e, Span)
         IN /\ e \in call.todo /\ call'.todo = call.todo \ {e}
            /\ UNCHANGED <<db, ask, call.ranks, call.end>>
            /\ call'.res[other] = call.res[other]
            /\ call'.due = IF other \in call.todo
                           THEN {k \in GrowthRanks : Due(ask.chapter, k, Span)} ELSE call.due
            /\ call'.seen = IF e = "late" THEN TrueGrowths(ask.chapter, GrowthRanks, Span)
                            ELSE call.seen
            /\ \/ call'.res[e] = found /\ call'.failed = call.failed
               \/ call'.res[e] = <<>> /\ call'.failed = TRUE
<1> DEFINE other == IF e = "early" THEN "late" ELSE "early"
           found == RankEdge(db, TableOf(ask.chapter), GrowthRanks, e, Span)
           due == {k \in GrowthRanks : Due(ask.chapter, k, Span)}
           seen == TrueGrowths(ask.chapter, GrowthRanks, Span)
<1>1. PICK fails \in BOOLEAN :
        call' = [call EXCEPT
            !.todo = @ \ {e}, !.res[e] = IF fails THEN <<>> ELSE found,
            !.failed = @ \/ fails,
            !.due = IF other \in call.todo THEN due ELSE @,
            !.seen = IF e = "late" THEN seen ELSE @]
  BY Zenon DEF Edge
<1>2. e \in call.todo /\ UNCHANGED <<db, ask>>
  BY DEF Edge, Doing, trackerVars
<1> HIDE DEF found, due, seen
<1>3. call'.failed = (call.failed \/ fails) /\ call.failed \in BOOLEAN
  BY <1>1 DEF Stages
<1>4. other # e /\ other \in DOMAIN call.res /\ e \in DOMAIN call.res
  BY DEF Stages, NothingRead
<1>5. /\ call'.todo = call.todo \ {e} /\ call'.ranks = call.ranks /\ call'.end = call.end
      /\ call'.due = IF other \in call.todo THEN due ELSE call.due
      /\ call'.seen = IF e = "late" THEN seen ELSE call.seen
      /\ call'.res = [call.res EXCEPT ![e] = IF fails THEN <<>> ELSE found]
  BY <1>1 DEF Stages
<1>6. call'.res[other] = call.res[other] /\ call'.res[e] = IF fails THEN <<>> ELSE found
  BY <1>4, <1>5
<1>7. \/ call'.res[e] = found /\ call'.failed = call.failed
      \/ call'.res[e] = <<>> /\ call'.failed = TRUE
  BY <1>3, <1>6
<1> QED
  BY <1>2, <1>5, <1>6, <1>7 DEF found, due, seen

\* Reading an edge leaves the rows it was read from.
LEMMA SameGrowthRows ==
  ASSUME UNCHANGED <<db, ask, call.ranks, call.end>>
  PROVE  /\ GrowthRows' = GrowthRows /\ GrowthRanks' = GrowthRanks /\ Span' = Span
         /\ \A r : /\ Stamp(db, r)' = Stamp(db, r)
                   /\ Sample(r)' = Sample(r)
                   /\ IsFirst(r)' <=> IsFirst(r)
<1>1. GrowthRanks' = GrowthRanks /\ Span' = Span /\ TableOf(ask.chapter)' = TableOf(ask.chapter)
  BY DEF GrowthRanks, Span, TableOf
<1>2. \A r : Stamp(db, r)' = Stamp(db, r)
  BY DEF Stamp
<1>3. GrowthRows' = GrowthRows
  BY <1>1, <1>2 DEF GrowthRows, EdgeRows, InSpan
<1> QED
  BY <1>1, <1>2, <1>3 DEF Sample, IsFirst

\* The first rows found are first, and the last ones give the true growths.
LEMMA EdgesFound ==
  ASSUME Typed, Times, Tabled, ask \in Calls
  PROVE  LET early == RankEdge(db, TableOf(ask.chapter), GrowthRanks, "early", Span)
             late == RankEdge(db, TableOf(ask.chapter), GrowthRanks, "late", Span)
         IN /\ DOMAIN early = {r.rank : r \in GrowthRows}
            /\ DOMAIN late = {r.rank : r \in GrowthRows}
            /\ \A k \in DOMAIN early : \E r \in GrowthRows :
                 r.rank = k /\ IsFirst(r) /\ early[k] = Sample(r)
            /\ \A k \in DOMAIN late : \E f, l \in GrowthRows :
                 /\ f.rank = k /\ l.rank = k /\ IsFirst(f) /\ late[k] = Sample(l)
                 /\ \A q \in GrowthRows : q.rank = k => q.tid <= l.tid
                 /\ Stamp(db, f) # Stamp(db, l) =>
                      [rank |-> k, from |-> Stamp(db, f), upto |-> Stamp(db, l),
                       growth |-> l.score - f.score]
                        \in TrueGrowths(ask.chapter, GrowthRanks, Span)
<1> DEFINE early == RankEdge(db, TableOf(ask.chapter), GrowthRanks, "early", Span)
           late == RankEdge(db, TableOf(ask.chapter), GrowthRanks, "late", Span)
<1>1. EdgesOf(GrowthRows, early, "early") /\ EdgesOf(GrowthRows, late, "late")
  BY RankEdgeIs DEF GrowthRows
<1> HIDE DEF early, late
<1>2. DOMAIN early = {r.rank : r \in GrowthRows} /\ DOMAIN late = {r.rank : r \in GrowthRows}
  BY <1>1 DEF EdgesOf
<1>3. \A k \in DOMAIN early : \E r \in GrowthRows :
        r.rank = k /\ IsFirst(r) /\ early[k] = Sample(r)
  <2> TAKE k \in DOMAIN early
  <2>1. PICK r \in GrowthRows :
           /\ r.rank = k
           /\ early[k] = [ts |-> Stamp(db, r), score |-> r.score]
           /\ \A q \in GrowthRows : q.rank = k => r.tid <= q.tid
    BY <1>1 DEF EdgesOf
  <2> QED
    BY <2>1 DEF IsFirst, Sample
<1>4. ASSUME NEW k \in DOMAIN late
      PROVE  \E f, l \in GrowthRows :
               /\ f.rank = k /\ l.rank = k /\ IsFirst(f) /\ late[k] = Sample(l)
               /\ \A q \in GrowthRows : q.rank = k => q.tid <= l.tid
               /\ Stamp(db, f) # Stamp(db, l) =>
                    [rank |-> k, from |-> Stamp(db, f), upto |-> Stamp(db, l),
                     growth |-> l.score - f.score]
                      \in TrueGrowths(ask.chapter, GrowthRanks, Span)
  <2>1. k \in DOMAIN early
    BY <1>2
  <2>2. PICK f \in GrowthRows : f.rank = k /\ IsFirst(f)
    BY <1>3, <2>1
  <2>3. PICK l \in GrowthRows :
           /\ l.rank = k /\ late[k] = [ts |-> Stamp(db, l), score |-> l.score]
           /\ \A q \in GrowthRows : q.rank = k => q.tid <= l.tid
    BY <1>1 DEF EdgesOf
  <2>4. Stamp(db, f) # Stamp(db, l) =>
          [rank |-> k, from |-> Stamp(db, f), upto |-> Stamp(db, l),
           growth |-> l.score - f.score]
            \in TrueGrowths(ask.chapter, GrowthRanks, Span)
    <3> HAVE Stamp(db, f) # Stamp(db, l)
    <3>1. \A q \in GrowthRows : q.rank = l.rank => q.tid <= l.tid
      BY <2>3
    <3> QED
      BY <2>2, <2>3, <3>1, TrueGrowthIs
  <2> QED
    BY <2>2, <2>3, <2>4 DEF Sample
<1> QED
  BY <1>2, <1>3, <1>4 DEF early, late

LEMMA EarlyStep ==
  ASSUME Typed, Times, Tabled, Stages, GrowthInv, Edge("early")
  PROVE  GrowthInv'
<1> DEFINE found == RankEdge(db, TableOf(ask.chapter), GrowthRanks, "early", Span)
           due == {k \in GrowthRanks : Due(ask.chapter, k, Span)}
<1>1. /\ "early" \in call.todo /\ call'.todo = call.todo \ {"early"}
      /\ UNCHANGED <<db, ask, call.ranks, call.end, call.seen>>
      /\ call'.res.late = call.res.late
      /\ call'.due = IF "late" \in call.todo THEN due ELSE call.due
      /\ \/ call'.res.early = found /\ call'.failed = call.failed
         \/ call'.res.early = <<>> /\ call'.failed = TRUE
  BY EdgeIs
<1>2. /\ DOMAIN found = {r.rank : r \in GrowthRows}
      /\ \A k \in DOMAIN found : \E r \in GrowthRows :
           r.rank = k /\ IsFirst(r) /\ found[k] = Sample(r)
  BY EdgesFound DEF Stages
<1>3. /\ GrowthRows' = GrowthRows /\ GrowthRanks' = GrowthRanks
      /\ \A r : /\ Stamp(db, r)' = Stamp(db, r)
                /\ Sample(r)' = Sample(r)
                /\ IsFirst(r)' <=> IsFirst(r)
  BY <1>1, SameGrowthRows
<1>4. ask \in Calls /\ ("late" \in call.todo => call.res.late = None)
      /\ ("early" \in call.todo => call.res.early = None)
  BY DEF Stages
<1>5. \A k \in due : \E q, r \in GrowthRows :
        q.rank = k /\ r.rank = k /\ Stamp(db, q) # Stamp(db, r)
  BY <1>4, DueMeans
<1> HIDE DEF found, due
<1>6. \A k \in DOMAIN call'.res.early : \E r \in GrowthRows :
        r.rank = k /\ IsFirst(r) /\ call'.res.early[k] = Sample(r)
  BY <1>1, <1>2
<1>7. EarlyInv'
  BY <1>3, <1>6 DEF EarlyInv
<1>8. LateInv'
  BY <1>1, <1>3 DEF GrowthInv, LateInv
<1>9. DueInv'
  <2>1. "early" \notin call'.todo /\ ("late" \in call'.todo => "late" \in call.todo)
    BY <1>1
  <2>2. ASSUME "late" \in call.todo, ~call'.failed, NEW k \in call'.due
        PROVE  /\ k \in DOMAIN call'.res.early
               /\ \E r \in GrowthRows : r.rank = k /\ Stamp(db, r) # call'.res.early[k].ts
    <3>1. call'.res.early = found /\ k \in due
      BY <1>1, <2>2
    <3>2. PICK q \in GrowthRows, r \in GrowthRows :
             q.rank = k /\ r.rank = k /\ Stamp(db, q) # Stamp(db, r)
      BY <1>5, <3>1
    <3> QED
      BY <1>2, <3>1, <3>2
  <2> QED
    BY <1>3, <2>1, <2>2 DEF DueInv
<1>10. GrowthIsSnapshot'
  <2> SUFFICES ASSUME call'.res.early # None, call'.res.late # None
               PROVE  LET growths == Growths(GrowthRanks, call'.res.early, call'.res.late)
                      IN /\ growths \subseteq call'.seen
                         /\ call'.failed \/ \A k \in call'.due : \E g \in growths : g.rank = k
    BY <1>3 DEF GrowthIsSnapshot
  <2>1. call.res.late # None /\ "late" \notin call.todo /\ call'.due = call.due
    BY <1>1, <1>4
  <2> DEFINE growths == Growths(GrowthRanks, call'.res.early, call'.res.late)
  <2>2. \A k \in DOMAIN call'.res.late : \E f, l \in GrowthRows :
           /\ f.rank = k /\ l.rank = k /\ IsFirst(f) /\ call'.res.late[k] = Sample(l)
           /\ Stamp(db, f) # Stamp(db, l) =>
                [rank |-> k, from |-> Stamp(db, f), upto |-> Stamp(db, l),
                 growth |-> l.score - f.score] \in call'.seen
    BY <1>1, <2>1 DEF GrowthInv, LateInv
  <2>3. /\ growths \subseteq call'.seen
        /\ \A k \in GrowthRanks \cap DOMAIN call'.res.early \cap DOMAIN call'.res.late :
             call'.res.early[k].ts # call'.res.late[k].ts => \E g \in growths : g.rank = k
    <3> DEFINE early == call'.res.early  late == call'.res.late  seen == call'.seen
    <3>1. \A k \in DOMAIN early : \E r \in GrowthRows :
            r.rank = k /\ IsFirst(r) /\ early[k] = Sample(r)
      BY <1>6
    <3>2. \A k \in DOMAIN late : \E f, l \in GrowthRows :
            /\ f.rank = k /\ l.rank = k /\ IsFirst(f) /\ late[k] = Sample(l)
            /\ Stamp(db, f) # Stamp(db, l) =>
                 [rank |-> k, from |-> Stamp(db, f), upto |-> Stamp(db, l),
                  growth |-> l.score - f.score] \in seen
      BY <2>2
    <3> HIDE DEF early, late, seen
    <3>3. /\ Growths(GrowthRanks, early, late) \subseteq seen
          /\ \A k \in GrowthRanks \cap DOMAIN early \cap DOMAIN late :
               early[k].ts # late[k].ts => \E g \in Growths(GrowthRanks, early, late) : g.rank = k
      BY <1>4, <3>1, <3>2, GrowthsSeen
    <3> QED
      BY <3>3 DEF early, late, seen
  <2> HIDE DEF growths
  <2>4. ASSUME ~call'.failed, NEW k \in call'.due
        PROVE  \E g \in growths : g.rank = k
    <3>1. call'.res.early = found /\ ~call.failed
      BY <1>1, <2>4
    <3>2. PICK r \in GrowthRows :
             /\ k \in DOMAIN call.res.late
             /\ r.rank = k /\ IsFirst(r) /\ Stamp(db, r) # call.res.late[k].ts
      BY <1>1, <2>1, <2>4, <3>1 DEF GrowthInv, DueInv
    <3>3. k \in DOMAIN found
      BY <1>2, <3>2
    <3>4. PICK f \in GrowthRows : f.rank = k /\ IsFirst(f) /\ found[k] = Sample(f)
      BY <1>2, <3>3
    <3>5. f = r
      BY <1>4, <3>2, <3>4, OneFirst
    <3>6. found[k].ts = Stamp(db, r) /\ k \in GrowthRanks
      BY <1>4, <3>2, <3>4, <3>5, GrowthRowFacts DEF Sample
    <3> QED
      BY <1>1, <2>3, <3>1, <3>2, <3>3, <3>6
  <2> QED
    BY <2>3, <2>4 DEF growths
<1> QED
  BY <1>7, <1>8, <1>9, <1>10 DEF GrowthInv

LEMMA LateStep ==
  ASSUME Typed, Times, Tabled, Stages, GrowthInv, Edge("late")
  PROVE  GrowthInv'
<1> DEFINE found == RankEdge(db, TableOf(ask.chapter), GrowthRanks, "late", Span)
           due == {k \in GrowthRanks : Due(ask.chapter, k, Span)}
           seen == TrueGrowths(ask.chapter, GrowthRanks, Span)
<1>1. /\ "late" \in call.todo /\ call'.todo = call.todo \ {"late"}
      /\ UNCHANGED <<db, ask, call.ranks, call.end>>
      /\ call'.res.early = call.res.early
      /\ call'.due = IF "early" \in call.todo THEN due ELSE call.due
      /\ call'.seen = seen
      /\ \/ call'.res.late = found /\ call'.failed = call.failed
         \/ call'.res.late = <<>> /\ call'.failed = TRUE
  BY EdgeIs
<1>2. /\ DOMAIN found = {r.rank : r \in GrowthRows}
      /\ \A k \in DOMAIN found : \E f, l \in GrowthRows :
           /\ f.rank = k /\ l.rank = k /\ IsFirst(f) /\ found[k] = Sample(l)
           /\ \A q \in GrowthRows : q.rank = k => q.tid <= l.tid
           /\ Stamp(db, f) # Stamp(db, l) =>
                [rank |-> k, from |-> Stamp(db, f), upto |-> Stamp(db, l),
                 growth |-> l.score - f.score] \in seen
  BY EdgesFound DEF Stages
<1>3. /\ GrowthRows' = GrowthRows /\ GrowthRanks' = GrowthRanks
      /\ \A r : /\ Stamp(db, r)' = Stamp(db, r)
                /\ Sample(r)' = Sample(r)
                /\ IsFirst(r)' <=> IsFirst(r)
  BY <1>1, SameGrowthRows
<1>4. ask \in Calls /\ ("late" \in call.todo => call.res.late = None)
      /\ ("early" \in call.todo => call.res.early = None)
  BY DEF Stages
<1>5. \A k \in due : \E q, r \in GrowthRows :
        q.rank = k /\ r.rank = k /\ Stamp(db, q) # Stamp(db, r)
  BY <1>4, DueMeans
<1> HIDE DEF found, due, seen
<1>6. \A k \in DOMAIN call'.res.late : \E f, l \in GrowthRows :
        /\ f.rank = k /\ l.rank = k /\ IsFirst(f) /\ call'.res.late[k] = Sample(l)
        /\ Stamp(db, f) # Stamp(db, l) =>
             [rank |-> k, from |-> Stamp(db, f), upto |-> Stamp(db, l),
              growth |-> l.score - f.score] \in call'.seen
  <2>1. CASE call'.res.late = found
    BY <1>1, <1>2, <2>1
  <2>2. CASE call'.res.late = <<>>
    BY <2>2
  <2> QED
    BY <1>1, <2>1, <2>2
<1>7. EarlyInv'
  <2>1. call.res.early # None =>
          \A k \in DOMAIN call'.res.early : \E r \in GrowthRows :
            r.rank = k /\ IsFirst(r) /\ call'.res.early[k] = Sample(r)
    BY <1>1 DEF GrowthInv, EarlyInv
  <2> QED
    BY <1>1, <1>3, <2>1 DEF EarlyInv
<1>8. LateInv'
  <2> SUFFICES ASSUME NEW k \in DOMAIN call'.res.late
               PROVE  (\E f, l \in GrowthRows :
                 /\ f.rank = k /\ l.rank = k /\ IsFirst(f) /\ call.res.late[k] = Sample(l)
                 /\ Stamp(db, f) # Stamp(db, l) =>
                      [rank |-> k, from |-> Stamp(db, f), upto |-> Stamp(db, l),
                       growth |-> l.score - f.score] \in call.seen)'
    BY DEF LateInv
  <2> QED
    BY <1>3, <1>6
\* The two samples of a rank with two differ.
<1>9. ASSUME NEW k \in DOMAIN found, NEW q \in GrowthRows, NEW r \in GrowthRows,
             q.rank = k, r.rank = k, Stamp(db, q) # Stamp(db, r)
      PROVE  \E f \in GrowthRows : f.rank = k /\ IsFirst(f) /\ Stamp(db, f) # found[k].ts
  <2>1. PICK f \in GrowthRows, l \in GrowthRows :
           /\ f.rank = k /\ l.rank = k /\ IsFirst(f) /\ found[k] = Sample(l)
           /\ \A p \in GrowthRows : p.rank = k => p.tid <= l.tid
    BY <1>2
  <2>2. /\ q.tid \in Nat /\ r.tid \in Nat /\ f.tid \in Nat /\ l.tid \in Nat
        /\ q.tid # r.tid
    BY <1>4, <1>9, GrowthRowFacts
  <2>3. f.tid <= q.tid /\ f.tid <= r.tid /\ q.tid <= l.tid /\ r.tid <= l.tid
    BY <1>9, <2>1 DEF IsFirst
  <2>4. f.tid # l.tid
    BY <2>2, <2>3
  <2>5. Stamp(db, f) # Stamp(db, l)
    BY <1>4, <2>4, GrowthRowFacts
  <2> QED
    BY <2>1, <2>5 DEF Sample
<1>10. DueInv'
  <2>1. "late" \notin call'.todo /\ ("early" \in call'.todo => "early" \in call.todo)
    BY <1>1
  <2>2. ASSUME "early" \in call.todo, ~call'.failed, NEW k \in call'.due
        PROVE  /\ k \in DOMAIN call'.res.late
               /\ \E r \in GrowthRows :
                    r.rank = k /\ IsFirst(r) /\ Stamp(db, r) # call'.res.late[k].ts
    <3>1. call'.res.late = found /\ k \in due
      BY <1>1, <2>2
    <3>2. PICK q \in GrowthRows, r \in GrowthRows :
             q.rank = k /\ r.rank = k /\ Stamp(db, q) # Stamp(db, r)
      BY <1>5, <3>1
    <3>3. k \in DOMAIN found
      BY <1>2, <3>2
    <3> QED
      BY <1>9, <3>1, <3>2, <3>3
  <2> QED
    BY <1>3, <2>1, <2>2 DEF DueInv
<1>11. GrowthIsSnapshot'
  <2> SUFFICES ASSUME call'.res.early # None, call'.res.late # None
               PROVE  LET growths == Growths(GrowthRanks, call'.res.early, call'.res.late)
                      IN /\ growths \subseteq call'.seen
                         /\ call'.failed \/ \A k \in call'.due : \E g \in growths : g.rank = k
    BY <1>3 DEF GrowthIsSnapshot
  <2>1. call.res.early # None /\ "early" \notin call.todo /\ call'.due = call.due
    BY <1>1, <1>4
  <2> DEFINE growths == Growths(GrowthRanks, call'.res.early, call'.res.late)
  <2>2. \A k \in DOMAIN call'.res.early : \E r \in GrowthRows :
          r.rank = k /\ IsFirst(r) /\ call'.res.early[k] = Sample(r)
    BY <1>1, <2>1 DEF GrowthInv, EarlyInv
  <2>3. /\ growths \subseteq call'.seen
        /\ \A k \in GrowthRanks \cap DOMAIN call'.res.early \cap DOMAIN call'.res.late :
             call'.res.early[k].ts # call'.res.late[k].ts => \E g \in growths : g.rank = k
    <3> DEFINE early == call'.res.early  late == call'.res.late  listed == call'.seen
    <3>1. \A k \in DOMAIN early : \E r \in GrowthRows :
            r.rank = k /\ IsFirst(r) /\ early[k] = Sample(r)
      BY <2>2
    <3>2. \A k \in DOMAIN late : \E f, l \in GrowthRows :
            /\ f.rank = k /\ l.rank = k /\ IsFirst(f) /\ late[k] = Sample(l)
            /\ Stamp(db, f) # Stamp(db, l) =>
                 [rank |-> k, from |-> Stamp(db, f), upto |-> Stamp(db, l),
                  growth |-> l.score - f.score] \in listed
      BY <1>6
    <3> HIDE DEF early, late, listed
    <3>3. /\ Growths(GrowthRanks, early, late) \subseteq listed
          /\ \A k \in GrowthRanks \cap DOMAIN early \cap DOMAIN late :
               early[k].ts # late[k].ts => \E g \in Growths(GrowthRanks, early, late) : g.rank = k
      BY <1>4, <3>1, <3>2, GrowthsSeen
    <3> QED
      BY <3>3 DEF early, late, listed
  <2> HIDE DEF growths
  <2>4. ASSUME ~call'.failed, NEW k \in call'.due
        PROVE  \E g \in growths : g.rank = k
    <3>1. call'.res.late = found /\ ~call.failed
      BY <1>1, <2>4
    <3>2. PICK r \in GrowthRows :
             /\ k \in DOMAIN call.res.early
             /\ r.rank = k /\ Stamp(db, r) # call.res.early[k].ts
      BY <1>1, <2>1, <2>4, <3>1 DEF GrowthInv, DueInv
    <3>3. PICK f \in GrowthRows : f.rank = k /\ IsFirst(f) /\ call.res.early[k] = Sample(f)
      BY <2>1, <3>2 DEF GrowthInv, EarlyInv
    <3>4. k \in DOMAIN found /\ Stamp(db, r) # Stamp(db, f)
      BY <1>2, <3>2, <3>3 DEF Sample
    <3>5. PICK g \in GrowthRows : g.rank = k /\ IsFirst(g) /\ Stamp(db, g) # found[k].ts
      BY <1>9, <3>2, <3>3, <3>4
    <3>6. g = f
      BY <1>4, <3>3, <3>5, OneFirst
    <3>7. call'.res.early[k].ts # call'.res.late[k].ts /\ k \in GrowthRanks
      BY <1>1, <1>4, <3>1, <3>3, <3>5, <3>6, GrowthRowFacts DEF Sample
    <3> QED
      BY <1>1, <2>3, <3>1, <3>2, <3>4, <3>7
  <2> QED
    BY <2>3, <2>4 DEF growths
<1> QED
  BY <1>7, <1>8, <1>10, <1>11 DEF GrowthInv

LEMMA GrowthStep ==
  ASSUME Typed, Times, Tabled, Stages, GrowthInv, [Next]_vars
  PROVE  GrowthInv'
<1>1. CASE (call.res.early = None)' /\ (call.res.late = None)'
  BY <1>1 DEF GrowthInv, EarlyInv, LateInv, DueInv, GrowthIsSnapshot
<1>2. CASE /\ UNCHANGED <<call.res.early, call.res.late, call.ranks, call.end, call.due,
                          call.seen>>
           /\ call'.todo \cap {"early", "late"} = call.todo \cap {"early", "late"}
           /\ call.failed => call'.failed
  <2>1. UNCHANGED ask
    BY GrowthUntouched
  <2> QED
    BY <1>2, <2>1, GrowthKept
<1>3. CASE \E e \in {"early", "late"} : Edge(e)
  BY <1>3, EarlyStep, LateStep
<1> QED
  BY <1>1, <1>2, <1>3, GrowthUntouched

Inv == Typed /\ Times /\ Tabled /\ Stages /\ GrowthInv

\* The growths of an answer are those of the table at one moment, although its
\* first and its last scores are read by two queries, in either order, while the
\* tracker writes (fetch_growths); none that was due is missing unless a query failed.
THEOREM GrowthsAreOfOneMoment == Spec => []GrowthIsSnapshot
<1>1. Init => Inv
  BY InitTimes, InitTabled, InitStages, InitGrowth DEF Inv
<1>2. Inv /\ [Next]_vars => Inv'
  BY TypedStep, TimesStep, TablesStep, StagesStep, GrowthStep DEF Inv
<1>3. Inv => GrowthIsSnapshot
  BY DEF Inv, GrowthInv
<1> QED
  BY <1>1, <1>2, <1>3, PTL DEF Spec

-----------------------------------------------------------------------------
(* The tables are finite.  *)

Finite == IsFiniteSet(db.rows) /\ IsFiniteSet(db.wl) /\ IsFiniteSet(db.users)

LEMMA ImageFinite ==
  ASSUME NEW S, IsFiniteSet(S), NEW f, DOMAIN f = S
  PROVE  IsFiniteSet({f[x] : x \in S})
<1> DEFINE T == {f[x] : x \in S}
           g == [x \in S |-> f[x]]
<1>1. g \in Surjection(S, T)
  BY DEF Surjection
<1> QED
  BY <1>1, FS_Surjection

LEMMA ChangedFinite ==
  ASSUME Typed, tick.phase \in {"main", "chapters"}
  PROVE  /\ IsFiniteSet(ChangedRanks(Payloads[tick.data].main))
         /\ IsFiniteSet(ChangedPlayers(Payloads[tick.data].wl))
<1> DEFINE main == Payloads[tick.data].main
           wl == Payloads[tick.data].wl
<1>1. IsFiniteSet(DOMAIN main) /\ \A c \in Chapters : IsFiniteSet(DOMAIN wl[c])
  BY PayloadsAssumption DEF Typed, Ticks, IsBoard
<1>2. IsFiniteSet(ChangedRanks(main))
  BY <1>1, FS_Subset DEF ChangedRanks
<1> DEFINE Rec(c) == [k \in DOMAIN wl[c] |->
                        [chapter |-> c, key |-> wl[c][k].key, score |-> wl[c][k].score,
                         rank |-> k]]
           All(c) == {Rec(c)[k] : k \in DOMAIN wl[c]}
           F == [c \in Chapters |-> All(c)]
<1>3. \A c \in Chapters : IsFiniteSet(All(c))
  <2> TAKE c \in Chapters
  <2> DEFINE f == Rec(c)
  <2>1. IsFiniteSet(DOMAIN wl[c]) /\ DOMAIN f = DOMAIN wl[c]
    BY <1>1
  <2> HIDE DEF f
  <2>2. IsFiniteSet({f[k] : k \in DOMAIN wl[c]})
    BY <2>1, ImageFinite
  <2> QED
    BY <2>2 DEF f
<1>4. IsFiniteSet({F[c] : c \in Chapters})
  <2>1. DOMAIN F = Chapters
    OBVIOUS
  <2> HIDE DEF F
  <2> QED
    BY <2>1, ImageFinite, ChaptersAssumption
<1>5. \A T \in {F[c] : c \in Chapters} : IsFiniteSet(T)
  BY <1>3
<1>6. IsFiniteSet(UNION {F[c] : c \in Chapters})
  BY <1>4, <1>5, FS_UNION
<1>7. ChangedPlayers(wl) \subseteq UNION {F[c] : c \in Chapters}
  <2> SUFFICES ASSUME NEW r \in ChangedPlayers(wl)
               PROVE  r \in UNION {F[c] : c \in Chapters}
    OBVIOUS
  <2>1. PICK c \in Chapters : \E k \in DOMAIN wl[c] :
           r = [chapter |-> c, key |-> wl[c][k].key, score |-> wl[c][k].score, rank |-> k]
    BY DEF ChangedPlayers
  <2>2. r \in All(c)
    BY <2>1
  <2>3. F[c] = All(c)
    OBVIOUS
  <2> HIDE DEF F, All
  <2> QED
    BY <2>2, <2>3
<1> HIDE DEF F
<1>8. IsFiniteSet(ChangedPlayers(wl))
  BY <1>6, <1>7, FS_Subset
<1> QED
  BY <1>2, <1>8

LEMMA InitFinite == Init => Finite
BY FS_EmptySet DEF Init, Finite

LEMMA FiniteStep ==
  ASSUME Typed, Finite, [Next]_vars
  PROVE  Finite'
<1>1. CASE LandMain
  <2> DEFINE changed == ChangedRanks(Payloads[tick.data].main)
             board == Payloads[tick.data].main
  <2>1. CASE db' = db
    BY <2>1 DEF Finite
  <2>2. ASSUME NEW t \in Nat,
               db'.rows = db.rows \cup
                 {[tid |-> t, key |-> board[k].key, rank |-> k, score |-> board[k].score] :
                    k \in changed},
               db'.wl = db.wl,
               db'.users = db.users \cup {board[k].key : k \in changed}
        PROVE  Finite'
    <3> DEFINE row == [k \in changed |-> [tid |-> t, key |-> board[k].key, rank |-> k,
                                          score |-> board[k].score]]
               key == [k \in changed |-> board[k].key]
    <3>1. IsFiniteSet(changed)
      BY <1>1, ChangedFinite DEF LandMain
    <3>2. /\ db'.rows = db.rows \cup {row[k] : k \in changed}
          /\ db'.users = db.users \cup {key[k] : k \in changed}
          /\ DOMAIN row = changed /\ DOMAIN key = changed
      BY <2>2
    <3> HIDE DEF row, key, changed
    <3>3. IsFiniteSet({row[k] : k \in changed}) /\ IsFiniteSet({key[k] : k \in changed})
      BY <3>1, <3>2, ImageFinite
    <3>4. IsFiniteSet(db.rows) /\ IsFiniteSet(db.users)
      BY DEF Finite
    <3>5. IsFiniteSet(db.rows \cup {row[k] : k \in changed})
      BY <3>3, <3>4, FS_Union
    <3>6. IsFiniteSet(db.users \cup {key[k] : k \in changed})
      BY <3>3, <3>4, FS_Union
    <3>7. IsFiniteSet(db'.rows) /\ IsFiniteSet(db'.users)
      BY <3>2, <3>5, <3>6
    <3> QED
      BY <2>2, <3>7 DEF Finite
  <2> QED
    BY <1>1, <2>1, <2>2, LandMainIs, Zenon
<1>2. CASE LandChapters
  <2> DEFINE changed == ChangedPlayers(Payloads[tick.data].wl)
  <2>1. CASE db'.rows = db.rows /\ db'.wl = db.wl /\ db'.users = db.users
    BY <2>1 DEF Finite
  <2>2. ASSUME NEW t \in Nat,
               db'.rows = db.rows,
               db'.wl = db.wl \cup
                 {[tid |-> t, key |-> r.key, rank |-> r.rank, score |-> r.score,
                   chapter |-> r.chapter] : r \in changed},
               db'.users = db.users \cup {r.key : r \in changed}
        PROVE  Finite'
    <3> DEFINE row == [r \in changed |-> [tid |-> t, key |-> r.key, rank |-> r.rank,
                                          score |-> r.score, chapter |-> r.chapter]]
               key == [r \in changed |-> r.key]
    <3>1. IsFiniteSet(changed)
      BY <1>2, ChangedFinite DEF LandChapters
    <3>2. /\ db'.wl = db.wl \cup {row[k] : k \in changed}
          /\ db'.users = db.users \cup {key[k] : k \in changed}
          /\ DOMAIN row = changed /\ DOMAIN key = changed
      BY <2>2
    <3> HIDE DEF row, key, changed
    <3>3. IsFiniteSet({row[k] : k \in changed}) /\ IsFiniteSet({key[k] : k \in changed})
      BY <3>1, <3>2, ImageFinite
    <3>4. IsFiniteSet(db.wl) /\ IsFiniteSet(db.users)
      BY DEF Finite
    <3>5. IsFiniteSet(db.wl \cup {row[k] : k \in changed})
      BY <3>3, <3>4, FS_Union
    <3>6. IsFiniteSet(db.users \cup {key[k] : k \in changed})
      BY <3>3, <3>4, FS_Union
    <3>7. IsFiniteSet(db'.wl) /\ IsFiniteSet(db'.users)
      BY <3>2, <3>5, <3>6
    <3> QED
      BY <2>2, <3>7 DEF Finite
  <2> QED
    BY <1>2, <2>1, <2>2, LandChaptersIs, Zenon
<1>3. CASE FetchFails \/ LandFails
  <2>1. db'.rows = db.rows /\ db'.wl = db.wl
    BY <1>3, FailuresAre
  <2>2. IsFiniteSet(db'.users)
    <3>1. CASE FetchFails
      BY <3>1 DEF FetchFails, Heartbeat, Finite, Typed, Tables
    <3>2. CASE LandFails
      <4> DEFINE board == Payloads[tick.data].main
                 M == {board[k].key : k \in ChangedRanks(board)}
                 C == ChangedPlayers(Payloads[tick.data].wl)
                 W == {r.key : r \in C}
                 main == [k \in ChangedRanks(board) |-> board[k].key]
                 chapters == [r \in C |-> r.key]
      <4>1. IsFiniteSet(ChangedRanks(board)) /\ IsFiniteSet(C)
        BY <3>2, ChangedFinite DEF LandFails
      <4>2. M = {main[k] : k \in ChangedRanks(board)} /\ W = {chapters[r] : r \in C}
            /\ DOMAIN main = ChangedRanks(board) /\ DOMAIN chapters = C
        OBVIOUS
      <4>3. db' \in {db, [db EXCEPT !.users = @ \cup
                            (IF tick.phase = "main" THEN M ELSE W)]}
        BY <3>2, Zenon DEF LandFails
      <4> HIDE DEF main, chapters, M, W, C
      <4>4. IsFiniteSet(M) /\ IsFiniteSet(W)
        BY <4>1, <4>2, ImageFinite
      <4>5. IsFiniteSet(db.users \cup M) /\ IsFiniteSet(db.users \cup W)
        BY <4>4, FS_Union DEF Finite
      <4>6. db'.users \in {db.users, db.users \cup M, db.users \cup W}
        BY <4>3 DEF Typed, Tables
      <4> QED
        BY <4>5, <4>6 DEF Finite
    <3> QED
      BY <1>3, <3>1, <3>2
  <2> QED
    BY <2>1, <2>2 DEF Finite
<1>4. CASE UNCHANGED db
  BY <1>4 DEF Finite
<1> QED
  BY <1>1, <1>2, <1>3, <1>4, OtherSteps

-----------------------------------------------------------------------------
(* Orders and pages.  *)

\* below[x]: the elements of S before x.
StrictOrder(S, below) ==
  /\ below \in [S -> SUBSET S]
  /\ \A x \in S : x \notin below[x]
  /\ \A x, y \in S : x \in below[y] => below[x] \subseteq below[y]
  /\ \A x, y \in S : x = y \/ x \in below[y] \/ y \in below[x]

\* A sequence that has the whole of S in that order.
Sorting(S, below, seq) ==
  /\ IsFiniteSet(S) /\ seq \in Seq(S) /\ Len(seq) = Cardinality(S)
  /\ \A r \in S : \E i \in 1..Len(seq) : seq[i] = r
  /\ \A i, j \in 1..Len(seq) : i < j => seq[i] \in below[seq[j]]

LEMMA SeqOfLength ==
  ASSUME NEW S, NEW n \in Nat, NEW seq \in [1..n -> S]
  PROVE  seq \in Seq(S) /\ Len(seq) = n
<1>1. seq \in Seq(S)
  BY SeqDef, Zenon
<1>2. Len(seq) \in Nat /\ DOMAIN seq = 1..Len(seq)
  BY <1>1, LenProperties
<1>3. DOMAIN seq = 1..n
  OBVIOUS
<1>4. n \in 1..Len(seq) \/ n = 0
  BY <1>2, <1>3
<1>5. Len(seq) \in 1..n \/ Len(seq) = 0
  BY <1>2, <1>3
<1> QED
  BY <1>1, <1>2, <1>4, <1>5

\* The number of elements before it is the place of an element.
LEMMA PlacesSort ==
  ASSUME NEW S, IsFiniteSet(S), NEW below, StrictOrder(S, below),
         NEW seq, seq = [i \in 1..Cardinality(S) |-> seq[i]],
         \A i \in 1..Cardinality(S) : \A r \in S : Cardinality(below[r]) = i - 1 =>
           seq[i] \in S /\ Cardinality(below[seq[i]]) = i - 1
  PROVE  Sorting(S, below, seq)
<1> DEFINE n == Cardinality(S)
           place == [r \in S |-> Cardinality(below[r]) + 1]
<1>1. n \in Nat
  BY FS_CardinalityType
<1>2. ASSUME NEW r \in S
      PROVE  place[r] \in 1..n /\ IsFiniteSet(below[r]) /\ Cardinality(below[r]) \in Nat
  <2>1. below[r] \in SUBSET S /\ below[r] # S
    BY DEF StrictOrder
  <2>2. IsFiniteSet(below[r]) /\ Cardinality(below[r]) <= n /\ Cardinality(below[r]) # n
    BY <2>1, FS_Subset
  <2>3. Cardinality(below[r]) \in Nat
    BY <2>2, FS_CardinalityType
  <2> QED
    BY <1>1, <2>2, <2>3
<1>3. ASSUME NEW x \in S, NEW y \in S, x \in below[y]
      PROVE  place[x] < place[y]
  <2>1. below[x] \in SUBSET below[y] /\ below[x] # below[y]
    BY <1>3 DEF StrictOrder
  <2>2. Cardinality(below[x]) <= Cardinality(below[y])
        /\ Cardinality(below[x]) # Cardinality(below[y])
    BY <1>2, <2>1, FS_Subset
  <2> QED
    BY <1>2, <2>2
<1>4. place \in Injection(S, 1..n)
  <2>1. place \in [S -> 1..n]
    BY <1>2
  <2>2. \A x, y \in S : place[x] = place[y] => x = y
    <3> SUFFICES ASSUME NEW x \in S, NEW y \in S, x # y
                 PROVE  place[x] # place[y]
      OBVIOUS
    <3>1. place[x] \in Int /\ place[y] \in Int
      BY <2>1
    <3>2. x \in below[y] \/ y \in below[x]
      BY DEF StrictOrder
    <3> HIDE DEF place
    <3> QED
      BY <1>3, <3>1, <3>2
  <2> HIDE DEF place
  <2> QED
    BY <2>1, <2>2 DEF Injection, IsInjective
<1>5. IsFiniteSet(1..n) /\ Cardinality(1..n) = n
  BY <1>1, FS_Interval
<1>6. place \in Surjection(S, 1..n)
  <2> HIDE DEF place
  <2> QED
    BY <1>4, <1>5, FS_Injection, Zenon
<1>7. ASSUME NEW i \in 1..n
      PROVE  seq[i] \in S /\ place[seq[i]] = i
  <2>1. PICK r \in S : place[r] = i
    <3> HIDE DEF place
    <3> QED
      BY <1>6 DEF Surjection
  <2>2. Cardinality(below[r]) = i - 1
    BY <1>2, <2>1
  <2>3. seq[i] \in S /\ Cardinality(below[seq[i]]) = i - 1
    BY <2>2
  <2> QED
    BY <1>2, <2>3
<1> HIDE DEF place
<1>8. seq \in Seq(S) /\ Len(seq) = n
  <2>1. seq \in [1..n -> S]
    BY <1>7
  <2> HIDE DEF n
  <2> QED
    BY <1>1, <2>1, SeqOfLength, Zenon
<1>9. ASSUME NEW r \in S
      PROVE  \E i \in 1..Len(seq) : seq[i] = r
  <2>1. place[r] \in 1..n
    BY <1>2
  <2>2. place[seq[place[r]]] = place[r] /\ seq[place[r]] \in S
    BY <1>7, <2>1
  <2>3. seq[place[r]] = r
    BY <1>4, <2>2 DEF Injection, IsInjective
  <2> QED
    BY <1>8, <2>1, <2>3
<1>10. ASSUME NEW i \in 1..Len(seq), NEW j \in 1..Len(seq), i < j
       PROVE  seq[i] \in below[seq[j]]
  <2>1. /\ i \in 1..n /\ j \in 1..n
        /\ seq[i] \in S /\ seq[j] \in S /\ place[seq[i]] = i /\ place[seq[j]] = j
    BY <1>7, <1>8
  <2>2. ~(seq[j] \in below[seq[i]])
    <3> SUFFICES ASSUME seq[j] \in below[seq[i]] PROVE FALSE
      OBVIOUS
    <3>1. place[seq[j]] < place[seq[i]]
      BY <1>3, <2>1
    <3> QED
      BY <1>10, <2>1, <3>1
  <2>3. seq[i] # seq[j]
    <3>1. i # j
      BY <1>1, <1>10, <2>1
    <3> QED
      BY <2>1, <3>1
  <2> QED
    BY <2>1, <2>2, <2>3 DEF StrictOrder
<1> QED
  BY <1>8, <1>9, <1>10 DEF Sorting

\* seq has all of S, and nothing else.
Lists(S, seq) == seq \in Seq(S) /\ \A r \in S : \E i \in 1..Len(seq) : seq[i] = r

IsTable(T) ==
  Keyed(T) /\ \A r \in T : r.tid \in Nat /\ r.rank \in Nat /\ r.key \in Nat

\* ORDER BY rank, user_id_key; of one row for each rank.
LEMMA OrderedByRank ==
  ASSUME NEW T, IsTable(T), NEW S \in SUBSET T, IsFiniteSet(S),
         \A q, r \in S : q.rank = r.rank => q = r
  PROVE  /\ Lists(S, Ordered(S, ByRank))
         /\ \A i, j \in 1..Len(Ordered(S, ByRank)) :
              i < j => ByRank(Ordered(S, ByRank)[i], Ordered(S, ByRank)[j])
<1> DEFINE below == [r \in S |-> {q \in S : ByRank(q, r)}]
           seq == Ordered(S, ByRank)
<1>1. \A r \in S : r.rank \in Nat /\ r.key \in Nat
  BY DEF IsTable
<1>2. StrictOrder(S, below)
  BY <1>1 DEF StrictOrder, ByRank
<1> DEFINE At(r, i) == Cardinality({q \in S : ByRank(q, r)}) = i - 1
<1>3. seq = [i \in 1..Cardinality(S) |-> CHOOSE r \in S : At(r, i)]
  BY DEF Ordered
<1>4. \A r \in S : below[r] = {q \in S : ByRank(q, r)}
  OBVIOUS
<1>5. \A r \in S : \A i : At(r, i) <=> Cardinality(below[r]) = i - 1
  BY <1>4
<1>6. \A q, r \in S : q \in below[r] => ByRank(q, r)
  BY <1>4
<1> HIDE DEF below, seq, At
<1>7. /\ seq = [i \in 1..Cardinality(S) |-> seq[i]]
      /\ \A i \in 1..Cardinality(S) : \A r \in S : At(r, i) => seq[i] \in S /\ At(seq[i], i)
  BY <1>3
<1>8. \A i \in 1..Cardinality(S) : \A r \in S : Cardinality(below[r]) = i - 1 =>
        seq[i] \in S /\ Cardinality(below[seq[i]]) = i - 1
  BY <1>5, <1>7
<1>9. Sorting(S, below, seq)
  BY <1>2, <1>7, <1>8, PlacesSort
<1>10. Lists(S, seq) /\ \A i, j \in 1..Len(seq) : i < j => ByRank(seq[i], seq[j])
  <2>1. Lists(S, seq)
    BY <1>9 DEF Sorting, Lists
  <2>2. \A i \in 1..Len(seq) : seq[i] \in S
    BY <1>9, ElementOfSeq DEF Sorting
  <2> QED
    BY <1>6, <1>9, <2>1, <2>2 DEF Sorting
<1> QED
  BY <1>10 DEF seq

\* ORDER BY time_id DESC, rank, user_id_key.
LEMMA OrderedByMoment ==
  ASSUME NEW T, IsTable(T), NEW S \in SUBSET T, IsFiniteSet(S)
  PROVE  /\ Lists(S, Ordered(S, ByMoment))
         /\ \A i, j \in 1..Len(Ordered(S, ByMoment)) :
              i < j => ByMoment(Ordered(S, ByMoment)[i], Ordered(S, ByMoment)[j])
<1> DEFINE below == [r \in S |-> {q \in S : ByMoment(q, r)}]
           seq == Ordered(S, ByMoment)
<1>1. /\ \A r \in S : r.tid \in Nat /\ r.rank \in Nat /\ r.key \in Nat
      /\ \A q, r \in S : q.tid = r.tid /\ (q.rank = r.rank \/ q.key = r.key) => q = r
  BY DEF IsTable, Keyed
<1>2. StrictOrder(S, below)
  BY <1>1 DEF StrictOrder, ByMoment, ByRank
<1> DEFINE At(r, i) == Cardinality({q \in S : ByMoment(q, r)}) = i - 1
<1>3. seq = [i \in 1..Cardinality(S) |-> CHOOSE r \in S : At(r, i)]
  BY DEF Ordered
<1>4. \A r \in S : below[r] = {q \in S : ByMoment(q, r)}
  OBVIOUS
<1>5. \A r \in S : \A i : At(r, i) <=> Cardinality(below[r]) = i - 1
  BY <1>4
<1>6. \A q, r \in S : q \in below[r] => ByMoment(q, r)
  BY <1>4
<1> HIDE DEF below, seq, At
<1>7. /\ seq = [i \in 1..Cardinality(S) |-> seq[i]]
      /\ \A i \in 1..Cardinality(S) : \A r \in S : At(r, i) => seq[i] \in S /\ At(seq[i], i)
  BY <1>3
<1>8. \A i \in 1..Cardinality(S) : \A r \in S : Cardinality(below[r]) = i - 1 =>
        seq[i] \in S /\ Cardinality(below[seq[i]]) = i - 1
  BY <1>5, <1>7
<1>9. Sorting(S, below, seq)
  BY <1>2, <1>7, <1>8, PlacesSort
<1>10. Lists(S, seq) /\ \A i, j \in 1..Len(seq) : i < j => ByMoment(seq[i], seq[j])
  <2>1. Lists(S, seq)
    BY <1>9 DEF Sorting, Lists
  <2>2. \A i \in 1..Len(seq) : seq[i] \in S
    BY <1>9, ElementOfSeq DEF Sorting
  <2> QED
    BY <1>6, <1>9, <2>1, <2>2 DEF Sorting
<1> QED
  BY <1>10 DEF seq

\* ORDER BY time_id, user_id_key.
LEMMA OrderedByTime ==
  ASSUME NEW T, IsTable(T), NEW S \in SUBSET T, IsFiniteSet(S)
  PROVE  /\ Lists(S, Ordered(S, ByTime))
         /\ \A i, j \in 1..Len(Ordered(S, ByTime)) :
              i < j => ByTime(Ordered(S, ByTime)[i], Ordered(S, ByTime)[j])
<1> DEFINE below == [r \in S |-> {q \in S : ByTime(q, r)}]
           seq == Ordered(S, ByTime)
<1>1. /\ \A r \in S : r.tid \in Nat /\ r.rank \in Nat /\ r.key \in Nat
      /\ \A q, r \in S : q.tid = r.tid /\ (q.rank = r.rank \/ q.key = r.key) => q = r
  BY DEF IsTable, Keyed
<1>2. StrictOrder(S, below)
  BY <1>1 DEF StrictOrder, ByTime
<1> DEFINE At(r, i) == Cardinality({q \in S : ByTime(q, r)}) = i - 1
<1>3. seq = [i \in 1..Cardinality(S) |-> CHOOSE r \in S : At(r, i)]
  BY DEF Ordered
<1>4. \A r \in S : below[r] = {q \in S : ByTime(q, r)}
  OBVIOUS
<1>5. \A r \in S : \A i : At(r, i) <=> Cardinality(below[r]) = i - 1
  BY <1>4
<1>6. \A q, r \in S : q \in below[r] => ByTime(q, r)
  BY <1>4
<1> HIDE DEF below, seq, At
<1>7. /\ seq = [i \in 1..Cardinality(S) |-> seq[i]]
      /\ \A i \in 1..Cardinality(S) : \A r \in S : At(r, i) => seq[i] \in S /\ At(seq[i], i)
  BY <1>3
<1>8. \A i \in 1..Cardinality(S) : \A r \in S : Cardinality(below[r]) = i - 1 =>
        seq[i] \in S /\ Cardinality(below[seq[i]]) = i - 1
  BY <1>5, <1>7
<1>9. Sorting(S, below, seq)
  BY <1>2, <1>7, <1>8, PlacesSort
<1>10. Lists(S, seq) /\ \A i, j \in 1..Len(seq) : i < j => ByTime(seq[i], seq[j])
  <2>1. Lists(S, seq)
    BY <1>9 DEF Sorting, Lists
  <2>2. \A i \in 1..Len(seq) : seq[i] \in S
    BY <1>9, ElementOfSeq DEF Sorting
  <2> QED
    BY <1>6, <1>9, <2>1, <2>2 DEF Sorting
<1> QED
  BY <1>10 DEF seq

KeyBefore(a, b) == a.key < b.key

\* ORDER BY user_id_key.
LEMMA OrderedByKey ==
  ASSUME NEW U \in SUBSET Nat, NEW S \in SUBSET {[key |-> u] : u \in U}, IsFiniteSet(S)
  PROVE  /\ Lists(S, Ordered(S, KeyBefore))
         /\ \A i, j \in 1..Len(Ordered(S, KeyBefore)) :
              i < j => KeyBefore(Ordered(S, KeyBefore)[i], Ordered(S, KeyBefore)[j])
<1> DEFINE below == [r \in S |-> {q \in S : KeyBefore(q, r)}]
           seq == Ordered(S, KeyBefore)
<1>1. \A r \in S : r.key \in Nat /\ r = [key |-> r.key]
  OBVIOUS
<1>2. StrictOrder(S, below)
  BY <1>1 DEF StrictOrder, KeyBefore
<1> DEFINE At(r, i) == Cardinality({q \in S : KeyBefore(q, r)}) = i - 1
<1>3. seq = [i \in 1..Cardinality(S) |-> CHOOSE r \in S : At(r, i)]
  BY DEF Ordered
<1>4. \A r \in S : below[r] = {q \in S : KeyBefore(q, r)}
  OBVIOUS
<1>5. \A r \in S : \A i : At(r, i) <=> Cardinality(below[r]) = i - 1
  BY <1>4
<1>6. \A q, r \in S : q \in below[r] => KeyBefore(q, r)
  BY <1>4
<1> HIDE DEF below, seq, At
<1>7. /\ seq = [i \in 1..Cardinality(S) |-> seq[i]]
      /\ \A i \in 1..Cardinality(S) : \A r \in S : At(r, i) => seq[i] \in S /\ At(seq[i], i)
  BY <1>3
<1>8. \A i \in 1..Cardinality(S) : \A r \in S : Cardinality(below[r]) = i - 1 =>
        seq[i] \in S /\ Cardinality(below[seq[i]]) = i - 1
  BY <1>5, <1>7
<1>9. Sorting(S, below, seq)
  BY <1>2, <1>7, <1>8, PlacesSort
<1>10. Lists(S, seq) /\ \A i, j \in 1..Len(seq) : i < j => KeyBefore(seq[i], seq[j])
  <2>1. Lists(S, seq)
    BY <1>9 DEF Sorting, Lists
  <2>2. \A i \in 1..Len(seq) : seq[i] \in S
    BY <1>9, ElementOfSeq DEF Sorting
  <2> QED
    BY <1>6, <1>9, <2>1, <2>2 DEF Sorting
<1> QED
  BY <1>10 DEF seq

LEMMA FirstOnes ==
  ASSUME NEW S, NEW s \in Seq(S), NEW k \in Nat, k <= Len(s)
  PROVE  /\ SubSeq(s, 1, k) \in Seq(S) /\ Len(SubSeq(s, 1, k)) = k
         /\ \A i \in 1..k : SubSeq(s, 1, k)[i] = s[i]
<1>1. 1 \in Int /\ k \in Int /\ Len(s) \in Nat
  BY LenProperties
<1>2. \A i \in 1..k : s[i] \in S
  <2> TAKE i \in 1..k
  <2>1. i \in 1..Len(s)
    BY <1>1
  <2> QED
    BY <2>1, ElementOfSeq
<1>3. /\ SubSeq(s, 1, k) \in Seq(S)
      /\ Len(SubSeq(s, 1, k)) = IF 1 <= k THEN k - 1 + 1 ELSE 0
      /\ \A i \in 1..k - 1 + 1 : SubSeq(s, 1, k)[i] = s[1 + i - 1]
  BY <1>1, <1>2, SubSeqProperties
<1> DEFINE f == SubSeq(s, 1, k)
<1> HIDE DEF f
<1>4. k - 1 + 1 = k /\ \A i \in 1..k : 1 + i - 1 = i
  OBVIOUS
<1>5. Len(f) = k /\ \A i \in 1..k : f[i] = s[i]
  BY <1>3, <1>4 DEF f
<1> QED
  BY <1>3, <1>5 DEF f

\* A page is the sequence, or its first elements and the one after them.
LEMMA PageIs ==
  ASSUME NEW S, NEW seq \in Seq(S), NEW limit \in Nat
  PROVE  \/ /\ Len(seq) > limit
            /\ Page(seq, limit).next = seq[limit + 1]
            /\ Page(seq, limit).rows \in Seq(S) /\ Len(Page(seq, limit).rows) = limit
            /\ \A i \in 1..limit : Page(seq, limit).rows[i] = seq[i]
         \/ Len(seq) <= limit /\ Page(seq, limit) = [rows |-> seq, next |-> None]
<1> DEFINE n == Min({limit + 1, Len(seq)})
           fetched == SubSeq(seq, 1, n)
<1>1. Len(seq) \in Nat /\ limit + 1 \in Nat
  BY LenProperties
<1>2. /\ n \in {limit + 1, Len(seq)} /\ n <= limit + 1 /\ n <= Len(seq)
  <2>1. {limit + 1, Len(seq)} \in SUBSET Nat /\ {limit + 1, Len(seq)} # {}
    BY <1>1
  <2> QED
    BY <2>1, MinOfNats
<1> HIDE DEF n
<1>3. n \in Nat
  BY <1>1, <1>2
<1>4. n <= Len(seq)
  BY <1>2
<1>5. /\ fetched \in Seq(S) /\ Len(fetched) = n
      /\ \A i \in 1..n : fetched[i] = seq[i]
  BY <1>3, <1>4, FirstOnes
<1>6. Page(seq, limit) = IF Len(fetched) > limit
                         THEN [rows |-> Front(fetched), next |-> Last(fetched)]
                         ELSE [rows |-> fetched, next |-> None]
  BY DEF Page, n
<1>7. CASE Len(seq) > limit
  <2>1. n = limit + 1
    BY <1>1, <1>2, <1>7
  <2> DEFINE front == SubSeq(fetched, 1, limit)
  <2>2. Front(fetched) = front /\ Last(fetched) = fetched[limit + 1]
    BY <1>5, <2>1 DEF Front, Last
  <2>3. limit <= Len(fetched)
    BY <1>5, <2>1
  <2>4. front \in Seq(S) /\ Len(front) = limit /\ \A i \in 1..limit : front[i] = fetched[i]
    <3>1. fetched \in Seq(S)
      BY <1>5
    <3> HIDE DEF fetched
    <3> QED
      BY <2>3, <3>1, FirstOnes
  <2>5. Page(seq, limit) = [rows |-> front, next |-> fetched[limit + 1]]
    BY <1>5, <1>6, <2>1, <2>2
  <2> HIDE DEF front, fetched
  <2>7. \A i \in 1..limit : i \in 1..n
    BY <2>1
  <2>8. \A i \in 1..limit : front[i] = seq[i]
    BY <1>5, <2>4, <2>7
  <2>9. fetched[limit + 1] = seq[limit + 1]
    BY <1>5, <2>1
  <2> QED
    BY <1>7, <2>4, <2>5, <2>8, <2>9
<1>8. CASE ~(Len(seq) > limit)
  <2>1. n = Len(seq) /\ Len(seq) <= limit
    BY <1>1, <1>2, <1>8
  <2>2. fetched = seq
    BY <2>1, SubSeqFull
  <2> QED
    BY <1>6, <1>8, <2>1, <2>2
<1> QED
  BY <1>7, <1>8

-----------------------------------------------------------------------------
(* A client that pages.  *)

\* A row that may be the newest of its rank, and is.
IsLatest(d, T, f, r) ==
  r \in Eligible(d, T, f) /\ \A p \in Eligible(d, T, f) : p.rank = r.rank => p.tid <= r.tid

LEMMA WindowIs ==
  ASSUME NEW d, NEW T, NEW f, Keyed(T), NEW n \in Nat, \A r \in T : r.tid \in 1..n
  PROVE  \A r : r \in LatestOfEachRank(d, T, f) <=>
                  /\ IsLatest(d, T, f, r) /\ InScores(f, r.score)
                  /\ f.cursor # None => AfterRank(f.cursor, r)
<1> DEFINE E == Eligible(d, T, f)
           tids(q) == {p.tid : p \in {p \in E : p.rank = q.rank}}
           latest == {<<q.rank, Max(tids(q))>> : q \in E}
<1>1. E \subseteq T
  BY DEF Eligible
<1>2. ASSUME NEW q \in E
      PROVE  /\ Max(tids(q)) \in tids(q)
             /\ \A p \in E : p.rank = q.rank => p.tid <= Max(tids(q))
  <2> DEFINE S == tids(q)
  <2>1. S \in SUBSET (1..n) /\ S # {}
    BY <1>1
  <2>2. \A p \in E : p.rank = q.rank => p.tid \in S
    OBVIOUS
  <2> HIDE DEF S
  <2>3. Max(S) \in S /\ \A y \in S : y <= Max(S)
    BY <2>1, MaxOfNats
  <2>4. \A p \in E : p.rank = q.rank => p.tid <= Max(S)
    BY <2>2, <2>3
  <2> QED
    BY <2>3, <2>4 DEF S
<1>3. \A r : r \in LatestOfEachRank(d, T, f) <=>
        /\ r \in T /\ <<r.rank, r.tid>> \in latest /\ InScores(f, r.score)
        /\ f.cursor # None => AfterRank(f.cursor, r)
  BY DEF LatestOfEachRank
<1>4. ASSUME NEW r \in T, <<r.rank, r.tid>> \in latest
      PROVE  IsLatest(d, T, f, r)
  <2>1. PICK q \in E : r.rank = q.rank /\ r.tid = Max(tids(q))
    BY <1>4
  <2>2. PICK p \in E : p.rank = q.rank /\ p.tid = Max(tids(q))
    BY <1>2
  <2>3. p = r
    BY <1>1, <2>1, <2>2 DEF Keyed
  <2>4. \A x \in E : x.rank = r.rank => x.tid <= r.tid
    BY <1>2, <2>1
  <2> QED
    BY <2>2, <2>3, <2>4 DEF IsLatest
<1>5. ASSUME NEW r, IsLatest(d, T, f, r)
      PROVE  r \in T /\ <<r.rank, r.tid>> \in latest
  <2>1. r \in E /\ r \in T /\ r.tid \in 1..n
    BY <1>1, <1>5 DEF IsLatest
  <2> DEFINE m == Max(tids(r))
  <2>2. PICK p \in E : p.rank = r.rank /\ p.tid = m
    BY <1>2, <2>1
  <2>3. r.tid <= m
    BY <1>2, <2>1
  <2>4. p.tid <= r.tid
    BY <1>5, <2>2 DEF IsLatest
  <2>5. p.tid \in 1..n
    BY <1>1
  <2> HIDE DEF m
  <2>6. r.tid = m
    BY <2>1, <2>2, <2>3, <2>4, <2>5
  <2> QED
    BY <2>1, <2>6 DEF m
<1> HIDE DEF latest
<1> QED
  BY <1>3, <1>4, <1>5

\* What a client of this kind may get.
Source == IF ask.kind = "users" THEN {[key |-> u] : u \in db.users} ELSE TableOf(ask.chapter)

\* What the pages after this cursor are taken from.
Behind(c, r) ==
  c # None =>
    CASE ask.kind = "users" -> r.key > c.key
      [] ask.kind = "trace" -> Stamp(db, r) > c
      [] ask.kind = "rankings" /\ IsRankWindow(ask.filter) -> AfterRank(c, r)
      [] OTHER -> AfterMoment(c, Stamp(db, r), r)

PageHits == {r \in Wanted(ask) : Behind(pages.cursor, r)}

InOrder(seq) == \A i, j \in 1..Len(seq) : i < j => Before(ItemOf(seq[i]), ItemOf(seq[j]))

LEMMA SourceFacts ==
  ASSUME Typed, Times, Tabled, ask \in Calls, Paged(ask)
  PROVE  /\ Wanted(ask) \subseteq Source
         /\ Finite => IsFiniteSet(Source)
         /\ ask.kind # "users" => IsTable(Source)
<1>1. CASE ask.kind = "users"
  <2>1. Wanted(ask) \subseteq Source
    BY <1>1 DEF Source, Wanted
  <2>2. ASSUME Finite
        PROVE  IsFiniteSet(Source)
    <3> DEFINE f == [u \in db.users |-> [key |-> u]]
    <3>1. Source = {f[u] : u \in db.users} /\ DOMAIN f = db.users
      BY <1>1 DEF Source
    <3>2. IsFiniteSet(db.users)
      BY <2>2 DEF Finite
    <3> HIDE DEF f
    <3> QED
      BY <3>1, <3>2, ImageFinite
  <2> QED
    BY <1>1, <2>1, <2>2
<1>2. CASE ask.kind # "users"
  <2>1. Source = TableOf(ask.chapter)
    BY <1>2 DEF Source
  <2>2. Wanted(ask) \subseteq Source
    BY <1>2, <2>1 DEF Wanted, LatestOfEachRank, Matching, Paged
  <2>3. IsTable(Source)
    <3> DEFINE T == TableOf(ask.chapter)
    <3>1. /\ Keyed(T)
          /\ \A r \in T : r.tid \in 1..Len(db.stamps) /\ r.rank \in Nat /\ r.key \in Nat
          /\ Len(db.stamps) \in Nat
      BY TableFacts
    <3> HIDE DEF T
    <3>2. \A r \in T : r.tid \in Nat
      BY <3>1
    <3> QED
      BY <2>1, <3>1, <3>2 DEF IsTable, T
  <2>4. ASSUME Finite
        PROVE  IsFiniteSet(Source)
    <3>1. Source \subseteq db.rows \/ Source \subseteq db.wl
      BY <2>1 DEF TableOf, ChapterRows
    <3>2. IsFiniteSet(db.rows) /\ IsFiniteSet(db.wl)
      BY <2>4 DEF Finite
    <3> QED
      BY <3>1, <3>2, FS_Subset
  <2> QED
    BY <1>2, <2>2, <2>3, <2>4
<1> QED
  BY <1>1, <1>2

\* A page of rankings is one of the hits, in the order in which they are read.
LEMMA RankingHits ==
  ASSUME Typed, Times, Tabled, Finite, ask \in Calls, ask.kind = "rankings"
  PROVE  LET f == [ask.filter EXCEPT !.cursor = pages.cursor]
         IN \E seq : /\ Lists(PageHits, seq) /\ InOrder(seq)
                     /\ (IF ask.chapter = None THEN SearchRankings(db, f)
                         ELSE SearchChapterRankings(db, ask.chapter, f))
                          = Page(seq, ask.filter.limit)
<1> DEFINE f == [ask.filter EXCEPT !.cursor = pages.cursor]
           T == TableOf(ask.chapter)
<1>1. /\ IsPageFilter(ask.filter, {"ranks", "low", "high", "from", "upto", "at"})
      /\ Paged(ask)
  BY CallsAssumption DEF Paged
<1>2. /\ f.ranks = ask.filter.ranks /\ f.low = ask.filter.low /\ f.high = ask.filter.high
      /\ f.from = ask.filter.from /\ f.upto = ask.filter.upto /\ f.at = ask.filter.at
      /\ f.limit = ask.filter.limit /\ f.cursor = pages.cursor /\ ask.filter.cursor = None
  BY <1>1 DEF IsPageFilter
<1> HIDE DEF f
<1>3. Source = T /\ IsTable(T) /\ IsFiniteSet(T) /\ Wanted(ask) \subseteq T
  BY <1>1, SourceFacts DEF Source
<1>4. /\ Keyed(T) /\ Len(db.stamps) \in Nat /\ \A r \in T : r.tid \in 1..Len(db.stamps)
      /\ \A q, r \in T : /\ q.tid < r.tid <=> Stamp(db, q) < Stamp(db, r)
                         /\ q.tid = r.tid <=> Stamp(db, q) = Stamp(db, r)
      /\ \A r \in T : Stamp(db, r) \in Nat /\ r.tid \in Nat
  BY <1>3, TableFacts DEF IsTable
<1>5. CASE IsRankWindow(ask.filter)
  <2> DEFINE W == LatestOfEachRank(db, T, ask.filter)
             H == LatestOfEachRank(db, T, f)
             seq == Ordered(H, ByRank)
  <2>1. Eligible(db, T, f) = Eligible(db, T, ask.filter)
    BY <1>2 DEF Eligible, InScores, InSpan, HasTimeFilter
  <2>2. Wanted(ask) = W
    BY <1>5 DEF Wanted
  <2>3. \A r : r \in H <=> /\ IsLatest(db, T, f, r) /\ InScores(f, r.score)
                           /\ f.cursor # None => AfterRank(f.cursor, r)
    BY <1>4, WindowIs
  <2>4. \A r : r \in W <=> /\ IsLatest(db, T, ask.filter, r) /\ InScores(ask.filter, r.score)
    BY <1>2, <1>4, WindowIs
  <2>5. \A r : IsLatest(db, T, f, r) <=> IsLatest(db, T, ask.filter, r)
    BY <2>1 DEF IsLatest
  <2>6. \A r : Behind(pages.cursor, r) <=> (f.cursor # None => AfterRank(f.cursor, r))
    BY <1>2, <1>5 DEF Behind
  <2> HIDE DEF H, W, T
  <2>7. PageHits = H
    BY <1>2, <2>2, <2>3, <2>4, <2>5, <2>6 DEF PageHits, InScores
  <2>8. ASSUME NEW q \in H, NEW r \in H, q.rank = r.rank
        PROVE  q = r
    <3>1. /\ q \in T /\ r \in T /\ q.tid <= r.tid /\ r.tid <= q.tid
      BY <2>3, <2>8 DEF IsLatest, Eligible
    <3>2. q.tid \in Nat /\ r.tid \in Nat
      BY <1>4, <3>1
    <3>3. q.tid = r.tid
      BY <3>1, <3>2
    <3> QED
      BY <1>4, <2>8, <3>1, <3>3 DEF Keyed
  <2>9. H \in SUBSET T /\ IsFiniteSet(H)
    <3>1. H \in SUBSET T
      BY <2>3 DEF IsLatest, Eligible
    <3> QED
      BY <1>3, <3>1, FS_Subset
  <2>10. /\ Lists(H, seq)
         /\ \A i, j \in 1..Len(seq) : i < j => ByRank(seq[i], seq[j])
    BY <1>3, <2>8, <2>9, OrderedByRank
  <2> HIDE DEF seq
  <2>11. InOrder(seq)
    BY <1>5, <2>10 DEF InOrder, Before, ItemOf, Item, ByRank
  <2>12. (IF ask.chapter = None THEN SearchRankings(db, f)
          ELSE SearchChapterRankings(db, ask.chapter, f)) = Page(seq, ask.filter.limit)
    BY <1>2, <1>5 DEF SearchRankings, SearchChapterRankings, RankWindow, ChapterRankWindow,
                      IsRankWindow, TableOf, seq, H, T
  <2> QED
    BY <2>7, <2>10, <2>11, <2>12 DEF f
<1>6. CASE ~IsRankWindow(ask.filter)
  <2> DEFINE H == Matching(db, T, f)
             seq == Ordered(H, ByMoment)
  <2>1. Wanted(ask) = Matching(db, T, ask.filter)
    BY <1>6 DEF Wanted
  <2>2. \A r : Behind(pages.cursor, r) <=>
                 (f.cursor # None => AfterMoment(f.cursor, Stamp(db, r), r))
    BY <1>2, <1>6 DEF Behind
  <2>3. PageHits = H
    BY <1>2, <2>1, <2>2 DEF PageHits, Matching, InScores, InSpan
  <2>4. H \in SUBSET T /\ IsFiniteSet(H)
    <3>1. H \in SUBSET T
      BY DEF Matching
    <3> QED
      BY <1>3, <3>1, FS_Subset
  <2> HIDE DEF H, T
  <2>5. /\ Lists(H, seq)
        /\ \A i, j \in 1..Len(seq) : i < j => ByMoment(seq[i], seq[j])
    BY <1>3, <2>4, OrderedByMoment
  <2> HIDE DEF seq
  <2>6. InOrder(seq)
    <3> SUFFICES ASSUME NEW i \in 1..Len(seq), NEW j \in 1..Len(seq), i < j
                 PROVE  Before(ItemOf(seq[i]), ItemOf(seq[j]))
      BY DEF InOrder
    <3>1. seq[i] \in T /\ seq[j] \in T
      BY <2>4, <2>5, ElementOfSeq DEF Lists
    <3>2. ByMoment(seq[i], seq[j])
      BY <2>5
    <3> DEFINE q == seq[i]  r == seq[j]
    <3> HIDE DEF q, r
    <3>3. ByMoment(q, r) /\ q \in T /\ r \in T
      BY <3>1, <3>2 DEF q, r
    <3>4. /\ r.tid < q.tid => Stamp(db, r) < Stamp(db, q)
          /\ q.tid = r.tid => Stamp(db, q) = Stamp(db, r)
          /\ q.tid \in Nat /\ r.tid \in Nat /\ Stamp(db, q) \in Nat /\ Stamp(db, r) \in Nat
      BY <1>4, <3>3
    <3>5. Before(Item(db, q), Item(db, r))
      BY <1>6, <3>3, <3>4 DEF Before, Item, ByMoment, ByRank
    <3> QED
      BY <3>5 DEF ItemOf, q, r
  <2>7. (IF ask.chapter = None THEN SearchRankings(db, f)
         ELSE SearchChapterRankings(db, ask.chapter, f)) = Page(seq, ask.filter.limit)
    BY <1>2, <1>6 DEF SearchRankings, SearchChapterRankings, IsRankWindow, TableOf, seq, H, T
  <2> QED
    BY <2>3, <2>5, <2>6, <2>7 DEF f
<1> QED
  BY <1>5, <1>6

LEMMA UserHits ==
  ASSUME Typed, Times, Tabled, Finite, ask \in Calls, ask.kind = "users"
  PROVE  \E seq : /\ Lists(PageHits, seq) /\ InOrder(seq)
                  /\ SearchUsers(db, [ask.filter EXCEPT !.cursor = pages.cursor])
                       = Page(seq, ask.filter.limit)
<1> DEFINE f == [ask.filter EXCEPT !.cursor = pages.cursor]
           hits == {u \in db.users \cap f.matching : f.cursor # None => u > f.cursor.key}
           H == {[key |-> u] : u \in hits}
           seq == Ordered(H, KeyBefore)
<1>1. IsPageFilter(ask.filter, {"matching"}) /\ Paged(ask)
  BY CallsAssumption DEF Paged
<1>2. /\ f.matching = ask.filter.matching /\ f.limit = ask.filter.limit
      /\ f.cursor = pages.cursor
  BY <1>1 DEF IsPageFilter
<1> HIDE DEF f
<1>3. IsFiniteSet(Source) /\ Source = {[key |-> u] : u \in db.users}
      /\ db.users \in SUBSET Nat
  BY <1>1, SourceFacts DEF Source, Typed, Tables
<1>4. Wanted(ask) = {[key |-> u] : u \in db.users \cap ask.filter.matching}
  BY DEF Wanted
<1>5. \A r : Behind(pages.cursor, r) <=> (f.cursor # None => r.key > f.cursor.key)
  BY <1>2 DEF Behind
<1>6. PageHits = H
  BY <1>2, <1>4, <1>5 DEF PageHits
<1>7. H \in SUBSET {[key |-> u] : u \in db.users} /\ IsFiniteSet(H)
  <2>1. H \in SUBSET Source
    BY <1>3
  <2> HIDE DEF H
  <2> QED
    BY <1>3, <2>1, FS_Subset
<1>8. SearchUsers(db, f) = Page(seq, ask.filter.limit)
  BY <1>2 DEF SearchUsers, Ordered, KeyBefore
<1> HIDE DEF H
<1>9. /\ Lists(H, seq)
      /\ \A i, j \in 1..Len(seq) : i < j => KeyBefore(seq[i], seq[j])
  BY <1>3, <1>7, OrderedByKey
<1> HIDE DEF seq
<1>10. InOrder(seq)
  BY <1>9 DEF InOrder, Before, ItemOf, KeyBefore
<1> QED
  BY <1>6, <1>8, <1>9, <1>10 DEF f

\* A trace is the hits, or the first of them.
TracePart(rows, seq, limit) ==
  IF limit = None THEN rows = seq ELSE rows = SubSeq(seq, 1, Min({limit, Len(seq)}))

TraceTable(by, subject) ==
  {r \in TableOf(ask.chapter) : IF by = "user" THEN r.key = subject ELSE r.rank = subject}

LEMMA TraceIs ==
  ASSUME Typed, Times, Tabled, Finite, ask \in Calls, NEW by \in {"user", "rank"}, NEW subject,
         NEW f
  PROVE  LET hits == {r \in TraceTable(by, subject) :
                        /\ InSpan(f, Stamp(db, r))
                        /\ f.cursor # None => Stamp(db, r) > f.cursor}
         IN \E seq : /\ Lists(hits, seq)
                     /\ \A i, j \in 1..Len(seq) : i < j => Stamp(db, seq[i]) < Stamp(db, seq[j])
                     /\ TracePart(TraceOf(ask.chapter, by, subject, f), seq, f.limit)
<1> DEFINE T == TableOf(ask.chapter)
           table == TraceTable(by, subject)
           hits == {r \in table : /\ InSpan(f, Stamp(db, r))
                                  /\ f.cursor # None => Stamp(db, r) > f.cursor}
           seq == Ordered(hits, ByTime)
<1>1. /\ IsTable(T)
      /\ \A q, r \in T : q.tid < r.tid => Stamp(db, q) < Stamp(db, r)
      /\ IsFiniteSet(T)
  <2> HIDE DEF T
  <2>1. /\ Keyed(T) /\ Len(db.stamps) \in Nat
        /\ \A r \in T : r.tid \in 1..Len(db.stamps) /\ r.rank \in Nat /\ r.key \in Nat
        /\ \A q, r \in T : q.tid < r.tid => Stamp(db, q) < Stamp(db, r)
    BY TableFacts DEF T
  <2>2. \A r \in T : r.tid \in Nat
    BY <2>1
  <2>3. T \subseteq db.rows \/ T \subseteq db.wl
    BY DEF T, TableOf, ChapterRows
  <2>4. IsFiniteSet(T)
    <3>1. IsFiniteSet(db.rows) /\ IsFiniteSet(db.wl)
      BY DEF Finite
    <3> QED
      BY <2>3, <3>1, FS_Subset
  <2> QED
    BY <2>1, <2>2, <2>4 DEF IsTable
<1> HIDE DEF T
<1>2. hits \in SUBSET T
  BY DEF TraceTable, T
<1>3. IsFiniteSet(hits)
  BY <1>1, <1>2, FS_Subset
<1>4. \A q, r \in hits : q.tid = r.tid => q = r
  BY <1>1, <1>2 DEF IsTable, Keyed, TraceTable
<1>5. TraceOf(ask.chapter, by, subject, f) = Trace(db, table, f)
  BY DEF TraceOf, UserTrace, RankTrace, ChapterUserTrace, ChapterRankTrace, TraceTable, TableOf
<1>6. TracePart(Trace(db, table, f), seq, f.limit)
  BY DEF TracePart, Trace
<1> HIDE DEF hits
<1>7. /\ Lists(hits, seq)
      /\ \A i, j \in 1..Len(seq) : i < j => ByTime(seq[i], seq[j])
  BY <1>1, <1>2, <1>3, OrderedByTime
<1> HIDE DEF seq
<1>8. ASSUME NEW i \in 1..Len(seq), NEW j \in 1..Len(seq), i < j
      PROVE  Stamp(db, seq[i]) < Stamp(db, seq[j])
  <2>1. seq[i] \in hits /\ seq[j] \in hits
    BY <1>7, ElementOfSeq DEF Lists
  <2>2. ByTime(seq[i], seq[j])
    BY <1>7, <1>8
  <2>3. seq[i].tid < seq[j].tid
    <3>1. seq[i].tid = seq[j].tid => seq[i] = seq[j]
      BY <1>4, <2>1
    <3>2. seq[j].key \in Nat
      BY <1>1, <1>2, <2>1 DEF IsTable
    <3> QED
      BY <2>2, <3>1, <3>2 DEF ByTime
  <2> QED
    BY <1>1, <1>2, <2>1, <2>3
<1> QED
  BY <1>5, <1>6, <1>7, <1>8 DEF hits

\* What a client has, as an item of a response.
IsThing(x) ==
  IF ask.kind = "users" THEN x \in [key : Nat]
  ELSE x \in [ts : Nat, rank : Nat, key : Nat, score : Int]

\* The items before a cursor: of a trace, up to its time.
UpTo(x, c) == IF ask.kind = "trace" THEN x.ts <= c ELSE Before(x, c)

Things == {x \in [key : Nat] \cup [ts : Nat, rank : Nat, key : Nat, score : Int] : IsThing(x)}

IsCursor(c) == IF ask.kind = "trace" THEN c \in Nat ELSE c \in Things

PagesInv ==
  /\ DOMAIN pages = {"state", "cursor", "got", "edges", "base"}
  /\ pages.state \in {"none", "open", "closed"}
  /\ pages.state = "none" =>
       pages.cursor = None /\ pages.got = <<>> /\ pages.edges = {} /\ pages.base = {}
  /\ pages.state # "none" => Paged(ask)
  /\ pages.got \in Seq(Things)
  /\ pages.cursor = None \/ IsCursor(pages.cursor)
  /\ pages.state = "open" /\ pages.cursor = None => pages.got = <<>>
  /\ \A i, j \in 1..Len(pages.got) : i < j => Before(pages.got[i], pages.got[j])
  /\ pages.cursor # None => \A i \in 1..Len(pages.got) : UpTo(pages.got[i], pages.cursor)
  /\ pages.base \subseteq Source /\ pages.edges \subseteq Source
  /\ \A r \in pages.base \cap Wanted(ask) :
       \/ r \in pages.edges
       \/ \E i \in 1..Len(pages.got) : pages.got[i] = ItemOf(r)
       \/ pages.state = "open" /\ Behind(pages.cursor, r)

LEMMA NoneIsNoThing == None \notin Things /\ None \notin Nat
BY NoneIsNoRecord, NoneIsNoNumber DEF Things

LEMMA SourceThings ==
  ASSUME Typed, Times, Tabled, ask \in Calls, Paged(ask), NEW r \in Source
  PROVE  /\ ItemOf(r) \in Things
         /\ ask.kind = "trace" => ItemOf(r).ts = Stamp(db, r)
<1>1. CASE ask.kind = "users"
  <2>1. db.users \in SUBSET Nat
    BY DEF Typed, Tables
  <2> QED
    BY <1>1, <2>1 DEF Source, ItemOf, Things, IsThing
<1>2. CASE ask.kind # "users"
  <2> DEFINE T == TableOf(ask.chapter)
  <2>1. \A x \in T : x.rank \in Nat /\ x.key \in Nat /\ x.score \in Int /\ Stamp(db, x) \in Nat
    BY TableFacts
  <2>2. r \in T
    BY <1>2 DEF Source
  <2> HIDE DEF T
  <2>3. Item(db, r) \in [ts : Nat, rank : Nat, key : Nat, score : Int]
        /\ Item(db, r).ts = Stamp(db, r)
    BY <2>1, <2>2 DEF Item
  <2> QED
    BY <1>2, <2>3 DEF ItemOf, Things, IsThing
<1> QED
  BY <1>1, <1>2

LEMMA BeforeIsTransitive ==
  ASSUME NEW x \in Things, NEW y \in Things, NEW z \in Things, Before(x, y), Before(y, z)
  PROVE  Before(x, z)
<1>1. CASE ask.kind = "users"
  BY <1>1 DEF Things, IsThing, Before
<1>2. CASE ask.kind # "users"
  BY <1>2 DEF Things, IsThing, Before
<1> QED
  BY <1>1, <1>2

\* A cursor and what is behind it, in terms of the items.
LEMMA BehindIs ==
  ASSUME Typed, Times, Tabled, ask \in Calls, Paged(ask), NEW r \in Source,
         NEW c, IsCursor(c)
  PROVE  IF ask.kind = "trace" THEN Behind(c, r) <=> c < ItemOf(r).ts
         ELSE Behind(c, r) <=> Before(c, ItemOf(r))
<1>1. c # None
  BY NoneIsNoThing DEF IsCursor
<1>2. ItemOf(r) \in Things
  BY SourceThings
<1>3. CASE ask.kind = "trace"
  BY <1>1, <1>3, SourceThings DEF Behind, IsCursor, Things, IsThing
<1>4. CASE ask.kind = "users"
  BY <1>1, <1>2, <1>4 DEF Behind, IsCursor, Things, IsThing, Before, ItemOf
<1>5. CASE ask.kind = "rankings"
  <2>1. /\ c.ts \in Nat /\ c.rank \in Nat /\ c.key \in Nat
        /\ ItemOf(r).ts \in Nat /\ ItemOf(r).rank \in Nat /\ ItemOf(r).key \in Nat
    BY <1>2, <1>5 DEF Things, IsThing, IsCursor
  <2>2. ItemOf(r).ts = Stamp(db, r) /\ ItemOf(r).rank = r.rank /\ ItemOf(r).key = r.key
    BY <1>5 DEF ItemOf, Item
  <2> QED
    BY <1>1, <1>5, <2>1, <2>2 DEF Behind, Before, AfterRank, AfterMoment
<1> QED
  BY <1>3, <1>4, <1>5 DEF Paged

\* n of the hits are taken: the last ones, or those before the new cursor.
Taken(seq, n) ==
  /\ DOMAIN pages' = DOMAIN pages /\ pages'.base = pages.base
  /\ pages'.got = pages.got \o [i \in 1..n |-> ItemOf(seq[i])]
  /\ \/ /\ pages'.state = "closed" /\ n = Len(seq)
        /\ pages'.edges = pages.edges /\ pages'.cursor = None
     \/ /\ pages'.state = "open" /\ ask.kind # "trace" /\ n < Len(seq)
        /\ pages'.edges = pages.edges \cup {seq[n + 1]} /\ pages'.cursor = ItemOf(seq[n + 1])
     \/ /\ pages'.state = "open" /\ ask.kind = "trace" /\ n > 0
        /\ pages'.edges = pages.edges /\ pages'.cursor = ItemOf(seq[n]).ts

LEMMA PageStep ==
  ASSUME Typed, Times, Tabled, ask \in Calls, PagesInv, pages.state = "open",
         UNCHANGED <<db, ask>>,
         NEW seq, Lists(PageHits, seq), InOrder(seq), NEW n \in Nat, n <= Len(seq),
         Taken(seq, n)
  PROVE  PagesInv'
<1> DEFINE got == pages.got
           c == pages.cursor
           new == [i \in 1..n |-> ItemOf(seq[i])]
           all == pages'.got
           d == pages'.cursor
           At(i) == seq[i]
<1>1. /\ Paged(ask) /\ got \in Seq(Things) /\ Len(got) \in Nat /\ Len(seq) \in Nat
      /\ PageHits \subseteq Source
  <2>1. Paged(ask) /\ got \in Seq(Things)
    BY DEF PagesInv
  <2>2. Len(got) \in Nat
    BY <2>1, LenProperties
  <2>3. Len(seq) \in Nat
    BY LenProperties DEF Lists
  <2>4. PageHits \subseteq Source
    BY <2>1, SourceFacts DEF PageHits
  <2> QED
    BY <2>1, <2>2, <2>3, <2>4
<1>2. ASSUME NEW i \in 1..Len(seq)
      PROVE  /\ seq[i] \in PageHits /\ seq[i] \in Source /\ ItemOf(seq[i]) \in Things
  <2>1. seq[i] \in PageHits
    BY ElementOfSeq DEF Lists
  <2>2. seq[i] \in Source
    BY <1>1, <2>1
  <2> QED
    BY <1>1, <2>1, <2>2, SourceThings
<1>3. /\ new \in Seq(Things) /\ Len(new) = n
      /\ \A i \in 1..n : i \in 1..Len(seq) /\ new[i] = ItemOf(seq[i])
  <2>1. \A i \in 1..n : i \in 1..Len(seq)
    BY <1>1
  <2>2. new \in [1..n -> Things]
    BY <1>2, <2>1
  <2>3. \A i \in 1..n : new[i] = ItemOf(seq[i])
    OBVIOUS
  <2> HIDE DEF new
  <2> QED
    BY <2>1, <2>2, <2>3, SeqOfLength
<1>4. all = got \o new
  BY DEF Taken
<1> HIDE DEF new, got, all
<1>5. /\ all \in Seq(Things) /\ Len(all) = Len(got) + n
      /\ \A i \in 1..Len(got) : all[i] = got[i] /\ got[i] \in Things
      /\ \A i \in 1..n : all[Len(got) + i] = ItemOf(seq[i])
  <2>1. /\ all \in Seq(Things) /\ Len(all) = Len(got) + n
        /\ \A i \in 1..Len(got) + n : all[i] = IF i <= Len(got) THEN got[i] ELSE new[i - Len(got)]
    BY <1>1, <1>3, <1>4, ConcatProperties
  <2>2. \A i \in 1..Len(got) : all[i] = got[i]
    BY <1>1, <2>1
  <2>3. \A i \in 1..Len(got) : got[i] \in Things
    BY <1>1, ElementOfSeq
  <2>4. ASSUME NEW i \in 1..n
        PROVE  all[Len(got) + i] = ItemOf(seq[i])
    <3>1. Len(got) + i \in 1..Len(got) + n /\ ~(Len(got) + i <= Len(got))
          /\ Len(got) + i - Len(got) = i
      BY <1>1
    <3> QED
      BY <1>3, <2>1, <3>1
  <2> QED
    BY <2>1, <2>2, <2>3, <2>4
<1>6. /\ \A x, y : Before(x, y)' <=> Before(x, y)
      /\ \A x : ItemOf(x)' = ItemOf(x)
      /\ \A x, y : UpTo(x, y)' <=> UpTo(x, y)
      /\ \A x, y : Behind(x, y)' <=> Behind(x, y)
      /\ Wanted(ask)' = Wanted(ask) /\ Source' = Source /\ Things' = Things
      /\ \A x : IsCursor(x)' <=> IsCursor(x)
      /\ Paged(ask)' <=> Paged(ask)
  <2>1. /\ \A x, y : Before(x, y)' <=> Before(x, y)
        /\ \A x : ItemOf(x)' = ItemOf(x)
    BY DEF Before, ItemOf, Item, Stamp
  <2>2. \A x, y : Behind(x, y)' <=> Behind(x, y)
    BY DEF Behind, Stamp
  <2>3. Wanted(ask)' = Wanted(ask) /\ Source' = Source /\ (Paged(ask)' <=> Paged(ask))
    BY DEF Wanted, Source, TableOf, ChapterRows, Stamp, Paged
  <2>4. Things' = Things
    BY DEF Things, IsThing
  <2> QED
    BY <2>1, <2>2, <2>3, <2>4 DEF UpTo, IsCursor
<1>7. ASSUME NEW i \in 1..Len(got), NEW j \in 1..Len(seq)
      PROVE  /\ c # None /\ UpTo(got[i], c) /\ IsCursor(c)
             /\ Before(got[i], ItemOf(seq[j]))
             /\ ask.kind = "trace" => got[i].ts < ItemOf(seq[j]).ts
  <2>1. c # None /\ UpTo(got[i], c) /\ IsCursor(c)
    <3>1. got # <<>>
      BY EmptySeq
    <3> QED
      BY <3>1 DEF PagesInv, got
  <2>2. Behind(c, seq[j])
    BY <1>2 DEF PageHits
  <2>3. IF ask.kind = "trace" THEN c < ItemOf(seq[j]).ts ELSE Before(c, ItemOf(seq[j]))
    BY <1>1, <1>2, <2>1, <2>2, BehindIs
  <2>4. got[i] \in Things /\ ItemOf(seq[j]) \in Things
    BY <1>2, <1>5
  <2>5. CASE ask.kind = "trace"
    <3>1. got[i].ts \in Nat /\ ItemOf(seq[j]).ts \in Nat /\ c \in Nat
      BY <2>1, <2>4, <2>5 DEF Things, IsThing, IsCursor
    <3>2. got[i].ts < ItemOf(seq[j]).ts
      BY <2>1, <2>3, <2>5, <3>1 DEF UpTo
    <3> QED
      BY <2>1, <2>5, <3>2 DEF Before
  <2>6. CASE ask.kind # "trace"
    <3>1. Before(got[i], c) /\ c \in Things
      BY <2>1, <2>6 DEF UpTo, IsCursor
    <3>2. Before(c, ItemOf(seq[j]))
      BY <2>3, <2>6
    <3>3. Before(got[i], ItemOf(seq[j]))
      BY <2>4, <3>1, <3>2, BeforeIsTransitive
    <3> QED
      BY <2>1, <2>6, <3>3
  <2> QED
    BY <2>5, <2>6
<1>8. \A i, j \in 1..Len(all) : i < j => Before(all[i], all[j])
  <2> SUFFICES ASSUME NEW i \in 1..Len(all), NEW j \in 1..Len(all), i < j
               PROVE  Before(all[i], all[j])
    OBVIOUS
  <2>1. CASE i <= Len(got) /\ j <= Len(got)
    <3>1. i \in 1..Len(got) /\ j \in 1..Len(got)
      BY <1>1, <2>1
    <3> QED
      BY <1>5, <3>1 DEF PagesInv, got
  <2>2. CASE i <= Len(got) /\ ~(j <= Len(got))
    <3>1. i \in 1..Len(got) /\ j - Len(got) \in 1..n /\ Len(got) + (j - Len(got)) = j
      BY <1>1, <1>5, <2>2
    <3>2. all[i] = got[i] /\ all[j] = ItemOf(seq[j - Len(got)])
      BY <1>5, <3>1
    <3>3. j - Len(got) \in 1..Len(seq)
      BY <1>3, <3>1
    <3> QED
      BY <1>7, <3>1, <3>2, <3>3
  <2>3. CASE ~(i <= Len(got))
    <3>1. /\ i - Len(got) \in 1..n /\ Len(got) + (i - Len(got)) = i
          /\ j - Len(got) \in 1..n /\ Len(got) + (j - Len(got)) = j
          /\ i - Len(got) < j - Len(got)
      BY <1>1, <1>5, <2>3
    <3>2. all[i] = ItemOf(seq[i - Len(got)]) /\ all[j] = ItemOf(seq[j - Len(got)])
      BY <1>5, <3>1
    <3>3. i - Len(got) \in 1..Len(seq) /\ j - Len(got) \in 1..Len(seq)
      BY <1>3, <3>1
    <3> QED
      BY <3>1, <3>2, <3>3 DEF InOrder
  <2> QED
    BY <2>1, <2>2, <2>3
<1>9. CASE pages'.state = "closed" /\ n = Len(seq) /\ pages'.edges = pages.edges /\ d = None
  <2>1. ASSUME NEW r \in pages.base, r \in Wanted(ask)
        PROVE  r \in pages'.edges \/ \E i \in 1..Len(all) : all[i] = ItemOf(r)
    <3>1. CASE r \in pages.edges
      BY <1>9, <3>1
    <3>2. CASE \E i \in 1..Len(got) : got[i] = ItemOf(r)
      <4>1. PICK i \in 1..Len(got) : got[i] = ItemOf(r)
        BY <3>2
      <4>2. i \in 1..Len(all)
        BY <1>1, <1>5
      <4> QED
        BY <1>5, <4>1, <4>2
    <3>3. CASE Behind(c, r)
      <4>1. r \in PageHits
        BY <2>1, <3>3 DEF PageHits
      <4>2. PICK i \in 1..n : seq[i] = r
        BY <1>9, <4>1 DEF Lists
      <4>3. Len(got) + i \in 1..Len(all)
        BY <1>1, <1>5
      <4> QED
        BY <1>5, <4>2, <4>3
    <3> QED
      BY <2>1, <3>1, <3>2, <3>3 DEF PagesInv, got
  <2> QED
    BY <1>1, <1>5, <1>6, <1>8, <1>9, <2>1 DEF PagesInv, Taken, all
<1>10. CASE /\ pages'.state = "open" /\ ask.kind # "trace" /\ n < Len(seq)
            /\ pages'.edges = pages.edges \cup {seq[n + 1]} /\ d = ItemOf(seq[n + 1])
  <2>1. n + 1 \in 1..Len(seq)
    BY <1>1, <1>10
  <2>2. d \in Things /\ IsCursor(d) /\ d # None
    BY <1>2, <1>10, <2>1, NoneIsNoThing DEF IsCursor
  <2>3. ASSUME NEW i \in 1..Len(all)
        PROVE  UpTo(all[i], d)
    <3>1. CASE i <= Len(got)
      <4>1. i \in 1..Len(got)
        BY <1>1, <3>1
      <4> QED
        BY <1>5, <1>7, <1>10, <2>1, <4>1 DEF UpTo
    <3>2. CASE ~(i <= Len(got))
      <4>1. /\ i - Len(got) \in 1..n /\ Len(got) + (i - Len(got)) = i /\ i - Len(got) < n + 1
        BY <1>1, <1>5, <3>2
      <4>2. all[i] = ItemOf(seq[i - Len(got)]) /\ i - Len(got) \in 1..Len(seq)
        BY <1>3, <1>5, <4>1
      <4> QED
        BY <1>10, <2>1, <4>1, <4>2 DEF InOrder, UpTo
    <3> QED
      BY <3>1, <3>2
  <2>4. ASSUME NEW r \in pages.base, r \in Wanted(ask)
        PROVE  \/ r \in pages'.edges
               \/ \E i \in 1..Len(all) : all[i] = ItemOf(r)
               \/ Behind(d, r)
    <3>1. CASE r \in pages.edges
      BY <1>10, <3>1
    <3>2. CASE \E i \in 1..Len(got) : got[i] = ItemOf(r)
      <4>1. PICK i \in 1..Len(got) : got[i] = ItemOf(r)
        BY <3>2
      <4>2. i \in 1..Len(all)
        BY <1>1, <1>5
      <4> QED
        BY <1>5, <4>1, <4>2
    <3>3. CASE Behind(c, r)
      <4>1. r \in PageHits /\ r \in Source
        BY <1>1, <2>4, <3>3 DEF PageHits
      <4>2. PICK i \in 1..Len(seq) : seq[i] = r
        BY <4>1 DEF Lists
      <4>3. CASE i <= n
        <5>1. Len(got) + i \in 1..Len(all) /\ i \in 1..n
          BY <1>1, <1>5, <4>3
        <5> QED
          BY <1>5, <4>2, <5>1
      <4>4. CASE i = n + 1
        BY <1>10, <4>2, <4>4
      <4>5. CASE i > n + 1
        <5>1. Before(ItemOf(seq[n + 1]), ItemOf(seq[i]))
          BY <2>1, <4>5 DEF InOrder
        <5> QED
          BY <1>1, <1>10, <2>2, <4>1, <4>2, <5>1, BehindIs
      <4> QED
        BY <4>3, <4>4, <4>5
    <3> QED
      BY <2>4, <3>1, <3>2, <3>3 DEF PagesInv, got
  <2>5. \A r \in pages'.base \cap Wanted(ask)' :
          \/ r \in pages'.edges
          \/ \E i \in 1..Len(pages'.got) : pages'.got[i] = ItemOf(r)'
          \/ pages'.state = "open" /\ Behind(pages.cursor, r)'
    BY <1>6, <1>10, <2>4 DEF Taken, all
  <2>6. /\ pages'.got \in Seq(Things') /\ IsCursor(pages.cursor)' /\ Paged(ask)'
        /\ \A i, j \in 1..Len(pages'.got) : i < j => Before(pages.got[i], pages.got[j])'
        /\ \A i \in 1..Len(pages'.got) : UpTo(pages.got[i], pages.cursor)'
    BY <1>1, <1>5, <1>6, <1>8, <2>2, <2>3 DEF all
  <2>7. DOMAIN pages' = {"state", "cursor", "got", "edges", "base"} /\ pages'.base \subseteq Source'
        /\ pages'.edges \subseteq Source'
    BY <1>2, <1>6, <1>10, <2>1 DEF PagesInv, Taken
  <2> QED
    BY <1>10, <2>2, <2>5, <2>6, <2>7 DEF PagesInv
<1>11. CASE /\ pages'.state = "open" /\ ask.kind = "trace" /\ n > 0
            /\ pages'.edges = pages.edges /\ d = ItemOf(seq[n]).ts
  <2>1. n \in 1..Len(seq)
    BY <1>1, <1>11
  <2>2. d \in Nat /\ IsCursor(d) /\ d # None
    <3>1. ItemOf(seq[n]) \in Things
      BY <1>2, <2>1
    <3> QED
      BY <1>11, <3>1, NoneIsNoThing DEF IsCursor, Things, IsThing
  <2>3. \A i, j \in 1..Len(seq) : i < j => ItemOf(seq[i]).ts < ItemOf(seq[j]).ts
    BY <1>11 DEF InOrder, Before
  <2>4. ASSUME NEW i \in 1..Len(all)
        PROVE  UpTo(all[i], d)
    <3>1. CASE i <= Len(got)
      <4>1. i \in 1..Len(got)
        BY <1>1, <3>1
      <4>2. got[i].ts < ItemOf(seq[n]).ts
        BY <1>7, <1>11, <2>1, <4>1
      <4>3. got[i].ts \in Nat
        BY <1>5, <1>11, <4>1 DEF Things, IsThing
      <4>4. got[i].ts <= d
        BY <1>11, <2>2, <4>2, <4>3
      <4> QED
        BY <1>5, <1>11, <4>1, <4>4 DEF UpTo
    <3>2. CASE ~(i <= Len(got))
      <4>1. /\ i - Len(got) \in 1..n /\ Len(got) + (i - Len(got)) = i /\ i - Len(got) <= n
        BY <1>1, <1>5, <3>2
      <4>2. all[i] = ItemOf(seq[i - Len(got)]) /\ i - Len(got) \in 1..Len(seq)
        BY <1>3, <1>5, <4>1
      <4> DEFINE k == i - Len(got)
      <4>3. k \in 1..Len(seq) /\ k <= n
        BY <4>1, <4>2
      <4> HIDE DEF k
      <4>4. k = n \/ k < n
        BY <2>1, <4>3
      <4>5. ItemOf(seq[k]).ts \in Nat
        BY <1>2, <1>11, <4>3 DEF Things, IsThing
      <4>6. ItemOf(seq[k]).ts <= d
        <5>1. CASE k = n
          BY <1>11, <2>2, <5>1
        <5>2. CASE k < n
          <6>1. ItemOf(seq[k]).ts < ItemOf(seq[n]).ts
            BY <2>1, <2>3, <4>3, <5>2
          <6> QED
            BY <1>11, <2>2, <4>5, <6>1
        <5> QED
          BY <4>4, <5>1, <5>2
      <4>7. all[i] = ItemOf(seq[k])
        BY <4>2 DEF k
      <4> QED
        BY <1>11, <4>6, <4>7 DEF UpTo
    <3> QED
      BY <3>1, <3>2
  <2>5. ASSUME NEW r \in pages.base, r \in Wanted(ask)
        PROVE  \/ r \in pages'.edges
               \/ \E i \in 1..Len(all) : all[i] = ItemOf(r)
               \/ Behind(d, r)
    <3>1. CASE r \in pages.edges
      BY <1>11, <3>1
    <3>2. CASE \E i \in 1..Len(got) : got[i] = ItemOf(r)
      <4>1. PICK i \in 1..Len(got) : got[i] = ItemOf(r)
        BY <3>2
      <4>2. i \in 1..Len(all)
        BY <1>1, <1>5
      <4> QED
        BY <1>5, <4>1, <4>2
    <3>3. CASE Behind(c, r)
      <4>1. r \in PageHits /\ r \in Source
        BY <1>1, <2>5, <3>3 DEF PageHits
      <4>2. PICK i \in 1..Len(seq) : seq[i] = r
        BY <4>1 DEF Lists
      <4>3. CASE i <= n
        <5>1. Len(got) + i \in 1..Len(all) /\ i \in 1..n
          BY <1>1, <1>5, <4>3
        <5> QED
          BY <1>5, <4>2, <5>1
      <4>4. CASE i > n
        <5>1. ItemOf(seq[n]).ts < ItemOf(seq[i]).ts
          BY <2>1, <2>3, <4>4
        <5> QED
          BY <1>1, <1>11, <2>2, <4>1, <4>2, <5>1, BehindIs
      <4> QED
        BY <4>3, <4>4
    <3> QED
      BY <2>5, <3>1, <3>2, <3>3 DEF PagesInv, got
  <2> QED
    BY <1>1, <1>5, <1>6, <1>8, <1>11, <2>2, <2>4, <2>5 DEF PagesInv, Taken, all
<1> QED
  BY <1>9, <1>10, <1>11 DEF Taken

LEMMA SourceNotNone ==
  ASSUME Typed, ask \in Calls, Paged(ask), NEW r \in Source
  PROVE  r # None
<1>1. CASE ask.kind = "users"
  <2>1. db.users \in SUBSET Nat
    BY DEF Typed, Tables
  <2>2. r \in [key : Int]
    BY <1>1, <2>1 DEF Source
  <2> QED
    BY <2>2, NoneIsNoRecord
<1>2. CASE ask.kind # "users"
  <2>1. r \in db.rows \cup db.wl
    BY <1>2 DEF Source, TableOf, ChapterRows
  <2>2. \/ r \in [tid : Int, key : Int, rank : Int, score : Int]
        \/ r \in [tid : Int, key : Int, rank : Int, score : Int, chapter : Chapters]
    BY <2>1 DEF Typed, Tables, Row, ChapterRow
  <2> QED
    BY <2>2, NoneIsNoRecord, ChaptersAssumption
<1> QED
  BY <1>1, <1>2

\* What the client makes of a page of limit rows.
Turned(page) ==
  pages' = [pages EXCEPT
    !.state = IF page.next # None THEN "open" ELSE "closed",
    !.cursor = IF page.next # None THEN ItemOf(page.next) ELSE None,
    !.got = @ \o [i \in DOMAIN page.rows |-> ItemOf(page.rows[i])],
    !.edges = IF page.next # None THEN @ \cup {page.next} ELSE @]

LEMMA TurnedIsTaken ==
  ASSUME Typed, ask \in Calls, Paged(ask), ask.kind # "trace",
         DOMAIN pages = {"state", "cursor", "got", "edges", "base"},
         NEW S, S \subseteq Source, NEW seq, Lists(S, seq), NEW limit \in Nat,
         Turned(Page(seq, limit))
  PROVE  \E n \in Nat : n <= Len(seq) /\ Taken(seq, n)
<1> DEFINE page == Page(seq, limit)
           f == [i \in DOMAIN page.rows |-> ItemOf(page.rows[i])]
           g(n) == [i \in 1..n |-> ItemOf(seq[i])]
<1>1. seq \in Seq(S) /\ Len(seq) \in Nat
  BY LenProperties DEF Lists
<1>2. \/ /\ Len(seq) > limit
         /\ page.next = seq[limit + 1]
         /\ page.rows \in Seq(S) /\ Len(page.rows) = limit
         /\ \A i \in 1..limit : page.rows[i] = seq[i]
      \/ Len(seq) <= limit /\ page = [rows |-> seq, next |-> None]
  BY <1>1, PageIs
<1> HIDE DEF page
<1>3. pages' = [pages EXCEPT
        !.state = IF page.next # None THEN "open" ELSE "closed",
        !.cursor = IF page.next # None THEN ItemOf(page.next) ELSE None,
        !.got = @ \o f,
        !.edges = IF page.next # None THEN @ \cup {page.next} ELSE @]
  BY Zenon DEF Turned, page
<1>4. CASE Len(seq) > limit
  <2>1. page.rows \in Seq(S) /\ Len(page.rows) = limit /\ page.next = seq[limit + 1]
        /\ \A i \in 1..limit : page.rows[i] = seq[i]
    BY <1>2, <1>4, <1>1
  <2>2. DOMAIN page.rows = 1..limit
    BY <2>1, LenProperties
  <2>3. f = g(limit)
    BY <2>1, <2>2
  <2>4. limit + 1 \in 1..Len(seq)
    BY <1>1, <1>4
  <2>5. page.next # None
    <3>1. seq[limit + 1] \in S
      BY <1>1, <2>4, ElementOfSeq
    <3> QED
      BY <2>1, <3>1, SourceNotNone
  <2> HIDE DEF f
  <2>6. Taken(seq, limit)
    BY <1>3, <1>4, <2>1, <2>3, <2>5 DEF Taken
  <2> QED
    BY <1>1, <1>4, <2>6
<1>5. CASE ~(Len(seq) > limit)
  <2>1. page.rows = seq /\ page.next = None
    BY <1>1, <1>2, <1>5
  <2>2. DOMAIN page.rows = 1..Len(seq)
    BY <1>1, <2>1, LenProperties
  <2>3. f = g(Len(seq))
    BY <2>1, <2>2
  <2> HIDE DEF f
  <2>4. Taken(seq, Len(seq))
    BY <1>3, <2>1, <2>3 DEF Taken
  <2> QED
    BY <1>1, <2>4
<1> QED
  BY <1>4, <1>5

LEMMA PageActions ==
  ASSUME Typed, Times, Tabled, Finite, ask \in Calls, PagesInv,
         RankingPage \/ UserPage \/ TracePage
  PROVE  PagesInv'
<1>1. pages.state = "open" /\ UNCHANGED <<db, ask>> /\ Paged(ask)
      /\ DOMAIN pages = {"state", "cursor", "got", "edges", "base"}
  BY DEF RankingPage, UserPage, TracePage, trackerVars, Paged, PagesInv
<1>2. PageHits \subseteq Source
  BY <1>1, SourceFacts DEF PageHits
<1>3. CASE RankingPage
  <2> DEFINE f == [ask.filter EXCEPT !.cursor = pages.cursor]
             page == IF ask.chapter = None THEN SearchRankings(db, f)
                     ELSE SearchChapterRankings(db, ask.chapter, f)
  <2>1. /\ ask.kind = "rankings"
        /\ IsPageFilter(ask.filter, {"ranks", "low", "high", "from", "upto", "at"})
    BY <1>3, CallsAssumption DEF RankingPage
  <2>2. PICK seq : Lists(PageHits, seq) /\ InOrder(seq) /\ page = Page(seq, ask.filter.limit)
    BY <2>1, RankingHits
  <2> HIDE DEF page
  <2>3. \A x : ItemOf(x) = Item(db, x)
    BY <2>1 DEF ItemOf
  <2>4. Turned(page)
    <3>1. pages' = [pages EXCEPT
            !.state = IF page.next # None THEN "open" ELSE "closed",
            !.cursor = IF page.next # None THEN Item(db, page.next) ELSE None,
            !.got = @ \o [i \in DOMAIN page.rows |-> Item(db, page.rows[i])],
            !.edges = IF page.next # None THEN @ \cup {page.next} ELSE @]
      BY <1>3, Zenon DEF RankingPage, page
    <3> QED
      BY <2>1, <3>1 DEF Turned, ItemOf
  <2>5. PICK n \in Nat : n <= Len(seq) /\ Taken(seq, n)
    BY <1>1, <1>2, <2>1, <2>2, <2>4, TurnedIsTaken DEF IsPageFilter
  <2> QED
    BY <1>1, <2>2, <2>5, PageStep
<1>4. CASE UserPage
  <2> DEFINE page == SearchUsers(db, [ask.filter EXCEPT !.cursor = pages.cursor])
  <2>1. ask.kind = "users" /\ IsPageFilter(ask.filter, {"matching"})
    BY <1>4, CallsAssumption DEF UserPage
  <2>2. PICK seq : Lists(PageHits, seq) /\ InOrder(seq) /\ page = Page(seq, ask.filter.limit)
    BY <2>1, UserHits
  <2> HIDE DEF page
  <2>3. page.rows \in Seq(PageHits)
    <3>1. seq \in Seq(PageHits) /\ ask.filter.limit \in Nat
      BY <2>1, <2>2 DEF Lists, IsPageFilter
    <3>2. \/ page.rows \in Seq(PageHits)
          \/ page = [rows |-> seq, next |-> None]
      BY <2>2, <3>1, PageIs
    <3> QED
      BY <3>1, <3>2
  <2>4. Turned(page)
    <3>1. pages' = [pages EXCEPT
            !.state = IF page.next # None THEN "open" ELSE "closed",
            !.cursor = page.next,
            !.got = @ \o page.rows,
            !.edges = IF page.next # None THEN @ \cup {page.next} ELSE @]
      BY <1>4, Zenon DEF UserPage, page
    <3>2. page.rows = [i \in DOMAIN page.rows |-> page.rows[i]]
      BY <2>3
    <3>3. page.next = IF page.next # None THEN page.next ELSE None
      OBVIOUS
    <3> QED
      BY <2>1, <3>1, <3>2, <3>3 DEF Turned, ItemOf
  <2>5. PICK n \in Nat : n <= Len(seq) /\ Taken(seq, n)
    BY <1>1, <1>2, <2>1, <2>2, <2>4, TurnedIsTaken DEF IsPageFilter
  <2> QED
    BY <1>1, <2>2, <2>5, PageStep
<1>5. CASE TracePage
  <2> DEFINE f == [ask.filter EXCEPT !.cursor = pages.cursor]
             rows == TraceOf(ask.chapter, ask.by, ask.subject, f)
             items == [i \in DOMAIN rows |-> Item(db, rows[i])]
             hits == {r \in TraceTable(ask.by, ask.subject) :
                        /\ InSpan(f, Stamp(db, r))
                        /\ f.cursor # None => Stamp(db, r) > f.cursor}
             limit == ask.filter.limit
  <2>1. /\ ask.kind = "trace" /\ IsPageFilter(ask.filter, {"from", "upto"})
        /\ ask.by \in {"user", "rank"}
    BY <1>5, CallsAssumption DEF TracePage
  <2>2. /\ f.from = ask.filter.from /\ f.upto = ask.filter.upto /\ f.limit = limit
        /\ f.cursor = pages.cursor /\ limit \in Nat /\ limit > 0 /\ limit # None
    BY <2>1, NoneIsNoNumber DEF IsPageFilter
  <2>3. pages' = [pages EXCEPT
          !.state = IF Len(rows) = f.limit THEN "open" ELSE "closed",
          !.cursor = IF Len(rows) = f.limit THEN items[Len(items)].ts ELSE None,
          !.got = @ \o items]
    BY <1>5, Zenon DEF TracePage
  <2> HIDE DEF f
  <2>4. PICK seq : /\ Lists(hits, seq)
                   /\ \A i, j \in 1..Len(seq) : i < j => Stamp(db, seq[i]) < Stamp(db, seq[j])
                   /\ TracePart(rows, seq, f.limit)
    BY <2>1, TraceIs
  <2>5. hits = PageHits
    <3>1. \A r : Behind(pages.cursor, r) <=> (f.cursor # None => Stamp(db, r) > f.cursor)
      BY <2>1, <2>2 DEF Behind
    <3>2. Wanted(ask) = {r \in TableOf(ask.chapter) :
                          /\ IF ask.by = "user" THEN r.key = ask.subject ELSE r.rank = ask.subject
                          /\ InSpan(ask.filter, Stamp(db, r))}
      BY <2>1 DEF Wanted
    <3> QED
      BY <2>2, <3>1, <3>2 DEF PageHits, TraceTable, InSpan
  <2> HIDE DEF rows, hits, limit
  <2>6. InOrder(seq)
    BY <2>1, <2>4 DEF InOrder, Before, ItemOf, Item
  <2> DEFINE n == Min({limit, Len(seq)})
  <2>7. seq \in Seq(PageHits) /\ Len(seq) \in Nat
    BY <2>4, <2>5, LenProperties DEF Lists
  <2>8. n \in Nat /\ n \in {limit, Len(seq)} /\ n <= Len(seq) /\ n <= limit
    <3>1. {limit, Len(seq)} \in SUBSET Nat /\ {limit, Len(seq)} # {}
      BY <2>2, <2>7
    <3> QED
      BY <3>1, MinOfNats
  <2>9. rows = SubSeq(seq, 1, n)
    BY <2>2, <2>4 DEF TracePart
  <2> HIDE DEF n
  <2>10. rows \in Seq(PageHits) /\ Len(rows) = n /\ \A i \in 1..n : rows[i] = seq[i]
    BY <2>7, <2>8, <2>9, FirstOnes
  <2>11. DOMAIN rows = 1..n
    BY <2>10, LenProperties
  <2>12. items = [i \in 1..n |-> ItemOf(seq[i])]
    BY <2>1, <2>10, <2>11 DEF ItemOf
  <2>13. CASE n = limit
    <3>1. Len(items) = n
      <4>1. seq \in Seq(PageHits)
        BY <2>7
      <4>2. DOMAIN items = 1..n
        BY <2>12
      <4>3. items \in [1..n -> {items[i] : i \in 1..n}]
        BY <2>12
      <4> HIDE DEF items
      <4> QED
        BY <2>8, <4>3, SeqOfLength, Zenon
    <3>2. n > 0 /\ n \in 1..n
      BY <2>2, <2>8, <2>13
    <3>3. items[Len(items)].ts = ItemOf(seq[n]).ts
      BY <2>12, <3>1, <3>2
    <3> HIDE DEF items
    <3>4. Taken(seq, n)
      BY <1>1, <2>1, <2>2, <2>3, <2>10, <2>12, <2>13, <3>2, <3>3 DEF Taken
    <3> QED
      BY <1>1, <2>4, <2>5, <2>6, <2>8, <3>4, PageStep
  <2>14. CASE n # limit
    <3> HIDE DEF items
    <3>1. n = Len(seq)
      BY <2>8, <2>14
    <3>2. Taken(seq, n)
      BY <1>1, <2>2, <2>3, <2>10, <2>12, <2>14, <3>1 DEF Taken
    <3> QED
      BY <1>1, <2>4, <2>5, <2>6, <2>8, <3>2, PageStep
  <2> QED
    BY <2>13, <2>14
<1> QED
  BY <1>3, <1>4, <1>5

\* What a client was after stays so or is no longer; what it was not after and
\* was there already does not become so.
LEMMA WantedKept ==
  ASSUME Typed, Times, Tabled, Typed', Times', Tabled', ask \in Calls, Paged(ask), UNCHANGED ask,
         db' = db \/ Grows(db, db', tick.begun)
  PROVE  /\ Source \subseteq Source'
         /\ \A r \in Source : /\ r \in Wanted(ask)' => r \in Wanted(ask)
                              /\ ItemOf(r)' = ItemOf(r)
                              /\ \A c : Behind(c, r)' <=> Behind(c, r)
<1>1. CASE ask.kind = "users"
  <2>1. Source \subseteq Source'
    BY <1>1 DEF Source, Grows
  <2>2. \A r \in Source : r \in Wanted(ask)' => r \in Wanted(ask)
    BY <1>1 DEF Source, Wanted
  <2>3. \A r \in Source : ItemOf(r)' = ItemOf(r) /\ \A c : Behind(c, r)' <=> Behind(c, r)
    BY <1>1 DEF ItemOf, Behind
  <2> QED
    BY <2>1, <2>2, <2>3
<1>2. CASE ask.kind # "users"
  <2> DEFINE T == TableOf(ask.chapter)
             f == ask.filter
  <2>1. Source = T /\ Source' = T'
    BY <1>2 DEF Source
  <2>2. T \subseteq T'
    BY DEF Grows, TableOf, ChapterRows
  <2>3. /\ Keyed(T) /\ Len(db.stamps) \in Nat
        /\ \A r \in T : r.tid \in DOMAIN db.stamps /\ r.tid \in 1..Len(db.stamps)
    BY TableFacts
  <2>4. /\ Keyed(T)' /\ Len(db'.stamps) \in Nat
        /\ \A r \in T' : r.tid \in 1..Len(db'.stamps)
    <3>1. ask.chapter \in Chapters \cup {None}
      BY CallsAssumption
    <3>2. Keyed(T)'
      BY <3>1 DEF Tabled, TableOf
    <3>3. db'.stamps \in Seq(StampRec)
      BY DEF Typed, Tables
    <3>4. DOMAIN db'.stamps = 1..Len(db'.stamps) /\ Len(db'.stamps) \in Nat
      BY <3>3, LenProperties
    <3>5. \A r \in T' : r.tid \in DOMAIN db'.stamps
      BY DEF Tabled, TableOf, ChapterRows
    <3> QED
      BY <3>2, <3>4, <3>5
  <2>5. \A r \in T : Stamp(db, r)' = Stamp(db, r)
    BY <2>3 DEF Stamp, Grows
  <2>6. \A r \in T : ItemOf(r)' = ItemOf(r) /\ \A c : Behind(c, r)' <=> Behind(c, r)
    BY <2>5 DEF ItemOf, Item, Behind
  <2> DEFINE U == TableOf(ask.chapter)'
  <2> HIDE DEF T
  <2>7. T \subseteq U /\ Keyed(U) /\ \A r \in U : r.tid \in 1..Len(db'.stamps)
    BY <2>2, <2>4 DEF T
  <2>8. Wanted(ask)' = CASE ask.kind = "rankings" ->
                              IF IsRankWindow(f) THEN LatestOfEachRank(db', U, f)
                              ELSE Matching(db', U, f)
                         [] ask.kind = "trace" ->
                              {r \in U : /\ IF ask.by = "user" THEN r.key = ask.subject
                                            ELSE r.rank = ask.subject
                                         /\ InSpan(f, db'.stamps[r.tid].ts)}
    BY <1>2, Zenon DEF Wanted, Stamp, Paged
  <2>9. Wanted(ask) = CASE ask.kind = "rankings" ->
                             IF IsRankWindow(f) THEN LatestOfEachRank(db, T, f)
                             ELSE Matching(db, T, f)
                        [] ask.kind = "trace" ->
                             {r \in T : /\ IF ask.by = "user" THEN r.key = ask.subject
                                           ELSE r.rank = ask.subject
                                        /\ InSpan(f, Stamp(db, r))}
    BY <1>2, Zenon DEF Wanted, Paged, T
  <2>10. \A r \in T : db'.stamps[r.tid].ts = Stamp(db, r)
    BY <2>5 DEF Stamp
  <2> HIDE DEF U
  <2>11. CASE ask.kind = "rankings" /\ IsRankWindow(f)
    <3>1. \A r : r \in LatestOfEachRank(db', U, f) <=>
                   /\ IsLatest(db', U, f, r) /\ InScores(f, r.score)
                   /\ f.cursor # None => AfterRank(f.cursor, r)
      BY <2>4, <2>7, WindowIs
    <3>2. \A r : r \in LatestOfEachRank(db, T, f) <=>
                   /\ IsLatest(db, T, f, r) /\ InScores(f, r.score)
                   /\ f.cursor # None => AfterRank(f.cursor, r)
      BY <2>3, WindowIs
    <3>3. \A r \in T : r \in Eligible(db', U, f) <=> r \in Eligible(db, T, f)
      BY <2>7, <2>10 DEF Eligible, Stamp
    <3>4. \A r \in T : IsLatest(db', U, f, r) => IsLatest(db, T, f, r)
      BY <3>3 DEF IsLatest, Eligible
    <3>5. \A r \in T : r \in Wanted(ask)' => r \in Wanted(ask)
      BY <2>8, <2>9, <2>11, <3>1, <3>2, <3>4
    <3> QED
      BY <2>1, <2>2, <2>6, <3>5 DEF T
  <2>12. CASE ask.kind = "rankings" /\ ~IsRankWindow(f)
    <3>1. \A r \in T : r \in Matching(db', U, f) => r \in Matching(db, T, f)
      BY <2>10 DEF Matching, Stamp
    <3>2. \A r \in T : r \in Wanted(ask)' => r \in Wanted(ask)
      BY <2>8, <2>9, <2>12, <3>1
    <3> QED
      BY <2>1, <2>2, <2>6, <3>2 DEF T
  <2>13. CASE ask.kind = "trace"
    <3>1. \A r \in T : r \in Wanted(ask)' => r \in Wanted(ask)
      BY <2>8, <2>9, <2>10, <2>13
    <3> QED
      BY <2>1, <2>2, <2>6, <3>1 DEF T
  <2> QED
    BY <1>2, <2>11, <2>12, <2>13 DEF Paged
<1> QED
  BY <1>1, <1>2

LEMMA OtherPages ==
  ASSUME Stages, [Next]_vars
  PROVE  /\ UNCHANGED ask
         /\ UNCHANGED pages \/ Open \/ RankingPage \/ UserPage \/ TracePage
<1>1. CASE Elapse \/ Tracker \/ UNCHANGED vars
  BY <1>1 DEF Elapse, Tracker, Begin, FetchFails, Fetched, LandMain, LandChapters, LandFails,
              readerVars, vars
<1>2. CASE Reader
  <2>1. CASE Open \/ RankingPage \/ UserPage \/ TracePage
    BY <2>1 DEF Open, RankingPage, UserPage, TracePage
  <2>2. CASE AskOverview \/ Top \/ OverviewSpan \/ Players \/ Lines \/ Status
    <3>1. CASE AskOverview \/ OverviewSpan
      BY <3>1 DEF AskOverview, OverviewSpan
    <3>2. CASE Top \/ Players \/ Status
      BY <3>2, Zenon DEF Top, Players, Status, Finds
    <3>3. CASE Lines
      BY <3>3, Zenon DEF Lines
    <3> QED
      BY <2>2, <3>1, <3>2, <3>3
  <2>3. CASE \E e \in {"early", "late"} : Edge(e)
    BY <2>3 DEF Edge
  <2>4. CASE AskSnapshot \/ Resolve \/ Items \/ AskSubject \/ ResolveSubject \/ SubjectTrace
    BY <2>4 DEF AskSnapshot, Resolve, Items, AskSubject, ResolveSubject, SubjectTrace
  <2>5. CASE \E k \in call.jobs : Enrich(k)
    BY <2>5 DEF Enrich
  <2>6. CASE ReplyOverview \/ ReplySnapshot
    BY <2>6 DEF ReplyOverview, ReplySnapshot
  <2> QED
    BY <1>2, <2>1, <2>2, <2>3, <2>4, <2>5, <2>6 DEF Reader
<1> QED
  BY <1>1, <1>2 DEF Next

LEMMA InitPages == Init => PagesInv
<1> SUFFICES ASSUME Init
             PROVE  PagesInv
  OBVIOUS
<1>1. pages = [state |-> "none", cursor |-> None, got |-> <<>>, edges |-> {}, base |-> {}]
  BY DEF Init
<1>2. pages.got \in Seq(Things) /\ Len(pages.got) = 0
  BY <1>1, EmptySeq
<1> QED
  BY <1>1, <1>2 DEF PagesInv

LEMMA PagesStep ==
  ASSUME Typed, Times, Tabled, Finite, Stages, PagesInv, [Next]_vars
  PROVE  PagesInv'
<1>1. /\ ask \in Calls /\ UNCHANGED ask /\ Typed' /\ Times' /\ Tabled'
      /\ db' = db \/ Grows(db, db', tick.begun)
  BY OtherPages, TypedStep, TimesStep, TablesStep DEF Stages
<1>2. CASE RankingPage \/ UserPage \/ TracePage
  BY <1>1, <1>2, PageActions
<1>3. CASE Open
  <2>1. /\ Paged(ask) /\ pages.state = "none" /\ UNCHANGED db
        /\ pages' = [pages EXCEPT !.state = "open", !.base = Wanted(ask)]
    BY <1>3 DEF Open, trackerVars
  <2>2. pages' = [state |-> "open", cursor |-> None, got |-> <<>>, edges |-> {},
                  base |-> Wanted(ask)]
    BY <2>1 DEF PagesInv
  <2>3. Wanted(ask) \subseteq Source
    BY <1>1, <2>1, SourceFacts
  <2>4. Source' = Source /\ (Paged(ask)' <=> Paged(ask))
    BY <1>1, <2>1 DEF Source, TableOf, ChapterRows, Paged
  <2>5. <<>> \in Seq(Things)' /\ Len(<<>>) = 0
    BY EmptySeq
  <2>6. \A r : Behind(None, r)'
    BY DEF Behind
  <2> QED
    BY <2>1, <2>2, <2>3, <2>4, <2>5, <2>6 DEF PagesInv
<1>4. CASE UNCHANGED pages
  <2>1. CASE pages.state = "none"
    <3>1. Things' = Things
      BY <1>1 DEF Things, IsThing
    <3> QED
      BY <1>4, <2>1, <3>1, EmptySeq DEF PagesInv
  <2>2. CASE pages.state # "none"
    <3>1. Paged(ask)
      BY <2>2 DEF PagesInv
    <3>2. /\ Source \subseteq Source'
          /\ \A r \in Source : /\ r \in Wanted(ask)' => r \in Wanted(ask)
                               /\ ItemOf(r)' = ItemOf(r)
                               /\ \A c : Behind(c, r)' <=> Behind(c, r)
      BY <1>1, <3>1, WantedKept
    <3>3. /\ Things' = Things /\ (Paged(ask)' <=> Paged(ask))
          /\ \A x, y : Before(x, y)' <=> Before(x, y)
          /\ \A x, y : UpTo(x, y)' <=> UpTo(x, y)
          /\ \A x : IsCursor(x)' <=> IsCursor(x)
      BY <1>1 DEF Things, IsThing, Before, UpTo, IsCursor, Paged
    <3>4. \A r \in pages'.base \cap Wanted(ask)' :
            \/ r \in pages'.edges
            \/ \E i \in 1..Len(pages'.got) : pages'.got[i] = ItemOf(r)'
            \/ pages'.state = "open" /\ Behind(pages.cursor, r)'
      BY <1>4, <3>2 DEF PagesInv
    <3> QED
      BY <1>4, <3>1, <3>2, <3>3, <3>4 DEF PagesInv
  <2> QED
    BY <2>1, <2>2
<1> QED
  BY <1>2, <1>3, <1>4, OtherPages

PagingInv == Typed /\ Times /\ Tabled /\ Finite /\ Stages /\ PagesInv

\* A client that has read to the last page, while the tracker wrote, has nothing twice and
\* all in order; of what its filter selected when it began and still selects, it lacks at
\* most the rows of the cursors (search_ranking_rows and its twin, search_users, the
\* traces), whatever the filter, the limit and the rows.
THEOREM PagesLoseNoMore == Spec => []PagesLoseOnlyCursors
<1>1. Init => PagingInv
  BY InitTimes, InitTabled, InitFinite, InitStages, InitPages DEF PagingInv
<1>2. PagingInv /\ [Next]_vars => PagingInv'
  BY TypedStep, TimesStep, TablesStep, FiniteStep, StagesStep, PagesStep DEF PagingInv
<1>3. PagingInv => PagesLoseOnlyCursors
  <2> SUFFICES ASSUME PagingInv, pages.state = "closed"
               PROVE  PagesLoseOnlyCursors
    BY DEF PagesLoseOnlyCursors
  <2>1. DOMAIN pages.got = 1..Len(pages.got)
    BY LenProperties DEF PagingInv, PagesInv
  <2> QED
    BY <2>1 DEF PagingInv, PagesInv, PagesLoseOnlyCursors
<1> QED
  BY <1>1, <1>2, <1>3, PTL DEF Spec

-----------------------------------------------------------------------------
(* A trace and the current row it is shown with.  *)

LEMMA NewestIs ==
  ASSUME NEW n \in Nat, NEW S, \A r \in S : r.tid \in 1..n, S # {}
  PROVE  Newest(S) \in S /\ \A q \in S : q.tid <= Newest(S).tid
<1> DEFINE tids == {r.tid : r \in S}
<1>1. tids \in SUBSET (1..n) /\ tids # {}
  OBVIOUS
<1>2. \A q \in S : q.tid \in tids
  OBVIOUS
<1> HIDE DEF tids
<1>3. Max(tids) \in tids /\ \A t \in tids : t <= Max(tids)
  BY <1>1, MaxOfNats
<1>4. PICK r \in S : r.tid = Max(tids)
  BY <1>3 DEF tids
<1>5. \A q \in S : q.tid <= r.tid
  BY <1>2, <1>3, <1>4
<1> QED
  BY <1>5 DEF Newest

LEMMA LatestIs ==
  ASSUME Typed, Times, Tabled, ask \in Calls, NEW by \in {"user", "rank"}, NEW subject,
         Latest(by, subject) # None
  PROVE  Latest(by, subject) \in TraceTable(by, subject)
<1> DEFINE S == TraceTable(by, subject)
<1>1. Latest(by, subject) = Newest(S)
  BY DEF Latest, LatestOfUser, LatestOfRank, LatestOfChapterUser, LatestOfChapterRank,
         TraceTable, TableOf
<1>2. \A r \in S : r.tid \in 1..Len(db.stamps)
  BY TableFacts DEF TraceTable
<1>3. Len(db.stamps) \in Nat
  BY TableFacts
<1> HIDE DEF S
<1>4. S # {}
  BY <1>1 DEF Newest
<1> QED
  BY <1>1, <1>2, <1>3, <1>4, NewestIs DEF S

\* The rows of a table stay, and are shown as before.
LEMMA TableKept ==
  ASSUME Typed, Times, Tabled, ask \in Calls, UNCHANGED ask,
         db' = db \/ Grows(db, db', tick.begun)
  PROVE  /\ TableOf(ask.chapter) \subseteq TableOf(ask.chapter)'
         /\ \A r \in TableOf(ask.chapter) : Item(db, r)' = Item(db, r)
<1> DEFINE T == TableOf(ask.chapter)
<1>1. T \subseteq T'
  BY DEF Grows, TableOf, ChapterRows
<1>2. \A r \in T : r.tid \in DOMAIN db.stamps
  BY TableFacts
<1>3. \A r \in T : Item(db, r)' = Item(db, r)
  BY <1>2 DEF Grows, Item, Stamp
<1> QED
  BY <1>1, <1>3

SubjectInv ==
  /\ call.todo \cap {"subject", "trace"} # {} => ask.kind = "subject"
  /\ "trace" \in call.todo /\ call.res.current # None =>
       \E r \in TraceTable(ask.by, ask.subject) : call.res.current = Item(db, r)
  /\ CurrentInTrace

LEMMA SubjectUntouched ==
  ASSUME Stages, [Next]_vars
  PROVE  \/ AskSubject \/ ResolveSubject \/ SubjectTrace
         \/ /\ call'.todo \cap {"subject", "trace"} \subseteq call.todo
            /\ call'.res.current = call.res.current
            /\ UNCHANGED answer \/ ask.kind # "subject"
<1> USE DEF Stages, NothingRead, Joined
<1>1. CASE Elapse \/ Tracker \/ UNCHANGED vars
  BY <1>1 DEF Elapse, Tracker, Begin, FetchFails, Fetched, LandMain, LandChapters, LandFails,
              readerVars, vars
<1>2. CASE Open \/ RankingPage \/ UserPage \/ TracePage
  <2>1. call' = call /\ answer' = answer
    BY <1>2 DEF Open, RankingPage, UserPage, TracePage
  <2> QED
    BY <2>1
<1>3. CASE AskOverview \/ OverviewSpan
  <2>1. CASE AskOverview
    BY <2>1 DEF AskOverview
  <2>2. CASE OverviewSpan
    BY <2>2 DEF OverviewSpan, Doing
  <2> QED
    BY <1>3, <2>1, <2>2
<1>4. CASE AskSnapshot
  BY <1>4 DEF AskSnapshot
<1>5. CASE Top \/ Players \/ Status
  <2>1. ASSUME NEW t, NEW next, NEW field \in {"top", "players", "status"}, NEW value,
               Finds(t, next, field, value), next \in {{}, {"span"}}
        PROVE  /\ call'.todo \cap {"subject", "trace"} \subseteq call.todo
               /\ call'.res.current = call.res.current
               /\ UNCHANGED answer
    BY <2>1 DEF Finds, Doing
  <2> QED
    BY <1>5, <2>1 DEF Top, Players, Status
<1>6. CASE Lines
  BY <1>6 DEF Lines, Doing
<1>7. ASSUME NEW e \in {"early", "late"}, Edge(e)
      PROVE  /\ call'.todo \subseteq call.todo
             /\ call'.res.current = call.res.current
             /\ UNCHANGED answer
  BY <1>7 DEF Edge, Doing
<1>8. CASE Resolve
  BY <1>8 DEF Resolve, Doing
<1>9. CASE Items
  BY <1>9 DEF Items, Doing
<1>10. ASSUME NEW k \in call.jobs, Enrich(k)
       PROVE  /\ call'.todo = call.todo /\ call'.res.current = call.res.current
              /\ UNCHANGED answer
  <2>1. PICK traces : call' = [call EXCEPT !.jobs = @ \ {k}, !.res.traces = traces]
    BY <1>10, EnrichIs, Zenon
  <2>2. UNCHANGED answer
    BY <1>10 DEF Enrich
  <2> QED
    BY <2>1, <2>2
<1>11. CASE ReplyOverview \/ ReplySnapshot
  BY <1>11 DEF ReplyOverview, ReplySnapshot
<1> QED
  BY <1>1, <1>2, <1>3, <1>4, <1>5, <1>6, <1>7, <1>8, <1>9, <1>10, <1>11 DEF Next, Reader

LEMMA SubjectStep ==
  ASSUME Typed, Times, Tabled, Finite, Stages, SubjectInv, [Next]_vars
  PROVE  SubjectInv'
<1>1. /\ ask \in Calls /\ UNCHANGED ask
      /\ db' = db \/ Grows(db, db', tick.begun)
  BY OtherPages, TablesStep DEF Stages
<1>2. CASE AskSubject
  BY <1>2 DEF AskSubject, Stages, NothingRead, SubjectInv, CurrentInTrace
<1>3. CASE ResolveSubject
  <2>1. ask.kind = "subject" /\ ask.by \in {"user", "rank"} /\ UNCHANGED <<db, answer>>
    BY <1>3, CallsAssumption DEF ResolveSubject, Doing, SubjectInv, Stages, trackerVars
  <2> DEFINE latest == Latest(ask.by, ask.subject)
  <2>2. call' = IF latest = None /\ ask.by = "rank"
                THEN [call EXCEPT !.state = "done", !.todo = {}]
                ELSE [call EXCEPT !.todo = {"trace"},
                  !.res.current = IF latest = None THEN None ELSE Item(db, latest)]
    BY <1>3 DEF ResolveSubject
  <2>3. latest # None => latest \in TraceTable(ask.by, ask.subject)
    BY <1>1, <2>1, LatestIs
  <2> HIDE DEF latest
  <2>4. "trace" \in call'.todo /\ call'.res.current # None =>
          latest \in TraceTable(ask.by, ask.subject) /\ call'.res.current = Item(db, latest)
    BY <2>2, <2>3 DEF Stages, NothingRead
  <2>5. /\ TraceTable(ask.by, ask.subject)' = TraceTable(ask.by, ask.subject)
        /\ Item(db, latest) = db'.stamps[latest.tid].ts \/ TRUE
    BY <1>1, <2>1 DEF TraceTable, TableOf, ChapterRows
  <2>6. ("trace" \in call.todo /\ call.res.current # None =>
           \E r \in TraceTable(ask.by, ask.subject) : call.res.current = Item(db, r))'
    BY <2>1, <2>4, <2>5 DEF Item, Stamp
  <2>7. CurrentInTrace'
    BY <1>1, <2>1 DEF SubjectInv, CurrentInTrace
  <2> QED
    BY <1>1, <2>1, <2>6, <2>7 DEF SubjectInv
<1>4. CASE SubjectTrace
  <2> DEFINE all == [from |-> None, upto |-> None, cursor |-> None, limit |-> None]
             rows == TraceOf(ask.chapter, ask.by, ask.subject, all)
             trace == [i \in DOMAIN rows |-> Item(db, rows[i])]
             hits == {r \in TraceTable(ask.by, ask.subject) :
                        /\ InSpan(all, Stamp(db, r))
                        /\ all.cursor # None => Stamp(db, r) > all.cursor}
  <2>1. /\ ask.kind = "subject" /\ ask.by \in {"user", "rank"} /\ "trace" \in call.todo
        /\ call'.todo = {}
    BY <1>4, CallsAssumption DEF SubjectTrace, Doing, SubjectInv, Stages
  <2>2. answer' = IF rows = <<>> THEN None
                  ELSE [current |-> call.res.current, trace |-> trace]
    BY <1>4, Zenon DEF SubjectTrace
  <2>3. PICK seq : Lists(hits, seq) /\ TracePart(rows, seq, all.limit)
    BY <1>1, <2>1, TraceIs
  <2>4. rows = seq /\ hits = TraceTable(ask.by, ask.subject)
    BY <2>3 DEF TracePart, InSpan
  <2> HIDE DEF rows, hits
  <2>5. ASSUME call.res.current # None
        PROVE  \E i \in DOMAIN trace : trace[i] = call.res.current
    <3>1. PICK r \in TraceTable(ask.by, ask.subject) : call.res.current = Item(db, r)
      BY <2>1, <2>5 DEF SubjectInv
    <3>2. PICK i \in 1..Len(seq) : seq[i] = r
      BY <2>3, <2>4, <3>1 DEF Lists
    <3>3. DOMAIN rows = 1..Len(seq)
      BY <2>3, <2>4, LenProperties DEF Lists
    <3>4. i \in DOMAIN trace /\ trace[i] = Item(db, r)
      BY <2>4, <3>2, <3>3
    <3> QED
      BY <3>1, <3>4
  <2> HIDE DEF trace
  <2>6. CurrentInTrace'
    BY <1>1, <2>2, <2>5 DEF CurrentInTrace
  <2> QED
    BY <2>1, <2>6 DEF SubjectInv
<1>5. CASE /\ call'.todo \cap {"subject", "trace"} \subseteq call.todo
           /\ call'.res.current = call.res.current
           /\ UNCHANGED answer \/ ask.kind # "subject"
  <2>1. /\ TableOf(ask.chapter) \subseteq TableOf(ask.chapter)'
        /\ \A r \in TableOf(ask.chapter) : Item(db, r)' = Item(db, r)
    BY <1>1, TableKept
  <2>2. \A r \in TraceTable(ask.by, ask.subject) :
          r \in TraceTable(ask.by, ask.subject)' /\ Item(db, r)' = Item(db, r)
    BY <1>1, <2>1 DEF TraceTable
  <2>3. ("trace" \in call.todo /\ call.res.current # None =>
           \E r \in TraceTable(ask.by, ask.subject) : call.res.current = Item(db, r))'
    BY <1>5, <2>2 DEF SubjectInv
  <2>4. CurrentInTrace'
    BY <1>1, <1>5 DEF SubjectInv, CurrentInTrace
  <2> QED
    BY <1>1, <1>5, <2>3, <2>4 DEF SubjectInv
<1> QED
  BY <1>2, <1>3, <1>4, <1>5, SubjectUntouched

SubjectsInv == Typed /\ Times /\ Tabled /\ Finite /\ Stages /\ SubjectInv

\* A trace is read after the current row it is shown with, while others take that rank and
\* the user another one (build_subject_trace_response): the row is in the trace.
THEOREM TracesHoldTheCurrentRow == Spec => []CurrentInTrace
<1>1. Init => SubjectsInv
  BY InitTimes, InitTabled, InitFinite, InitStages DEF SubjectsInv, SubjectInv, CurrentInTrace, Init
<1>2. SubjectsInv /\ [Next]_vars => SubjectsInv'
  BY TypedStep, TimesStep, TablesStep, FiniteStep, StagesStep, SubjectStep DEF SubjectsInv
<1>3. SubjectsInv => CurrentInTrace
  BY DEF SubjectsInv, SubjectInv
<1> QED
  BY <1>1, <1>2, <1>3, PTL DEF Spec

-----------------------------------------------------------------------------
(* The type invariant.  *)

Bounds == now \in 1..MaxNow /\ faults \in 0..MaxFaults

CallInv == call.jobs \subseteq DOMAIN call.res.items /\ (answer # None => call.state = "done")

LEMMA BoundsStep ==
  ASSUME Typed, Bounds, [Next]_vars
  PROVE  Bounds'
<1> USE BoundsAssumption DEF Bounds, Typed
<1>1. CASE Elapse \/ Tracker \/ UNCHANGED vars
  BY <1>1 DEF Elapse, Tracker, Begin, FetchFails, Fetched, LandMain, LandChapters, LandFails,
              Fault, vars
<1>2. CASE Reader
  <2>1. now' = now
    BY <1>2, ReaderStep
  <2>2. faults' = faults \/ (faults < MaxFaults /\ faults' = faults + 1)
    <3>1. CASE Open \/ RankingPage \/ UserPage \/ TracePage
      BY <3>1 DEF Open, RankingPage, UserPage, TracePage
    <3>2. CASE AskOverview \/ OverviewSpan
      BY <3>2 DEF AskOverview, OverviewSpan
    <3>3. CASE Top \/ Players \/ Status
      BY <3>3, Zenon DEF Top, Players, Status, Finds
    <3>4. CASE Lines
      BY <3>4, Zenon DEF Lines, Fault
    <3>5. CASE \E e \in {"early", "late"} : Edge(e)
      BY <3>5, Zenon DEF Edge, Fault
    <3>6. CASE AskSnapshot \/ Resolve \/ Items \/ AskSubject \/ ResolveSubject \/ SubjectTrace
      BY <3>6, Zenon DEF AskSnapshot, Resolve, Items, AskSubject, ResolveSubject, SubjectTrace
    <3>7. CASE \E k \in call.jobs : Enrich(k)
      BY <3>7, Zenon DEF Enrich, Fault
    <3>8. CASE ReplyOverview \/ ReplySnapshot
      BY <3>8, Zenon DEF ReplyOverview, ReplySnapshot
    <3> QED
      BY <1>2, <3>1, <3>2, <3>3, <3>4, <3>5, <3>6, <3>7, <3>8 DEF Reader
  <2> QED
    BY <2>1, <2>2
<1> QED
  BY <1>1, <1>2 DEF Next

LEMMA CallStep ==
  ASSUME Stages, CallInv, [Next]_vars
  PROVE  CallInv'
<1> USE DEF Stages, NothingRead, CallInv
<1>1. CASE Elapse \/ Tracker \/ UNCHANGED vars
  BY <1>1 DEF Elapse, Tracker, Begin, FetchFails, Fetched, LandMain, LandChapters, LandFails,
              readerVars, vars
<1>2. CASE Open \/ RankingPage \/ UserPage \/ TracePage
  <2>1. call' = call /\ answer' = answer
    BY <1>2 DEF Open, RankingPage, UserPage, TracePage
  <2> QED
    BY <2>1
<1>3. CASE AskOverview
  BY <1>3 DEF AskOverview
<1>4. CASE AskSnapshot
  BY <1>4 DEF AskSnapshot
<1>5. CASE AskSubject
  BY <1>5 DEF AskSubject
<1>6. CASE OverviewSpan
  BY <1>6 DEF OverviewSpan, Doing
<1>7. CASE Top \/ Players \/ Status
  <2>1. ASSUME NEW t, NEW next, NEW field \in {"top", "players", "status"}, NEW value,
               Finds(t, next, field, value)
        PROVE  CallInv'
    BY <2>1 DEF Finds, Doing
  <2> QED
    BY <1>7, <2>1, Zenon DEF Top, Players, Status
<1>8. CASE Lines
  BY <1>8 DEF Lines, Doing
<1>9. ASSUME NEW e \in {"early", "late"}, Edge(e)
      PROVE  CallInv'
  BY <1>9 DEF Edge, Doing
<1>10. CASE Resolve
  BY <1>10 DEF Resolve, Doing
<1>11. CASE Items
  BY <1>11 DEF Items, Doing
<1>12. CASE ResolveSubject
  BY <1>12 DEF ResolveSubject, Doing
<1>13. CASE SubjectTrace
  BY <1>13 DEF SubjectTrace, Doing
<1>14. ASSUME NEW k \in call.jobs, Enrich(k)
       PROVE  CallInv'
  <2>1. PICK traces : call' = [call EXCEPT !.jobs = @ \ {k}, !.res.traces = traces]
    BY <1>14, EnrichIs, Zenon
  <2>2. UNCHANGED answer
    BY <1>14 DEF Enrich
  <2> QED
    BY <2>1, <2>2
<1>15. CASE ReplyOverview \/ ReplySnapshot
  BY <1>15 DEF ReplyOverview, ReplySnapshot
<1> QED
  BY <1>1, <1>2, <1>3, <1>4, <1>5, <1>6, <1>7, <1>8, <1>9, <1>10, <1>11, <1>12, <1>13, <1>14,
     <1>15 DEF Next, Reader

TypeInv == PagingInv /\ Bounds /\ CallInv

\* The tables, the tick, the pages and the queries of a request have their types: in
\* particular every row is of a known time id and user, and a cursor is a row that was read.
THEOREM ReadsTyped == Spec => []TypeOK
<1>1. Init => TypeInv
  <2> SUFFICES ASSUME Init
               PROVE  TypeInv
    OBVIOUS
  <2>1. Bounds
    BY BoundsAssumption DEF Bounds, Init
  <2>2. CallInv
    BY DEF CallInv, Init
  <2> QED
    BY <2>1, <2>2, InitTimes, InitTabled, InitFinite, InitStages, InitPages
       DEF TypeInv, PagingInv
<1>2. TypeInv /\ [Next]_vars => TypeInv'
  BY TypedStep, TimesStep, TablesStep, FiniteStep, StagesStep, PagesStep, BoundsStep, CallStep
     DEF TypeInv, PagingInv
<1>3. TypeInv => TypeOK
  <2> SUFFICES ASSUME TypeInv
               PROVE  TypeOK
    OBVIOUS
  <2> USE DEF TypeInv, PagingInv
  <2>1. /\ now \in 1..MaxNow /\ faults \in 0..MaxFaults /\ ask \in Calls
        /\ \A r \in db.rows \cup db.wl : r.tid \in DOMAIN db.stamps /\ r.key \in db.users
    BY DEF Bounds, Stages, Tabled
  <2>2. /\ tick.phase \in {"idle", "fetch", "main", "chapters"}
        /\ tick.begun <= now /\ tick.time <= now
        /\ game \in DOMAIN Payloads /\ tick.data <= game
    BY PayloadsAssumption DEF Typed, Ticks, Times, Clocks
  <2>3. Source \subseteq db.rows \cup db.wl \cup {[key |-> u] : u \in db.users}
    BY DEF Source, TableOf, ChapterRows
  <2>4. /\ pages.state \in {"none", "open", "closed"}
        /\ \A r \in pages.edges : r \in pages.base \cup db.rows \cup db.wl
                                            \cup {[key |-> u] : u \in db.users}
    BY <2>3 DEF PagesInv
  <2>5. /\ call.state \in {"none", "run", "done"}
        /\ call.todo \subseteq Queries /\ call.jobs \subseteq DOMAIN call.res.items
        /\ call.todo # {} => call.state = "run"
        /\ answer # None => call.state = "done"
    BY DEF Stages, CallInv, Queries, Joined
  <2> QED
    BY <2>1, <2>2, <2>4, <2>5 DEF TypeOK
<1> QED
  BY <1>1, <1>2, <1>3, PTL DEF Spec

-----------------------------------------------------------------------------
(* A replay of a moment that has passed.  *)

\* The table U of e is the table T of d and rows that are later than at.
Passed(d, e, T, U, at) ==
  /\ T \subseteq U /\ Keyed(U) /\ \E n \in Nat : \A r \in U : r.tid \in 1..n
  /\ \A r \in T : Stamp(e, r) = Stamp(d, r)
  /\ \A r \in U \ T : ~(Stamp(e, r) <= at)
  /\ at \in Int /\ at # None

LEMMA RowsPassed ==
  ASSUME NEW d, NEW e, NEW T, NEW U, NEW at, Passed(d, e, T, U, at), NEW f, f.at = at
  PROVE  /\ LatestOfEachRank(e, U, f) = LatestOfEachRank(d, T, f)
         /\ Matching(e, U, f) = Matching(d, T, f)
<1>1. PICK n \in Nat : \A r \in U : r.tid \in 1..n
  BY DEF Passed
<1>2. T \subseteq U /\ Keyed(U) /\ Keyed(T)
  BY DEF Passed, Keyed
<1>3. Eligible(e, U, f) = Eligible(d, T, f)
  <2>1. HasTimeFilter(f)
    BY DEF HasTimeFilter, Passed
  <2>2. \A r : r \in Eligible(e, U, f) => r \in T
    BY <2>1 DEF Eligible, Passed
  <2>3. \A r \in T : r \in Eligible(e, U, f) <=> r \in Eligible(d, T, f)
    BY <1>2 DEF Eligible, Passed
  <2>4. \A r : r \in Eligible(d, T, f) => r \in T
    BY DEF Eligible
  <2> QED
    BY <2>2, <2>3, <2>4
<1>4. \A r : r \in LatestOfEachRank(e, U, f) <=> r \in LatestOfEachRank(d, T, f)
  <2>1. \A r : r \in LatestOfEachRank(e, U, f) <=>
                 /\ IsLatest(e, U, f, r) /\ InScores(f, r.score)
                 /\ f.cursor # None => AfterRank(f.cursor, r)
    BY <1>1, <1>2, WindowIs
  <2>2. \A r : r \in LatestOfEachRank(d, T, f) <=>
                 /\ IsLatest(d, T, f, r) /\ InScores(f, r.score)
                 /\ f.cursor # None => AfterRank(f.cursor, r)
    BY <1>1, <1>2, WindowIs
  <2> QED
    BY <1>3, <2>1, <2>2 DEF IsLatest
<1>5. \A r : r \in Matching(e, U, f) <=> r \in Matching(d, T, f)
  <2>1. \A r \in U : r \in Matching(e, U, f) => r \in T
    BY DEF Matching, Passed
  <2>2. \A r \in T : r \in Matching(e, U, f) <=> r \in Matching(d, T, f)
    BY <1>2 DEF Matching, Passed
  <2>3. /\ \A r : r \in Matching(e, U, f) => r \in U
        /\ \A r : r \in Matching(d, T, f) => r \in T
    BY DEF Matching
  <2> QED
    BY <2>1, <2>2, <2>3
<1> QED
  BY <1>4, <1>5

LEMMA EdgesPassed ==
  ASSUME NEW d, NEW e, NEW T, NEW U, NEW at, Passed(d, e, T, U, at), NEW span, span.upto = at,
         NEW ranks, NEW edge \in {"early", "late"}
  PROVE  RankEdge(e, U, ranks, edge, span) = RankEdge(d, T, ranks, edge, span)
<1> DEFINE inner == EdgeRows(d, T, ranks, span)
           tids(k) == {r.tid : r \in {r \in inner : r.rank = k}}
           tid(k) == IF edge = "early" THEN Min(tids(k)) ELSE Max(tids(k))
           F(k) == LET r == CHOOSE r \in T : r.rank = k /\ r.tid = tid(k)
                   IN [ts |-> Stamp(d, r), score |-> r.score]
           G(k) == LET r == CHOOSE r \in U : r.rank = k /\ r.tid = tid(k)
                   IN [ts |-> Stamp(e, r), score |-> r.score]
           D == {r.rank : r \in inner}
<1>1. PICK n \in Nat : \A r \in U : r.tid \in 1..n
  BY DEF Passed
<1>2. T \subseteq U /\ Keyed(U) /\ inner \subseteq T
  BY DEF Passed, EdgeRows
<1>3. EdgeRows(e, U, ranks, span) = inner
  <2>1. \A r \in U : r \in EdgeRows(e, U, ranks, span) => r \in T
    BY DEF EdgeRows, InSpan, Passed
  <2>2. \A r \in T : r \in EdgeRows(e, U, ranks, span) <=> r \in inner
    BY <1>2 DEF EdgeRows, InSpan, Passed
  <2>3. \A r : r \in EdgeRows(e, U, ranks, span) => r \in U
    BY DEF EdgeRows
  <2> HIDE DEF inner
  <2> QED
    BY <1>2, <2>1, <2>2, <2>3
<1>4. RankEdge(d, T, ranks, edge, span) = [k \in D |-> F(k)]
  BY Zenon DEF RankEdge
<1>5. RankEdge(e, U, ranks, edge, span) = [k \in D |-> G(k)]
  BY <1>3, Zenon DEF RankEdge
<1>6. ASSUME NEW k \in D
      PROVE  F(k) = G(k)
  <2> HIDE DEF inner
  <2>1. tids(k) \in SUBSET (1..n) /\ tids(k) # {}
    BY <1>1, <1>2
  <2> DEFINE t == tid(k)  S == tids(k)
  <2>2. t \in S
    <3>1. S \in SUBSET Nat
      BY <2>1
    <3>2. Max(S) \in S /\ Min(S) \in S
      <4> HIDE DEF S
      <4>1. S \in SUBSET (1..n) /\ S # {}
        BY <2>1 DEF S
      <4> QED
        BY <3>1, <4>1, MinOfNats, MaxOfNats
    <3> QED
      BY <3>2
  <2>3. PICK r \in inner : r.rank = k /\ r.tid = t
    BY <2>2
  <2> HIDE DEF t, S
  <2>4. r \in T /\ r \in U
    BY <1>2
  <2>5. \A x \in U : x.rank = k /\ x.tid = t => x = r
    BY <1>2, <2>3, <2>4 DEF Keyed
  <2>6. (CHOOSE x \in T : x.rank = k /\ x.tid = t) = r
    BY <1>2, <2>3, <2>4, <2>5
  <2>7. (CHOOSE x \in U : x.rank = k /\ x.tid = t) = r
    BY <2>3, <2>4, <2>5
  <2>8. Stamp(e, r) = Stamp(d, r)
    BY <2>4 DEF Passed
  <2>9. F(k) = [ts |-> Stamp(d, r), score |-> r.score]
    BY <2>6 DEF t
  <2>10. G(k) = [ts |-> Stamp(e, r), score |-> r.score]
    BY <2>7 DEF t
  <2> QED
    BY <2>8, <2>9, <2>10
<1> HIDE DEF F, G, D
<1> QED
  BY <1>4, <1>5, <1>6

LEMMA HeartbeatPassed ==
  ASSUME NEW d, NEW e, NEW at \in Int, at # None,
         \A i \in DOMAIN d.stamps : i \in DOMAIN e.stamps /\ e.stamps[i] = d.stamps[i],
         \A i \in DOMAIN e.stamps : i \in DOMAIN d.stamps \/ ~(e.stamps[i].ts <= at)
  PROVE  LatestHeartbeat(e, at) = LatestHeartbeat(d, at)
<1> DEFINE S(x) == {x.stamps[i] : i \in {i \in DOMAIN x.stamps :
                                           at # None => x.stamps[i].ts <= at}}
<1>1. S(e) = S(d)
  <2>1. \A s \in S(e) : s \in S(d)
    OBVIOUS
  <2>2. \A s \in S(d) : s \in S(e)
    OBVIOUS
  <2> HIDE DEF S
  <2>3. \A s : s \in S(e) <=> s \in S(d)
    BY <2>1, <2>2
  <2> QED
    BY <2>3
<1> DEFINE L(X) == IF X = {} THEN None ELSE CHOOSE s \in X : \A t \in X : t.ts <= s.ts
<1>2. LatestHeartbeat(e, at) = L(S(e)) /\ LatestHeartbeat(d, at) = L(S(d))
  BY Zenon DEF LatestHeartbeat
<1> HIDE DEF S, L
<1> QED
  BY <1>1, <1>2

LEMMA PlayersPassed ==
  ASSUME NEW d, NEW e, NEW T, NEW U, NEW at, Passed(d, e, T, U, at), NEW span, span.upto = at,
         NEW top, top \subseteq T,
         \A r \in T : Stamp(d, r) \in Nat,
         \A q, r \in T : Stamp(d, q) = Stamp(d, r) => q.tid = r.tid
  PROVE  PlayerGrowths(e, U, top, span) = PlayerGrowths(d, T, top, span)
<1> DEFINE keys == {r.key : r \in top}
           H == {r \in T : r.key \in keys /\ InSpan(span, Stamp(d, r))}
           D == {r.key : r \in H}
           F(u) == CHOOSE r \in H : /\ r.key = u
                                    /\ \A q \in H : q.key = u => Stamp(d, r) <= Stamp(d, q)
           G(u) == CHOOSE r \in H : /\ r.key = u
                                    /\ \A q \in H : q.key = u => Stamp(e, r) <= Stamp(e, q)
           first == EarliestByUser(d, T, keys, span)
           second == EarliestByUser(e, U, keys, span)
<1>1. T \subseteq U /\ Keyed(T) /\ \A r \in T : Stamp(e, r) = Stamp(d, r)
  BY DEF Passed, Keyed
<1>2. {r \in U : r.key \in keys /\ InSpan(span, Stamp(e, r))} = H
  <2> DEFINE V == {r \in U : r.key \in keys /\ InSpan(span, Stamp(e, r))}
  <2> HIDE DEF keys
  <2>1. \A r \in V : r \in T
    BY DEF InSpan, Passed
  <2>2. \A r \in T : r \in V <=> r \in H
    BY <1>1 DEF InSpan
  <2>3. \A r \in H : r \in T
    OBVIOUS
  <2>4. V = {r \in U : r.key \in keys /\ InSpan(span, Stamp(e, r))}
    OBVIOUS
  <2> HIDE DEF V, H
  <2>5. \A r : r \in V <=> r \in H
    BY <2>1, <2>2, <2>3
  <2>6. V = H
    BY <2>5
  <2> QED
    BY <2>4, <2>6
<1> DEFINE I == {r \in U : r.key \in keys /\ InSpan(span, Stamp(e, r))}
           E(u) == CHOOSE r \in I : /\ r.key = u
                                      /\ \A q \in I : q.key = u => Stamp(e, r) <= Stamp(e, q)
<1>30. second = [u \in {r.key : r \in I} |-> E(u)]
  <2> HIDE DEF keys
  <2> QED
    BY DEF EarliestByUser
<1>31. I = H
  BY <1>2
<1>3. first = [u \in D |-> F(u)]
  <2> HIDE DEF keys
  <2> QED
    BY DEF EarliestByUser
<1>4. second = [u \in D |-> G(u)]
  <2> HIDE DEF I, H, second
  <2> QED
    BY <1>30, <1>31
<1>5. ASSUME NEW u \in D
      PROVE  F(u) = G(u) /\ F(u) \in T
  <2> DEFINE times == {Stamp(d, r) : r \in {r \in H : r.key = u}}
  <2>1. H \subseteq T /\ \E r \in H : r.key = u
    OBVIOUS
  <2> HIDE DEF H
  <2>2. times \in SUBSET Nat /\ times # {}
    BY <2>1
  <2>3. \A q \in H : q.key = u => Stamp(d, q) \in times
    OBVIOUS
  <2>4. \A t \in times : \E r \in H : r.key = u /\ Stamp(d, r) = t
    OBVIOUS
  <2> HIDE DEF times
  <2>5. Min(times) \in times /\ \A t \in times : Min(times) <= t
    BY <2>2, MinOfNats
  <2>6. PICK r \in H : r.key = u /\ Stamp(d, r) = Min(times)
    BY <2>4, <2>5
  <2>7. \A q \in H : q.key = u => Stamp(d, r) <= Stamp(d, q)
    BY <2>3, <2>5, <2>6
  <2>8. ASSUME NEW x \in H, x.key = u, \A q \in H : q.key = u => Stamp(d, x) <= Stamp(d, q)
        PROVE  x = r
    <3>1. Stamp(d, x) <= Stamp(d, r) /\ Stamp(d, r) <= Stamp(d, x)
      BY <2>6, <2>7, <2>8
    <3>2. Stamp(d, x) \in Nat /\ Stamp(d, r) \in Nat /\ x \in T /\ r \in T
      BY <2>1
    <3>3. Stamp(d, x) = Stamp(d, r)
      BY <3>1, <3>2
    <3>4. x.tid = r.tid
      BY <3>2, <3>3
    <3> QED
      BY <1>1, <2>6, <2>8, <3>2, <3>4 DEF Keyed
  <2>9. F(u) = r
    BY <2>6, <2>7, <2>8
  <2>10. G(u) = r
    <3>1. \A x \in H : Stamp(e, x) = Stamp(d, x)
      BY <1>1, <2>1
    <3>2. r.key = u /\ \A q \in H : q.key = u => Stamp(e, r) <= Stamp(e, q)
      BY <2>6, <2>7, <3>1
    <3>3. \A x \in H : x.key = u /\ (\A q \in H : q.key = u => Stamp(e, x) <= Stamp(e, q))
            => x = r
      BY <2>8, <3>1
    <3> QED
      BY <3>2, <3>3
  <2> HIDE DEF F, G
  <2> QED
    BY <2>1, <2>9, <2>10
<1> HIDE DEF F, G, D, H
<1>6. first = second
  BY <1>3, <1>4, <1>5
<1>7. \A r \in {r \in top : r.key \in DOMAIN first} :
        PlayerGrowth(e, r, first[r.key]) = PlayerGrowth(d, r, first[r.key])
  <2> TAKE r \in {r \in top : r.key \in DOMAIN first}
  <2>1. r \in T /\ first[r.key] \in T
    BY <1>3, <1>5
  <2> HIDE DEF first
  <2>2. Stamp(e, r) = Stamp(d, r) /\ Stamp(e, first[r.key]) = Stamp(d, first[r.key])
    BY <1>1, <2>1
  <2> QED
    BY <2>2 DEF PlayerGrowth
<1> DEFINE R == {r \in top : r.key \in DOMAIN first}
<1>8. PlayerGrowths(d, T, top, span) = {PlayerGrowth(d, r, first[r.key]) : r \in R} \ {None}
  BY DEF PlayerGrowths
<1>9. PlayerGrowths(e, U, top, span) = {PlayerGrowth(e, r, second[r.key])
                                          : r \in {r \in top : r.key \in DOMAIN second}} \ {None}
  BY DEF PlayerGrowths
<1> HIDE DEF first, second
<1>10. PlayerGrowths(e, U, top, span) = {PlayerGrowth(e, r, first[r.key]) : r \in R} \ {None}
  BY <1>6, <1>9
<1> HIDE DEF R
<1>11. \A r \in R : PlayerGrowth(e, r, first[r.key]) = PlayerGrowth(d, r, first[r.key])
  BY <1>7 DEF R
<1> QED
  BY <1>8, <1>10, <1>11

-----------------------------------------------------------------------------
(* What an overview at a past moment reads, of a table T of d.  *)

ReplayFilter(at) == RankFilter(1..TopLimit, at, TopLimit)

TopHits(d, T, at) ==
  IF IsRankWindow(ReplayFilter(at)) THEN Ordered(LatestOfEachRank(d, T, ReplayFilter(at)), ByRank)
  ELSE Ordered(Matching(d, T, ReplayFilter(at)), ByMoment)

TopIn(d, T, at) == Page(TopHits(d, T, at), TopLimit).rows

RowsIn(seq) == {seq[i] : i \in DOMAIN seq}

ReplaySpan(at) == [from |-> at - ask.interval, upto |-> at]

PlayersIn(d, T, at) == PlayerGrowths(d, T, RowsIn(TopIn(d, T, at)), ReplaySpan(at))

LinesIn(d, T, at) ==
  RankEdge(d, T, {k \in LineRanks : k > TopLimit}, "late", [from |-> None, upto |-> at])

EdgeIn(d, T, at, edge) == RankEdge(d, T, 1..TopLimit \cup LineRanks, edge, ReplaySpan(at))

ShownIn(d, T, at) == [i \in DOMAIN TopIn(d, T, at) |-> Item(d, TopIn(d, T, at)[i])]

\* A page has rows of the table.
LEMMA PageRows ==
  ASSUME NEW d, NEW T, IsTable(T), IsFiniteSet(T), NEW n \in Nat, \A r \in T : r.tid \in 1..n,
         NEW f, f.limit \in Nat
  PROVE  LET hits == IF IsRankWindow(f) THEN Ordered(LatestOfEachRank(d, T, f), ByRank)
                     ELSE Ordered(Matching(d, T, f), ByMoment)
         IN RowsIn(Page(hits, f.limit).rows) \subseteq T
<1> DEFINE W == LatestOfEachRank(d, T, f)
           M == Matching(d, T, f)
           seq == IF IsRankWindow(f) THEN Ordered(W, ByRank) ELSE Ordered(M, ByMoment)
<1>1. W \subseteq T /\ \A q, r \in W : q.rank = r.rank => q = r
  <2>1. \A r : r \in W => IsLatest(d, T, f, r)
    BY WindowIs DEF IsTable
  <2> HIDE DEF W
  <2>2. W \subseteq T
    BY <2>1 DEF IsLatest, Eligible
  <2>3. ASSUME NEW q \in W, NEW r \in W, q.rank = r.rank
        PROVE  q = r
    <3>1. q.tid <= r.tid /\ r.tid <= q.tid
      BY <2>1, <2>3 DEF IsLatest
    <3>2. q.tid = r.tid
      BY <2>2, <3>1 DEF IsTable
    <3> QED
      BY <2>2, <2>3, <3>2 DEF IsTable, Keyed
  <2> QED
    BY <2>2, <2>3
<1>2. M \subseteq T
  BY DEF Matching
<1>3. seq \in Seq(T)
  <2> HIDE DEF W, M
  <2>1. Lists(W, Ordered(W, ByRank))
    BY <1>1, FS_Subset, OrderedByRank
  <2>2. Lists(M, Ordered(M, ByMoment))
    BY <1>2, FS_Subset, OrderedByMoment
  <2>3. Ordered(W, ByRank) \in Seq(T) /\ Ordered(M, ByMoment) \in Seq(T)
    BY <1>1, <1>2, <2>1, <2>2, SeqDef DEF Lists
  <2> QED
    BY <2>3
<1> HIDE DEF seq
<1>4. Page(seq, f.limit).rows \in Seq(T)
  <2>1. Len(seq) <= f.limit => Page(seq, f.limit).rows = seq
    BY <1>3, PageIs, LenProperties
  <2> QED
    BY <1>3, <2>1, PageIs
<1>5. \A i \in DOMAIN Page(seq, f.limit).rows : Page(seq, f.limit).rows[i] \in T
  BY <1>4, ElementOfSeq, LenProperties
<1>6. RowsIn(Page(seq, f.limit).rows) \subseteq T
  BY <1>5 DEF RowsIn
<1> QED
  BY <1>6 DEF seq

\* The top ranks are rows of the table.
LEMMA TopAreRows ==
  ASSUME NEW d, NEW T, IsTable(T), IsFiniteSet(T), NEW n \in Nat, \A r \in T : r.tid \in 1..n,
         NEW at
  PROVE  RowsIn(TopIn(d, T, at)) \subseteq T
<1> DEFINE f == ReplayFilter(at)
<1>1. f.limit = TopLimit /\ TopLimit \in Nat
  BY BoundsAssumption DEF ReplayFilter, RankFilter
<1>2. TopIn(d, T, at) = Page(TopHits(d, T, at), f.limit).rows
  BY <1>1 DEF TopIn
<1> HIDE DEF f
<1>3. TopHits(d, T, at) = IF IsRankWindow(f) THEN Ordered(LatestOfEachRank(d, T, f), ByRank)
                          ELSE Ordered(Matching(d, T, f), ByMoment)
  BY Zenon DEF TopHits, f
<1> QED
  BY <1>1, <1>2, <1>3, PageRows

\* None of it changes when only later rows are written.
LEMMA ReplayPassed ==
  ASSUME NEW d, NEW e, NEW T, NEW U, NEW at, Passed(d, e, T, U, at), IsTable(T), IsFiniteSet(T),
         \A r \in T : Stamp(d, r) \in Nat,
         \A q, r \in T : Stamp(d, q) = Stamp(d, r) => q.tid = r.tid
  PROVE  /\ TopIn(e, U, at) = TopIn(d, T, at)
         /\ PlayersIn(e, U, at) = PlayersIn(d, T, at)
         /\ LinesIn(e, U, at) = LinesIn(d, T, at)
         /\ \A edge \in {"early", "late"} : EdgeIn(e, U, at, edge) = EdgeIn(d, T, at, edge)
         /\ ShownIn(e, U, at) = ShownIn(d, T, at)
<1>1. PICK n \in Nat : \A r \in U : r.tid \in 1..n
  BY DEF Passed
<1>2. T \subseteq U /\ \A r \in T : Stamp(e, r) = Stamp(d, r)
  BY DEF Passed
<1>3. ReplayFilter(at).at = at /\ ReplaySpan(at).upto = at
  BY DEF ReplayFilter, RankFilter, ReplaySpan
<1>4. /\ LatestOfEachRank(e, U, ReplayFilter(at)) = LatestOfEachRank(d, T, ReplayFilter(at))
      /\ Matching(e, U, ReplayFilter(at)) = Matching(d, T, ReplayFilter(at))
  BY <1>3, RowsPassed
<1>5. TopHits(e, U, at) = TopHits(d, T, at)
  BY <1>4 DEF TopHits
<1>6. TopIn(e, U, at) = TopIn(d, T, at)
  BY <1>5 DEF TopIn
<1>7. RowsIn(TopIn(d, T, at)) \subseteq T
  BY <1>1, <1>2, TopAreRows
<1>8. PlayersIn(e, U, at) = PlayersIn(d, T, at)
  BY <1>3, <1>6, <1>7, PlayersPassed DEF PlayersIn
<1>9. LinesIn(e, U, at) = LinesIn(d, T, at)
  BY EdgesPassed DEF LinesIn
<1>10. \A edge \in {"early", "late"} : EdgeIn(e, U, at, edge) = EdgeIn(d, T, at, edge)
  BY <1>3, EdgesPassed DEF EdgeIn
<1>11. ShownIn(e, U, at) = ShownIn(d, T, at)
  <2> DEFINE top == TopIn(d, T, at)
  <2>1. \A i \in DOMAIN top : top[i] \in T
    BY <1>7 DEF RowsIn
  <2> HIDE DEF top
  <2>2. \A i \in DOMAIN top : Item(e, top[i]) = Item(d, top[i])
    BY <1>2, <2>1 DEF Item
  <2>3. [i \in DOMAIN top |-> Item(e, top[i])] = [i \in DOMAIN top |-> Item(d, top[i])]
    BY <2>2
  <2> QED
    BY <1>6, <2>3 DEF ShownIn, top
<1> QED
  BY <1>6, <1>8, <1>9, <1>10, <1>11

-----------------------------------------------------------------------------
(* A replay of a moment that is settled.  *)

Table == TableOf(ask.chapter)

Replayed ==
  [top |-> TopIn(db, Table, ask.at), players |-> PlayersIn(db, Table, ask.at),
   lines |-> LinesIn(db, Table, ask.at), early |-> EdgeIn(db, Table, ask.at, "early"),
   late |-> EdgeIn(db, Table, ask.at, "late"), status |-> LatestHeartbeat(db, ask.at),
   shown |-> ShownIn(db, Table, ask.at)]

\* The moment stays settled: a tick that begins later is later than it.
LEMMA SettledStays ==
  ASSUME Typed, Times, [Next]_vars, NEW at \in Int, Settled(at)
  PROVE  Settled(at)'
<1> USE DEF Settled, Typed, Ticks, IdleTick
<1>1. CASE Elapse
  BY <1>1 DEF Elapse, trackerVars
<1>2. CASE Tracker
  <2>1. CASE Begin
    BY <2>1 DEF Begin
  <2>2. CASE FetchFails \/ LandFails \/ LandChapters
    <3>1. tick' = IdleTick /\ now' = now
      BY <2>2, Zenon DEF FetchFails, LandFails, LandChapters
    <3> QED
      BY <3>1
  <2>3. CASE Fetched
    BY <2>3 DEF Fetched
  <2>4. CASE LandMain
    <3>1. now' = now /\ tick.phase = "main"
      BY <2>4 DEF LandMain
    <3>2. \/ tick' = [tick EXCEPT !.phase = "chapters"]
          \/ tick' = [tick EXCEPT !.phase = "chapters", !.landed = TRUE]
      BY <2>4, Zenon DEF LandMain
    <3>3. tick'.begun = tick.begun
      BY <3>2
    <3> QED
      BY <3>1, <3>3
  <2> QED
    BY <1>2, <2>1, <2>2, <2>3, <2>4 DEF Tracker
<1>3. CASE Reader
  BY <1>3, ReaderStep
<1>4. CASE UNCHANGED vars
  BY <1>4 DEF vars
<1> QED
  BY <1>1, <1>2, <1>3, <1>4 DEF Next

\* What is written then is later than the moment.
LEMMA TablesPassed ==
  ASSUME Typed, Times, Tabled, [Next]_vars, ask \in Calls, UNCHANGED ask,
         NEW at \in Int, Settled(at)
  PROVE  db' = db \/ Passed(db, db', Table, Table', at)
<1>1. Typed' /\ Tabled' /\ (db' = db \/ (tick.phase # "idle" /\ Grows(db, db', tick.begun)))
  BY TypedStep, TablesStep
<1> SUFFICES ASSUME db' # db
             PROVE  Passed(db, db', Table, Table', at)
  OBVIOUS
<1>2. Grows(db, db', tick.begun) /\ tick.begun > at /\ tick.begun \in Nat
  BY <1>1 DEF Settled, Typed, Ticks
<1>3. Table \subseteq Table'
  BY <1>2 DEF Grows, Table, TableOf, ChapterRows
<1>4. \A r \in Table : r.tid \in DOMAIN db.stamps
  BY TableFacts DEF Table
<1>5. \A r \in Table : db'.stamps[r.tid].ts = Stamp(db, r)
  BY <1>2, <1>4 DEF Grows, Stamp
<1>6. Keyed(Table)'
  <2>1. ask.chapter \in Chapters \cup {None}
    BY CallsAssumption
  <2> QED
    BY <1>1, <2>1 DEF Tabled, Table, TableOf
<1>7. \E n \in Nat : \A r \in Table' : r.tid \in 1..n
  <2>1. db'.stamps \in Seq(StampRec)
    BY <1>1 DEF Typed, Tables
  <2>2. DOMAIN db'.stamps = 1..Len(db'.stamps) /\ Len(db'.stamps) \in Nat
    BY <2>1, LenProperties
  <2>3. \A r \in Table' : r.tid \in DOMAIN db'.stamps
    BY <1>1 DEF Tabled, Table, TableOf, ChapterRows
  <2> QED
    BY <2>2, <2>3
<1>8. \A r \in Table' : r \notin Table => ~(db'.stamps[r.tid].ts <= at)
  <2> SUFFICES ASSUME NEW r \in Table', r \notin Table
               PROVE  ~(db'.stamps[r.tid].ts <= at)
    OBVIOUS
  <2>1. r \in (db'.rows \cup db'.wl) \ (db.rows \cup db.wl)
    BY <1>1 DEF Table, TableOf, ChapterRows, Typed, Tables, Row, ChapterRow
  <2>2. db'.stamps[r.tid].ts >= tick.begun
    BY <1>2, <2>1 DEF Grows
  <2>3. db'.stamps[r.tid].ts \in Nat
    <3>1. r.tid \in DOMAIN db'.stamps
      BY <1>1, <2>1 DEF Tabled
    <3>2. db'.stamps \in Seq(StampRec)
      BY <1>1 DEF Typed, Tables
    <3>3. db'.stamps[r.tid] \in StampRec
      BY <3>1, <3>2, ElementOfSeq, LenProperties
    <3> QED
      BY <3>3 DEF StampRec
  <2> QED
    BY <1>2, <2>2, <2>3
<1> DEFINE U == Table'
<1> HIDE DEF U
<1>9. /\ Table \subseteq U /\ Keyed(U) /\ \E n \in Nat : \A r \in U : r.tid \in 1..n
      /\ \A r \in Table : Stamp(db', r) = Stamp(db, r)
      /\ \A r \in U \ Table : ~(Stamp(db', r) <= at)
  BY <1>3, <1>5, <1>6, <1>7, <1>8 DEF U, Stamp
<1>10. at # None
  BY NoneIsNoNumber
<1> QED
  BY <1>9, <1>10 DEF Passed, U

LEMMA ReplayedStays ==
  ASSUME Typed, Times, Tabled, Finite, [Next]_vars, ask \in Calls, UNCHANGED ask,
         ask.at \in Int, Settled(ask.at)
  PROVE  UNCHANGED Replayed
<1> DEFINE at == ask.at
           T == Table
           U == Table'
<1>1. CASE db' = db
  <2>1. U = T
    BY <1>1 DEF Table, TableOf, ChapterRows
  <2> QED
    BY <1>1, <2>1, Zenon DEF Replayed, PlayersIn, EdgeIn, ReplaySpan
<1>2. CASE Passed(db, db', Table, Table', ask.at)
  <2>1. /\ Keyed(T)
        /\ \A r \in T : /\ r.tid \in DOMAIN db.stamps /\ r.tid \in 1..Len(db.stamps)
                        /\ r.rank \in Nat /\ r.key \in Nat /\ r.score \in Int
                        /\ Stamp(db, r) \in Nat
        /\ \A q, r \in T : /\ q.tid < r.tid <=> Stamp(db, q) < Stamp(db, r)
                           /\ q.tid = r.tid <=> Stamp(db, q) = Stamp(db, r)
    BY TableFacts DEF Table
  <2>2. IsFiniteSet(T)
    BY FS_Subset DEF Finite, Table, TableOf, ChapterRows
  <2>3. LatestHeartbeat(db', at) = LatestHeartbeat(db, at)
    <3>1. CASE db' = db
      BY <3>1
    <3>2. CASE tick.phase # "idle" /\ Grows(db, db', tick.begun)
      <4>1. tick.begun > at /\ tick.begun \in Nat
        BY <3>2 DEF Settled, Typed, Ticks
      <4>2. /\ \A i \in DOMAIN db.stamps : i \in DOMAIN db'.stamps /\ db'.stamps[i] = db.stamps[i]
            /\ \A i \in DOMAIN db'.stamps : i \in DOMAIN db.stamps \/ db'.stamps[i].ts >= tick.begun
        BY <3>2 DEF Grows
      <4>3. \A i \in DOMAIN db'.stamps : db'.stamps[i].ts \in Nat
        <5>1. db'.stamps \in Seq(StampRec)
          BY TypedStep DEF Typed, Tables
        <5>2. \A i \in DOMAIN db'.stamps : db'.stamps[i] \in StampRec
          BY <5>1, ElementOfSeq, LenProperties
        <5> QED
          BY <5>2 DEF StampRec
      <4>4. \A i \in DOMAIN db'.stamps : i \in DOMAIN db.stamps \/ ~(db'.stamps[i].ts <= at)
        BY <4>1, <4>2, <4>3
      <4>5. at # None
        BY NoneIsNoNumber
      <4> HIDE DEF at
      <4> QED
        BY <4>2, <4>4, <4>5, HeartbeatPassed DEF at
    <3> QED
      BY <3>1, <3>2, TablesStep
  <2>4. IsTable(T)
    BY <2>1 DEF IsTable
  <2> HIDE DEF T, U, at
  <2>5. Passed(db, db', T, U, at)
    BY <1>2 DEF T, U, at
  <2>6. /\ \A r \in T : Stamp(db, r) \in Nat
        /\ \A q, r \in T : Stamp(db, q) = Stamp(db, r) => q.tid = r.tid
    BY <2>1
  <2>7. /\ TopIn(db', U, at) = TopIn(db, T, at)
        /\ PlayersIn(db', U, at) = PlayersIn(db, T, at)
        /\ LinesIn(db', U, at) = LinesIn(db, T, at)
        /\ \A edge \in {"early", "late"} : EdgeIn(db', U, at, edge) = EdgeIn(db, T, at, edge)
        /\ ShownIn(db', U, at) = ShownIn(db, T, at)
    BY <2>2, <2>4, <2>5, <2>6, ReplayPassed
  <2>8. Replayed = [top |-> TopIn(db, T, at), players |-> PlayersIn(db, T, at),
                    lines |-> LinesIn(db, T, at), early |-> EdgeIn(db, T, at, "early"),
                    late |-> EdgeIn(db, T, at, "late"), status |-> LatestHeartbeat(db, at),
                    shown |-> ShownIn(db, T, at)]
    BY Zenon DEF Replayed, T, at
  <2>9. Replayed' = [top |-> TopIn(db', U, at), players |-> PlayersIn(db', U, at),
                     lines |-> LinesIn(db', U, at), early |-> EdgeIn(db', U, at, "early"),
                     late |-> EdgeIn(db', U, at, "late"), status |-> LatestHeartbeat(db', at),
                     shown |-> ShownIn(db', U, at)]
    BY Zenon DEF Replayed, U, at, PlayersIn, EdgeIn, ReplaySpan
  <2> QED
    BY <2>3, <2>7, <2>8, <2>9
<1> QED
  BY <1>1, <1>2, TablesPassed

ReplayAnswer ==
  LET growths == Growths(1..TopLimit \cup LineRanks, Replayed.early, Replayed.late)
  IN [top |-> Replayed.shown, players |-> Replayed.players, lines |-> Replayed.lines,
      topGrowths |-> {g \in growths : g.rank <= TopLimit},
      borderGrowths |-> {g \in growths : g.rank > TopLimit},
      status |-> Replayed.status]

\* What has been read of a settled moment is what would be read now.
ReadsSettled ==
  /\ call.end = ask.at /\ call.res.top = Replayed.top
  /\ "players" \in call.todo \/ call.res.players = Replayed.players
  /\ "status" \in call.todo \/ call.res.status = Replayed.status
  /\ call.failed \/ "lines" \in call.todo \/ call.res.lines = Replayed.lines
  /\ call.failed \/ "early" \in call.todo \/ call.res.early = Replayed.early
  /\ call.failed \/ "late" \in call.todo \/ call.res.late = Replayed.late
  /\ answer = None \/ call.failed \/ answer = ReplayAnswer

Replaying == ask.kind = "overview" /\ call.settled

ReplayInv ==
  /\ call.settled => call.state # "none"
  /\ Replaying =>
       /\ ask.at \in Int /\ Settled(ask.at)
       /\ \/ call.todo = {"top"}
          \/ call.todo = {"span"} /\ call.res.top = Replayed.top
          \/ call.todo \subseteq Joined /\ ReadsSettled

\* The values that the queries find.
LEMMA ReplayReads ==
  /\ TopRows(ask.chapter, ask.at) = Replayed.top
  /\ call.end = ask.at /\ call.res.top = Replayed.top =>
       PlayersOf(ask.chapter, call.res.top, Span) = Replayed.players
  /\ LinesOf(ask.chapter, ask.at) = Replayed.lines
  /\ call.end = ask.at /\ ask.kind = "overview" => \A e \in {"early", "late"} :
       RankEdge(db, TableOf(ask.chapter), GrowthRanks, e, Span) = Replayed[e]
<1> DEFINE f == ReplayFilter(ask.at)
<1>1. /\ Replayed.top = TopIn(db, Table, ask.at)
      /\ Replayed.players = PlayersIn(db, Table, ask.at)
      /\ Replayed.lines = LinesIn(db, Table, ask.at)
      /\ Replayed["early"] = EdgeIn(db, Table, ask.at, "early")
      /\ Replayed["late"] = EdgeIn(db, Table, ask.at, "late")
  BY DEF Replayed
<1>2. Page(TopHits(db, Table, ask.at), TopLimit)
        = IF ask.chapter = None THEN SearchRankings(db, f)
          ELSE SearchChapterRankings(db, ask.chapter, f)
  <2>1. f.limit = TopLimit
    BY DEF ReplayFilter, RankFilter
  <2> HIDE DEF f
  <2>2. TopHits(db, Table, ask.at) = IF IsRankWindow(f)
                                     THEN Ordered(LatestOfEachRank(db, Table, f), ByRank)
                                     ELSE Ordered(Matching(db, Table, f), ByMoment)
    BY DEF TopHits, f
  <2>3. CASE ask.chapter = None
    BY <2>1, <2>2, <2>3 DEF SearchRankings, RankWindow, Table, TableOf
  <2>4. CASE ask.chapter # None
    BY <2>1, <2>2, <2>4 DEF SearchChapterRankings, ChapterRankWindow, Table, TableOf
  <2> QED
    BY <2>3, <2>4
<1>3. TopRows(ask.chapter, ask.at) = Replayed.top
  BY <1>1, <1>2, Zenon DEF TopRows, TopIn, ReplayFilter
<1>4. ASSUME call.end = ask.at, call.res.top = Replayed.top
      PROVE  PlayersOf(ask.chapter, call.res.top, Span) = Replayed.players
  BY <1>1, <1>4 DEF PlayersOf, PlayersIn, TopPlayerGrowths, ChapterPlayerGrowths, RowsIn,
                    Span, ReplaySpan, Table, TableOf
<1>5. LinesOf(ask.chapter, ask.at) = Replayed.lines
  BY <1>1 DEF LinesOf, LinesIn, RankLines, ChapterLines, Table, TableOf
<1>6. ASSUME call.end = ask.at, ask.kind = "overview", NEW e \in {"early", "late"}
      PROVE  RankEdge(db, TableOf(ask.chapter), GrowthRanks, e, Span) = Replayed[e]
  BY <1>1, <1>6 DEF EdgeIn, GrowthRanks, Span, ReplaySpan, Table
<1> QED
  BY <1>3, <1>4, <1>5, <1>6

\* The other steps leave alone what a replay has.
LEMMA ReplayUntouched ==
  ASSUME Stages, CallInv, ReplayInv, Replaying, [Next]_vars
  PROVE  \/ Top \/ OverviewSpan \/ Players \/ Lines \/ Status \/ ReplyOverview
         \/ \E e \in {"early", "late"} : Edge(e)
         \/ /\ UNCHANGED <<call.todo, call.end, call.failed, call.settled, answer>>
            /\ call'.state # "none"
            /\ \A x \in {"top", "players", "lines", "early", "late", "status"} :
                 call'.res[x] = call.res[x]
<1> USE DEF Stages, NothingRead, Joined
<1>1. /\ call.state # "none" /\ ask.kind = "overview"
      /\ call.todo \cap {"resolve", "items", "subject", "trace"} = {}
  BY DEF ReplayInv, Replaying
<1>2. CASE Elapse \/ Tracker \/ UNCHANGED vars
  BY <1>1, <1>2 DEF Elapse, Tracker, Begin, FetchFails, Fetched, LandMain, LandChapters,
                    LandFails, readerVars, vars
<1>3. CASE Open \/ RankingPage \/ UserPage \/ TracePage
  <2>1. call' = call /\ answer' = answer
    BY <1>3 DEF Open, RankingPage, UserPage, TracePage
  <2> QED
    BY <1>1, <2>1
<1>4. ~AskOverview /\ ~AskSnapshot /\ ~AskSubject
  BY <1>1 DEF AskOverview, AskSnapshot, AskSubject
<1>5. ~Resolve /\ ~Items /\ ~ResolveSubject /\ ~SubjectTrace
  BY <1>1, Zenon DEF Resolve, Items, ResolveSubject, SubjectTrace, Doing
<1>6. ~ReplySnapshot
  BY <1>1, Zenon DEF ReplySnapshot
<1>7. ASSUME NEW k \in call.jobs, Enrich(k)
      PROVE  /\ UNCHANGED <<call.todo, call.end, call.failed, call.settled, answer>>
             /\ call'.state # "none"
             /\ \A x \in {"top", "players", "lines", "early", "late", "status"} :
                  call'.res[x] = call.res[x]
  <2>1. PICK traces : call' = [call EXCEPT !.jobs = @ \ {k}, !.res.traces = traces]
    BY <1>7, EnrichIs, Zenon
  <2>2. UNCHANGED answer
    BY <1>7 DEF Enrich
  <2> QED
    BY <1>1, <2>1, <2>2
<1> QED
  BY <1>2, <1>3, <1>4, <1>5, <1>6, <1>7, Zenon DEF Next, Reader

\* A request is settled from its first step, or never.
LEMMA SettledIsKept ==
  ASSUME Stages, [Next]_vars
  PROVE  \/ AskOverview
         \/ UNCHANGED <<ask, call.settled>> /\ (call.state # "none" => call'.state # "none")
<1> USE DEF Stages, NothingRead, Joined
<1>1. CASE Elapse \/ Tracker \/ UNCHANGED vars
  BY <1>1 DEF Elapse, Tracker, Begin, FetchFails, Fetched, LandMain, LandChapters, LandFails,
              readerVars, vars
<1>2. CASE Open \/ RankingPage \/ UserPage \/ TracePage
  <2>1. call' = call /\ ask' = ask
    BY <1>2 DEF Open, RankingPage, UserPage, TracePage
  <2> QED
    BY <2>1
<1>3. CASE AskSnapshot
  BY <1>3 DEF AskSnapshot
<1>4. CASE AskSubject
  BY <1>4 DEF AskSubject
<1>5. CASE OverviewSpan
  BY <1>5 DEF OverviewSpan, Doing
<1>6. CASE Top \/ Players \/ Status
  <2>1. ASSUME NEW t, NEW next, NEW field \in {"top", "players", "status"}, NEW value,
               Finds(t, next, field, value)
        PROVE  UNCHANGED <<ask, call.settled>> /\ (call.state # "none" => call'.state # "none")
    BY <2>1 DEF Finds, Doing
  <2> QED
    BY <1>6, <2>1, Zenon DEF Top, Players, Status
<1>7. CASE Lines
  BY <1>7 DEF Lines, Doing
<1>8. ASSUME NEW e \in {"early", "late"}, Edge(e)
      PROVE  UNCHANGED <<ask, call.settled>> /\ (call.state # "none" => call'.state # "none")
  BY <1>8 DEF Edge, Doing
<1>9. CASE Resolve
  BY <1>9 DEF Resolve, Doing
<1>10. CASE Items
  BY <1>10 DEF Items, Doing
<1>11. CASE ResolveSubject
  BY <1>11 DEF ResolveSubject, Doing
<1>12. CASE SubjectTrace
  BY <1>12 DEF SubjectTrace, Doing
<1>13. ASSUME NEW k \in call.jobs, Enrich(k)
       PROVE  UNCHANGED <<ask, call.settled>> /\ (call.state # "none" => call'.state # "none")
  <2>1. PICK traces : call' = [call EXCEPT !.jobs = @ \ {k}, !.res.traces = traces]
    BY <1>13, EnrichIs, Zenon
  <2>2. UNCHANGED ask
    BY <1>13 DEF Enrich
  <2> QED
    BY <2>1, <2>2
<1>14. CASE ReplyOverview \/ ReplySnapshot
  BY <1>14 DEF ReplyOverview, ReplySnapshot
<1> QED
  BY <1>1, <1>2, <1>3, <1>4, <1>5, <1>6, <1>7, <1>8, <1>9, <1>10, <1>11, <1>12, <1>13, <1>14
     DEF Next, Reader

\* What a step reads of a settled moment agrees with what it read before.
LEMMA ReplayingStep ==
  ASSUME Typed, Times, Tabled, Finite, Stages, CallInv, ReplayInv, Replaying, [Next]_vars,
         ~AskOverview
  PROVE  ReplayInv'
<1>1. /\ ask \in Calls /\ UNCHANGED <<ask, call.settled>> /\ ask.kind = "overview"
      /\ call.settled /\ call.state # "none" /\ call'.state # "none"
  BY SettledIsKept DEF Stages, Replaying, ReplayInv
<1>2. ask.at \in Int /\ Settled(ask.at) /\ (ask.at \in Int /\ Settled(ask.at))'
  BY <1>1, SettledStays DEF ReplayInv
<1>3. Replayed' = Replayed
  BY <1>1, <1>2, ReplayedStays
<1>4. ReplayAnswer' = ReplayAnswer
  BY <1>3 DEF ReplayAnswer
<1> DEFINE V == Replayed  A == ReplayAnswer
<1>5. \/ call.todo = {"top"}
      \/ call.todo = {"span"} /\ call.res.top = V.top
      \/ call.todo \subseteq Joined /\ ReadsSettled
  BY DEF ReplayInv
<1>6. answer = None \/ call.state = "done"
  BY DEF CallInv
<1>7. call.todo \in {{"top"}, {"span"}} => answer = None
  BY <1>6 DEF Stages
<1> DEFINE Reads(todo, res, end, failed, ans) ==
             /\ end = ask.at /\ res.top = V.top
             /\ "players" \in todo \/ res.players = V.players
             /\ "status" \in todo \/ res.status = V.status
             /\ failed \/ "lines" \in todo \/ res.lines = V.lines
             /\ failed \/ "early" \in todo \/ res.early = V.early
             /\ failed \/ "late" \in todo \/ res.late = V.late
             /\ ans = None \/ failed \/ ans = A
<1>8. ReadsSettled <=> Reads(call.todo, call.res, call.end, call.failed, answer)
  BY DEF ReadsSettled
<1>9. ReadsSettled' <=> Reads(call'.todo, call'.res, call'.end, call'.failed, answer')
  BY <1>1, <1>3, <1>4 DEF ReadsSettled
<1>10. ASSUME \/ call'.todo = {"top"}
              \/ call'.todo = {"span"} /\ call'.res.top = V.top
              \/ /\ call'.todo \subseteq Joined
                 /\ Reads(call'.todo, call'.res, call'.end, call'.failed, answer')
       PROVE  ReplayInv'
  <2> HIDE DEF V, Reads
  <2>1. V = Replayed'
    BY <1>3 DEF V
  <2> QED
    BY <1>1, <1>2, <1>9, <1>10, <2>1 DEF ReplayInv, Replaying
<1>11. /\ DOMAIN call = {"state", "end", "ranks", "todo", "jobs", "res", "due", "seen",
                         "failed", "settled"}
       /\ DOMAIN call.res = {"top", "players", "lines", "early", "late", "status", "items",
                             "traces", "current"}
       /\ call.failed \in BOOLEAN
  BY DEF Stages, NothingRead
<1>12. CASE Top
  <2>1. /\ "top" \in call.todo /\ UNCHANGED answer
        /\ call' = [call EXCEPT !.todo = (@ \ {"top"}) \cup {"span"}, !.res["top"] = V.top]
    BY <1>12, ReplayReads, Zenon DEF Top, Finds, Doing
  <2>2. call.todo = {"top"}
    BY <1>5, <2>1 DEF Joined
  <2> HIDE DEF V, Reads
  <2>3. call'.todo = {"span"} /\ call'.res.top = V.top
    BY <1>11, <2>1, <2>2
  <2> QED
    BY <1>10, <2>3
<1>13. CASE OverviewSpan
  <2>1. "span" \in call.todo /\ UNCHANGED answer
    BY <1>13 DEF OverviewSpan, Doing
  <2>2. call.todo = {"span"} /\ call.res.top = V.top /\ answer = None
    BY <1>5, <1>7, <2>1 DEF Joined
  <2>3. ask.at # None
    BY <1>2, NoneIsNoNumber
  <2>4. call' = [call EXCEPT !.todo = {"players", "lines", "early", "late", "status"},
                             !.end = ask.at]
    BY <1>13, <2>3 DEF OverviewSpan
  <2> HIDE DEF V
  <2>5. /\ call'.todo = {"players", "lines", "early", "late", "status"} /\ call'.end = ask.at
        /\ call'.res = call.res
    BY <1>11, <2>4
  <2> QED
    BY <1>10, <2>1, <2>2, <2>5 DEF Joined
<1>14. ASSUME call.todo \cap Joined # {}
       PROVE  call.todo \subseteq Joined /\ ReadsSettled
  BY <1>5, <1>14 DEF Joined
<1>15. CASE Players
  <2>1. Doing("players")
    BY <1>15 DEF Players, Finds
  <2>2. call.todo \subseteq Joined /\ ReadsSettled
    BY <1>14, <2>1 DEF Doing, Joined
  <2>3. call.end = ask.at /\ call.res.top = V.top
    BY <2>2 DEF ReadsSettled
  <2>4. /\ call' = [call EXCEPT !.todo = (@ \ {"players"}) \cup {}, !.res["players"] = V.players]
        /\ UNCHANGED answer
    BY <1>15, <2>3, ReplayReads, Zenon DEF Players, Finds
  <2> HIDE DEF V, A
  <2>5. /\ call'.todo \subseteq Joined
        /\ Reads(call'.todo, call'.res, call'.end, call'.failed, answer')
    BY <1>8, <1>11, <2>2, <2>4
  <2> QED
    BY <1>10, <2>5
<1>16. CASE Status
  <2>1. Doing("status")
    BY <1>16 DEF Status, Finds
  <2>2. call.todo \subseteq Joined /\ ReadsSettled
    BY <1>14, <2>1 DEF Doing, Joined
  <2>3. LatestHeartbeat(db, ask.at) = V.status
    BY DEF Replayed
  <2>4. /\ call' = [call EXCEPT !.todo = (@ \ {"status"}) \cup {}, !.res["status"] = V.status]
        /\ UNCHANGED answer
    BY <1>16, <2>3, Zenon DEF Status, Finds
  <2> HIDE DEF V, A
  <2>5. /\ call'.todo \subseteq Joined
        /\ Reads(call'.todo, call'.res, call'.end, call'.failed, answer')
    BY <1>8, <1>11, <2>2, <2>4
  <2> QED
    BY <1>10, <2>5
<1>17. CASE Lines
  <2>1. Doing("lines") /\ UNCHANGED answer
    BY <1>17 DEF Lines
  <2>2. call.todo \subseteq Joined /\ ReadsSettled
    BY <1>14, <2>1 DEF Doing, Joined
  <2>3. PICK fails \in BOOLEAN :
          call' = [call EXCEPT !.todo = @ \ {"lines"}, !.failed = @ \/ fails,
                     !.res.lines = IF fails THEN <<>> ELSE V.lines]
    BY <1>17, ReplayReads, Zenon DEF Lines
  <2> HIDE DEF V, A
  <2>4. /\ call'.todo = call.todo \ {"lines"} /\ call'.failed = (call.failed \/ fails)
        /\ call'.end = call.end /\ (fails \/ call'.res.lines = V.lines)
        /\ \A x \in {"top", "players", "early", "late", "status"} : call'.res[x] = call.res[x]
    BY <1>11, <2>3
  <2>5. /\ call'.todo \subseteq Joined
        /\ Reads(call'.todo, call'.res, call'.end, call'.failed, answer')
    BY <1>8, <2>1, <2>2, <2>4
  <2> QED
    BY <1>10, <2>5
<1>18. ASSUME NEW e \in {"early", "late"}, Edge(e)
       PROVE  ReplayInv'
  <2>1. Doing(e) /\ UNCHANGED answer
    BY <1>18, Zenon DEF Edge
  <2>2. call.todo \subseteq Joined /\ ReadsSettled
    BY <1>14, <2>1 DEF Doing, Joined
  <2>3. RankEdge(db, TableOf(ask.chapter), GrowthRanks, e, Span) = V[e]
    BY <1>1, <2>2, ReplayReads DEF ReadsSettled
  <2>4. PICK fails \in BOOLEAN : \E due, seen :
          call' = [call EXCEPT !.todo = @ \ {e}, !.res[e] = IF fails THEN <<>> ELSE V[e],
                     !.failed = @ \/ fails, !.due = due, !.seen = seen]
    BY <1>18, <2>3, Zenon DEF Edge
  <2> HIDE DEF V, A
  <2>5. /\ call'.todo = call.todo \ {e} /\ call'.failed = (call.failed \/ fails)
        /\ call'.end = call.end /\ (fails \/ call'.res[e] = V[e])
        /\ \A x \in {"top", "players", "lines", "early", "late", "status"} :
             x # e => call'.res[x] = call.res[x]
    BY <1>11, <2>4
  <2>6. /\ call'.todo \subseteq Joined
        /\ Reads(call'.todo, call'.res, call'.end, call'.failed, answer')
    BY <1>8, <2>1, <2>2, <2>5
  <2> QED
    BY <1>10, <2>6
<1>19. CASE ReplyOverview
  <2>1. /\ call.todo = {} /\ call' = [call EXCEPT !.state = "done"]
        /\ answer' = OverviewAnswer(call.res.top, call.res.players, call.res.lines,
                                    call.res.early, call.res.late, call.res.status)
    BY <1>19, Zenon DEF ReplyOverview
  <2>2. ReadsSettled
    BY <1>5, <2>1
  <2>3. ~call.failed => answer' = OverviewAnswer(V.top, V.players, V.lines, V.early, V.late,
                                                 V.status)
    BY <1>8, <2>1, <2>2, Zenon
  <2>4. OverviewAnswer(V.top, V.players, V.lines, V.early, V.late, V.status) = A
    <3>1. V.shown = [i \in DOMAIN V.top |-> Item(db, V.top[i])]
      BY DEF Replayed, ShownIn
    <3> QED
      BY <3>1, Zenon DEF OverviewAnswer, ReplayAnswer
  <2> HIDE DEF V, A
  <2>5. /\ call'.todo = {} /\ call'.res = call.res /\ call'.end = call.end
        /\ call'.failed = call.failed
    BY <1>11, <2>1
  <2>6. Reads(call'.todo, call'.res, call'.end, call'.failed, answer')
    BY <1>8, <2>1, <2>2, <2>3, <2>4, <2>5
  <2> QED
    BY <1>10, <2>5, <2>6
<1>20. CASE /\ UNCHANGED <<call.todo, call.end, call.failed, call.settled, answer>>
            /\ \A x \in {"top", "players", "lines", "early", "late", "status"} :
                 call'.res[x] = call.res[x]
  <2> HIDE DEF V, A
  <2> QED
    BY <1>5, <1>8, <1>10, <1>20
<1> QED
  BY <1>12, <1>13, <1>15, <1>16, <1>17, <1>18, <1>19, <1>20, ReplayUntouched

LEMMA ReplayStep ==
  ASSUME Typed, Times, Tabled, Finite, Stages, CallInv, ReplayInv, [Next]_vars
  PROVE  ReplayInv'
<1>1. CASE AskOverview
  <2>1. /\ UNCHANGED <<now, tick, ask>> /\ ask \in Calls /\ ask.kind = "overview"
        /\ call' = [call EXCEPT !.state = "run", !.todo = {"top"},
                      !.settled = ask.at # None /\ Settled(ask.at)]
    BY <1>1 DEF AskOverview, trackerVars, Stages
  <2>2. /\ call'.state = "run" /\ call'.todo = {"top"}
        /\ call'.settled = (ask.at # None /\ Settled(ask.at))
    BY <2>1 DEF Stages
  <2>3. ask.at \in Int \cup {None}
    BY <2>1, CallsAssumption
  <2>4. call'.settled => ask.at \in Int /\ Settled(ask.at) /\ Settled(ask.at)'
    BY <2>1, <2>2, <2>3 DEF Settled
  <2> QED
    BY <2>1, <2>2, <2>4 DEF ReplayInv, Replaying
<1>2. CASE ~AskOverview /\ Replaying
  BY <1>2, ReplayingStep
<1>3. CASE ~AskOverview /\ ~Replaying
  BY <1>3, SettledIsKept DEF ReplayInv, Replaying
<1> QED
  BY <1>1, <1>2, <1>3

ReplaysInv == Typed /\ Times /\ Tabled /\ Finite /\ Stages /\ CallInv /\ ReplayInv

\* A replayed overview is cached for long, whatever is written (build_overview with a moment,
\* CacheTtl::ReplayOverview): when its moment had passed for the tracker too, as it was asked
\* for, the answer is what the database gives then and always.
THEOREM ReplaysAreSettled == Spec => []ReplaySettled
<1>1. Init => ReplaysInv
  <2> SUFFICES ASSUME Init
               PROVE  ReplaysInv
    OBVIOUS
  <2>1. CallInv /\ ReplayInv
    BY DEF CallInv, ReplayInv, Replaying, Init
  <2> QED
    BY <2>1, InitTimes, InitTabled, InitFinite, InitStages DEF ReplaysInv
<1>2. ReplaysInv /\ [Next]_vars => ReplaysInv'
  BY TypedStep, TimesStep, TablesStep, FiniteStep, StagesStep, CallStep, ReplayStep
     DEF ReplaysInv
<1>3. ReplaysInv => ReplaySettled
  <2> SUFFICES ASSUME ReplaysInv, answer # None, ask.kind = "overview", call.settled, ~call.failed
               PROVE  ReplaySettled
    BY DEF ReplaySettled
  <2>1. call.todo = {} /\ ReadsSettled
    BY DEF ReplaysInv, CallInv, Stages, ReplayInv, Replaying
  <2>2. answer = ReplayAnswer /\ call.end = ask.at /\ call.res.top = Replayed.top
    BY <2>1 DEF ReadsSettled
  <2> DEFINE c == ask.chapter
             V == Replayed
  <2>3. /\ TopRows(c, ask.at) = V.top /\ PlayersOf(c, V.top, Span) = V.players
        /\ LinesOf(c, ask.at) = V.lines
        /\ RankEdge(db, TableOf(c), 1..TopLimit \cup LineRanks, "early", Span) = V.early
        /\ RankEdge(db, TableOf(c), 1..TopLimit \cup LineRanks, "late", Span) = V.late
        /\ LatestHeartbeat(db, ask.at) = V.status
    <3>1. GrowthRanks = 1..TopLimit \cup LineRanks
      BY DEF GrowthRanks
    <3>2. V["early"] = V.early /\ V["late"] = V.late /\ V.status = LatestHeartbeat(db, ask.at)
      BY DEF Replayed
    <3> QED
      BY <2>2, <3>1, <3>2, ReplayReads
  <2>4. V.shown = [i \in DOMAIN V.top |-> Item(db, V.top[i])]
    BY DEF Replayed, ShownIn
  <2>5. OverviewAnswer(V.top, V.players, V.lines, V.early, V.late, V.status) = ReplayAnswer
    BY <2>4, Zenon DEF OverviewAnswer, ReplayAnswer
  <2> HIDE DEF V
  <2> QED
    BY <2>2, <2>3, <2>5, Zenon DEF ReplaySettled
<1> QED
  BY <1>1, <1>2, <1>3, PTL DEF Spec

-----------------------------------------------------------------------------
(* The round metrics of a trace.  *)

\* A trace: the samples of a user in order of time.
IsTrace(s) ==
  /\ s \in Seq([ts : Nat, score : Int]) /\ Len(s) > 0
  /\ \A i, j \in 1..Len(s) : i < j => s[i].ts < s[j].ts

\* The index a window starts from.
IsBase(s, start, b) ==
  /\ b \in 1..Len(s)
  /\ \A j \in 1..Len(s) : j > b => s[j].ts > start
  /\ s[b].ts <= start \/ b = 1

\* find_window_baseline_index.
LEMMA BaselineIs ==
  ASSUME NEW s, IsTrace(s), NEW start \in Int
  PROVE  IsBase(s, start, Baseline(s, start))
<1> DEFINE past == {i \in DOMAIN s : \A j \in 1..i : s[j].ts <= start}
<1>1. DOMAIN s = 1..Len(s) /\ Len(s) \in Nat
  BY LenProperties DEF IsTrace
<1>2. \A i \in 1..Len(s) : s[i].ts \in Nat
  <2>1. \A i \in 1..Len(s) : s[i] \in [ts : Nat, score : Int]
    BY ElementOfSeq DEF IsTrace
  <2> QED
    BY <2>1
<1>3. Baseline(s, start) = IF past = {} THEN 1 ELSE Max(past)
  BY DEF Baseline
<1>4. \A i \in past : i \in 1..Len(s) /\ s[i].ts <= start
  BY <1>1
<1>5. \A i \in 1..Len(s) : s[i].ts <= start => i \in past
  <2> SUFFICES ASSUME NEW i \in 1..Len(s), s[i].ts <= start, NEW j \in 1..i
               PROVE  s[j].ts <= start
    BY <1>1
  <2>1. j \in 1..Len(s) /\ (j < i \/ j = i)
    BY <1>1
  <2>2. s[j].ts <= s[i].ts
    BY <1>2, <2>1 DEF IsTrace
  <2> QED
    BY <1>2, <2>1, <2>2
<1> HIDE DEF past
<1>6. CASE past = {}
  <2>1. Baseline(s, start) = 1 /\ 1 \in 1..Len(s)
    BY <1>1, <1>3, <1>6 DEF IsTrace
  <2>2. \A j \in 1..Len(s) : s[j].ts > start
    BY <1>2, <1>5, <1>6
  <2> QED
    BY <2>1, <2>2 DEF IsBase
<1>7. CASE past # {}
  <2>1. past \in SUBSET (1..Len(s))
    BY <1>4
  <2>2. Max(past) \in past /\ \A y \in past : y <= Max(past)
    BY <1>1, <1>7, <2>1, MaxOfNats
  <2> DEFINE m == Max(past)
  <2>3. m \in 1..Len(s) /\ s[m].ts <= start
    BY <1>4, <2>2
  <2>4. \A j \in 1..Len(s) : s[j].ts <= start => j <= m
    BY <1>5, <2>2
  <2>5. Baseline(s, start) = m
    BY <1>3, <1>7
  <2> HIDE DEF m
  <2>6. \A j \in 1..Len(s) : j > m => s[j].ts > start
    BY <1>1, <1>2, <2>3, <2>4
  <2> QED
    BY <2>3, <2>5, <2>6 DEF IsBase
<1> QED
  BY <1>6, <1>7

LEMMA OneBase ==
  ASSUME NEW s, IsTrace(s), NEW start \in Int, NEW a, NEW b,
         IsBase(s, start, a), IsBase(s, start, b)
  PROVE  a = b
<1>1. \A i \in 1..Len(s) : s[i].ts \in Nat
  <2>1. \A i \in 1..Len(s) : s[i] \in [ts : Nat, score : Int]
    BY ElementOfSeq DEF IsTrace
  <2> QED
    BY <2>1
<1>2. Len(s) \in Nat
  BY LenProperties DEF IsTrace
<1> QED
  BY <1>1, <1>2 DEF IsBase

\* The samples from b on.
LEMMA LastOnes ==
  ASSUME NEW s, IsTrace(s), NEW b \in 1..Len(s)
  PROVE  LET rest == SubSeq(s, b, Len(s))
         IN /\ IsTrace(rest) /\ Len(rest) = Len(s) - b + 1
            /\ \A i \in 1..Len(rest) : rest[i] = s[b + i - 1]
<1> DEFINE n == Len(s)  rest == SubSeq(s, b, n)
<1>1. n \in Nat /\ b \in Int /\ n \in Int
  BY LenProperties DEF IsTrace
<1>2. \A i \in b..n : s[i] \in [ts : Nat, score : Int]
  <2> TAKE i \in b..n
  <2>1. i \in 1..n
    BY <1>1
  <2> QED
    BY <2>1, ElementOfSeq DEF IsTrace
<1> HIDE DEF n
<1>3. /\ rest \in Seq([ts : Nat, score : Int])
      /\ Len(rest) = IF b <= n THEN n - b + 1 ELSE 0
      /\ \A i \in 1..n - b + 1 : rest[i] = s[b + i - 1]
  BY <1>1, <1>2, SubSeqProperties
<1> HIDE DEF rest
<1>4. b <= n /\ Len(rest) = n - b + 1 /\ Len(rest) > 0
  BY <1>1, <1>3 DEF n
<1>5. \A i \in 1..Len(rest) : rest[i] = s[b + i - 1] /\ b + i - 1 \in 1..n
  BY <1>1, <1>3, <1>4
<1>6. \A i, j \in 1..Len(rest) : i < j => rest[i].ts < rest[j].ts
  <2> SUFFICES ASSUME NEW i \in 1..Len(rest), NEW j \in 1..Len(rest), i < j
               PROVE  rest[i].ts < rest[j].ts
    OBVIOUS
  <2>1. b + i - 1 < b + j - 1
    BY <1>1, <1>4
  <2> QED
    BY <1>5, <2>1 DEF IsTrace, n
<1>7. IsTrace(rest)
  BY <1>3, <1>4, <1>6 DEF IsTrace
<1> QED
  BY <1>4, <1>5, <1>7 DEF n, rest

\* A window inside the lookback starts from the same sample as in the whole trace.
LEMMA LookbackKeeps ==
  ASSUME NEW s, IsTrace(s), NEW from \in Int, NEW start \in Int, from <= start
  PROVE  LET kept == SubSeq(s, Baseline(s, from), Len(s))
             h == Baseline(kept, start)
             b == Baseline(s, start)
         IN /\ b \in 1..Len(s) /\ h \in 1..Len(kept) /\ kept[h] = s[b]
            /\ kept # <<>> /\ Last(kept) = s[Len(s)]
            /\ SubSeq(kept, h, Len(kept)) = SubSeq(s, b, Len(s))
<1> DEFINE n == Len(s)
           a == Baseline(s, from)  kept == SubSeq(s, a, n)
           h == Baseline(kept, start)  b == Baseline(s, start)
<1>1. n \in Nat
  BY LenProperties DEF IsTrace
<1>2. IsBase(s, from, a) /\ IsBase(s, start, b)
  BY BaselineIs
<1>3. a \in 1..n
  BY <1>2 DEF IsBase
<1>4. /\ IsTrace(kept) /\ Len(kept) = n - a + 1
      /\ \A i \in 1..Len(kept) : kept[i] = s[a + i - 1]
  BY <1>3, LastOnes
<1>5. IsBase(kept, start, h)
  BY <1>4, BaselineIs
<1> HIDE DEF a, b, h, n, kept
<1>6. h \in 1..Len(kept)
  BY <1>5 DEF IsBase
<1>7. IsBase(s, start, a + h - 1)
  <2>1. \A i \in 1..n : s[i].ts \in Nat
    <3>1. \A i \in 1..n : s[i] \in [ts : Nat, score : Int]
      BY ElementOfSeq DEF IsTrace, n
    <3> QED
      BY <3>1
  <2>2. a + h - 1 \in 1..n
    BY <1>1, <1>3, <1>4, <1>6
  <2>3. ASSUME NEW j \in 1..n, j > a + h - 1
        PROVE  s[j].ts > start
    <3>1. j - a + 1 \in 1..Len(kept) /\ j - a + 1 > h /\ a + (j - a + 1) - 1 = j
      BY <1>1, <1>3, <1>4, <1>6, <2>3
    <3>2. kept[j - a + 1] = s[j]
      BY <1>4, <3>1
    <3>3. kept[j - a + 1].ts > start
      BY <1>5, <3>1 DEF IsBase
    <3> QED
      BY <3>2, <3>3
  <2>4. s[a + h - 1].ts <= start \/ a + h - 1 = 1
    <3>1. kept[h] = s[a + h - 1]
      BY <1>4, <1>6
    <3>2. CASE h # 1
      BY <1>5, <3>1, <3>2 DEF IsBase
    <3>3. CASE h = 1
      <4>1. a + h - 1 = a
        BY <1>1, <1>3, <3>3
      <4>2. s[a].ts <= from \/ a = 1
        BY <1>2 DEF IsBase
      <4>3. s[a].ts \in Nat
        BY <1>3, <2>1
      <4> QED
        BY <4>1, <4>2, <4>3
    <3> QED
      BY <3>2, <3>3
  <2> QED
    BY <2>2, <2>3, <2>4 DEF IsBase, n
<1>8. b = a + h - 1 /\ b \in 1..n
  BY <1>2, <1>7, OneBase DEF IsBase, n
<1>9. kept[h] = s[b]
  BY <1>4, <1>6, <1>8
<1>10. kept # <<>> /\ Last(kept) = s[n]
  <2>1. Len(kept) \in 1..Len(kept) /\ a + Len(kept) - 1 = n
    BY <1>1, <1>3, <1>4
  <2>2. kept[Len(kept)] = s[n]
    BY <1>4, <2>1
  <2> QED
    BY <1>4, <2>2 DEF Last, IsTrace
<1>11. SubSeq(kept, h, Len(kept)) = SubSeq(s, b, n)
  <2> DEFINE p == SubSeq(kept, h, Len(kept))  q == SubSeq(s, b, n)
  <2>1. /\ IsTrace(p) /\ Len(p) = Len(kept) - h + 1
        /\ \A i \in 1..Len(p) : p[i] = kept[h + i - 1]
    BY <1>4, <1>6, LastOnes
  <2>2. /\ IsTrace(q) /\ Len(q) = n - b + 1
        /\ \A i \in 1..Len(q) : q[i] = s[b + i - 1]
    BY <1>8, LastOnes DEF n
  <2> HIDE DEF p, q
  <2>3. Len(p) = Len(q)
    BY <1>1, <1>3, <1>4, <1>6, <1>8, <2>1, <2>2
  <2>4. ASSUME NEW i \in 1..Len(p)
        PROVE  p[i] = q[i]
    <3>1. /\ h + i - 1 \in 1..Len(kept) /\ a + (h + i - 1) - 1 = b + i - 1
      BY <1>1, <1>3, <1>4, <1>6, <1>8, <2>1
    <3>2. kept[h + i - 1] = s[a + (h + i - 1) - 1]
      BY <1>4, <3>1
    <3> QED
      BY <2>1, <2>2, <2>3, <2>4, <3>1, <3>2
  <2>5. p = q
    BY <2>1, <2>2, <2>3, <2>4, SeqEqual DEF IsTrace
  <2> QED
    BY <2>5 DEF p, q
<1> QED
  BY <1>6, <1>8, <1>9, <1>10, <1>11 DEF a, b, h, n, kept

\* apply_cloud_trace_metrics_at, as far as it is about the last hour and the last twenty
\* minutes: the lookback does not show, nor does the time after a very old sample.
LEMMA MetricsAre ==
  ASSUME NEW s, IsTrace(s), NEW t \in Nat, s[Len(s)].ts > 0, s[Len(s)].ts <= t
  PROVE  LET m == Metrics(s, t)
             last == s[Len(s)]
             end == IF t - last.ts > MaxLag THEN last.ts ELSE t
             h == Baseline(s, end - Hour)
             w == Baseline(s, end - Window)
         IN /\ m.hourRound.known =>
                 m.hourRound.value = CountPositiveDeltas(SubSeq(s, h, Len(s)))
            /\ m.speed.known =>
                 m.speed.value =
                   (AtLeastZero(last.score - s[h].score) * Hour) \div (end - s[h].ts)
            /\ m.windowSpeed.known =>
                 m.windowSpeed.value = AtLeastZero(last.score - s[w].score) * (Hour \div Window)
<1> DEFINE n == Len(s)  last == s[n]
           end == IF t - last.ts > MaxLag THEN last.ts ELSE t
           kept == SubSeq(s, Baseline(s, end - Lookback), n)
           h == Baseline(kept, end - Hour)  w == Baseline(kept, end - Window)
           before == Averages(Deltas(s),
                       [NoMetrics EXCEPT !.recordStart = Known(RecordStart(s))])
           after == Speeds(kept, end, before)
           gain(i) == AtLeastZero(last.score - kept[i].score)
<1>1. n \in Nat /\ n > 0 /\ last.ts \in Nat
  <2>1. n \in Nat /\ n > 0
    BY LenProperties DEF IsTrace
  <2>2. n \in 1..Len(s)
    BY <2>1
  <2> HIDE DEF n
  <2>3. s[n] \in [ts : Nat, score : Int]
    BY <2>2, ElementOfSeq DEF IsTrace
  <2>4. s[n].ts \in Nat
    BY <2>3
  <2> QED
    BY <2>1, <2>4
<1>2. WindowEnd(last.ts, t) = end /\ Last(s) = last
  <2>1. MaxLag \in Nat
    BY SpansAssumption
  <2> QED
    BY <1>1, <2>1 DEF WindowEnd, Last
<1>3. end \in Int /\ end - Lookback <= end - Hour /\ end - Lookback <= end - Window
      /\ end - Hour \in Int /\ end - Window \in Int /\ end - Lookback \in Int
  <2>1. end \in Int
    BY <1>1
  <2>2. /\ Hour \in Nat /\ Window \in Nat /\ Lookback \in Nat
        /\ Window <= Hour /\ Hour <= Lookback
    BY SpansAssumption
  <2> HIDE DEF end
  <2> QED
    BY <2>1, <2>2
<1>4. Metrics(s, t) = IF n < 2 THEN NoMetrics ELSE after
  <2> HIDE DEF end
  <2>1. WindowEnd(Last(s).ts, t) = end
    BY <1>2
  <2> QED
    BY <2>1, Zenon DEF Metrics
<1> HIDE DEF end
<1>5. /\ kept[h] = s[Baseline(s, end - Hour)] /\ Last(kept) = last
      /\ SubSeq(kept, h, Len(kept)) = SubSeq(s, Baseline(s, end - Hour), n)
      /\ kept[w] = s[Baseline(s, end - Window)]
  BY <1>3, LookbackKeeps
<1>6. before.hourRound = Missing /\ before.speed = Missing /\ before.windowSpeed = Missing
      /\ DOMAIN before = DOMAIN NoMetrics
  BY DEF Averages, NoMetrics
<1> HIDE DEF before, kept, h, w
<1>7. after = IF Len(kept) < 2 THEN before
              ELSE [before EXCEPT
                      !.speed = IF end > kept[h].ts
                                THEN Known((gain(h) * Hour) \div (end - kept[h].ts)) ELSE @,
                      !.hourRound = Known(CountPositiveDeltas(SubSeq(kept, h, Len(kept)))),
                      !.windowSpeed = Known(gain(w) * (Hour \div Window))]
  BY <1>5, Zenon DEF Speeds, h, w
<1> HIDE DEF after
<1>8. /\ after.hourRound \in {Missing, Known(CountPositiveDeltas(SubSeq(kept, h, Len(kept))))}
      /\ after.speed \in {Missing, Known((gain(h) * Hour) \div (end - kept[h].ts))}
      /\ after.windowSpeed \in {Missing, Known(gain(w) * (Hour \div Window))}
  <2> DEFINE hours == Known(CountPositiveDeltas(SubSeq(kept, h, Len(kept))))
             fast == Known((gain(h) * Hour) \div (end - kept[h].ts))
             recent == Known(gain(w) * (Hour \div Window))
  <2>1. after = IF Len(kept) < 2 THEN before
                ELSE [before EXCEPT !.speed = IF end > kept[h].ts THEN fast ELSE @,
                                    !.hourRound = hours, !.windowSpeed = recent]
    BY <1>7
  <2> HIDE DEF hours, fast, recent
  <2>2. DOMAIN before = {"recordStart", "latestPt", "averageRound", "averagePt", "speed",
                         "hourRound", "windowSpeed"}
    BY <1>6 DEF NoMetrics
  <2>3. CASE Len(kept) < 2
    <3>1. after = before
      BY <2>1, <2>3
    <3> QED
      BY <1>6, <3>1 DEF hours, fast, recent
  <2>4. CASE ~(Len(kept) < 2)
    <3>1. after = [before EXCEPT !.speed = IF end > kept[h].ts THEN fast ELSE @,
                                 !.hourRound = hours, !.windowSpeed = recent]
      BY <2>1, <2>4
    <3>2. after.hourRound = hours /\ after.windowSpeed = recent
          /\ after.speed = IF end > kept[h].ts THEN fast ELSE before.speed
      BY <2>2, <3>1, SMT
    <3> QED
      BY <1>6, <3>2 DEF hours, fast, recent
  <2> QED
    BY <2>3, <2>4
<1>9. Missing.known = FALSE /\ \A v : Known(v).value = v
  <2>1. Missing.known = FALSE
    BY Zenon DEF Missing
  <2>2. ASSUME NEW v PROVE Known(v).value = v
    BY SMT DEF Known
  <2> QED
    BY <2>1, <2>2
<1> DEFINE m == Metrics(s, t)
<1>10. /\ m.hourRound \in {Missing, Known(CountPositiveDeltas(SubSeq(kept, h, Len(kept))))}
       /\ m.speed \in {Missing, Known((gain(h) * Hour) \div (end - kept[h].ts))}
       /\ m.windowSpeed \in {Missing, Known(gain(w) * (Hour \div Window))}
  BY <1>4, <1>8 DEF NoMetrics
<1> HIDE DEF m
<1>11. /\ m.hourRound.known => m.hourRound.value = CountPositiveDeltas(SubSeq(kept, h, Len(kept)))
       /\ m.speed.known => m.speed.value = (gain(h) * Hour) \div (end - kept[h].ts)
       /\ m.windowSpeed.known => m.windowSpeed.value = gain(w) * (Hour \div Window)
  BY <1>9, <1>10, Zenon
<1> QED
  BY <1>5, <1>11 DEF end, m

\* A trace that shows a set of items, each of its own time.
Shows(s, own) ==
  /\ IsTrace(s)
  /\ \A i \in 1..Len(s) : \E y \in own : y.ts = s[i].ts /\ y.score = s[i].score
  /\ \A y \in own : \E i \in 1..Len(s) : y.ts = s[i].ts /\ y.score = s[i].score
  /\ \A y, z \in own : y.ts = z.ts => y = z

\* The items of a trace, by their places.
LEMMA ItemsShown ==
  ASSUME NEW s, NEW own, Shows(s, own)
  PROVE  \E it \in [1..Len(s) -> own] :
           /\ \A i \in 1..Len(s) : it[i].ts = s[i].ts /\ it[i].score = s[i].score
           /\ \A y \in own : \E i \in 1..Len(s) : y = it[i]
           /\ \A i \in 1..Len(s) : s[i].ts \in Nat /\ s[i].score \in Int
           /\ \A i, j \in 1..Len(s) : i < j => s[i].ts < s[j].ts
           /\ Len(s) \in Nat
<1> DEFINE it == [i \in 1..Len(s) |-> CHOOSE y \in own : y.ts = s[i].ts /\ y.score = s[i].score]
<1>1. \A i \in 1..Len(s) : it[i] \in own /\ it[i].ts = s[i].ts /\ it[i].score = s[i].score
  BY DEF Shows
<1>2. it \in [1..Len(s) -> own]
  BY <1>1
<1> HIDE DEF it
<1>3. \A y \in own : \E i \in 1..Len(s) : y = it[i]
  BY <1>1 DEF Shows
<1>4. \A i \in 1..Len(s) : s[i].ts \in Nat /\ s[i].score \in Int
  <2>1. \A i \in 1..Len(s) : s[i] \in [ts : Nat, score : Int]
    BY ElementOfSeq DEF Shows, IsTrace
  <2> QED
    BY <2>1
<1>5. /\ \A i, j \in 1..Len(s) : i < j => s[i].ts < s[j].ts
      /\ Len(s) \in Nat
  BY LenProperties DEF Shows, IsTrace
<1> QED
  BY <1>1, <1>2, <1>3, <1>4, <1>5

\* A window begins with the item at its baseline.
LEMMA BaseShown ==
  ASSUME NEW s, NEW own, Shows(s, own), NEW start \in Int, NEW b, IsBase(s, start, b)
  PROVE  /\ BaseOf(own, start).ts = s[b].ts
         /\ BaseOf(own, start).score = s[b].score
<1>1. PICK it \in [1..Len(s) -> own] :
        /\ \A i \in 1..Len(s) : it[i].ts = s[i].ts /\ it[i].score = s[i].score
        /\ \A y \in own : \E i \in 1..Len(s) : y = it[i]
        /\ \A i \in 1..Len(s) : s[i].ts \in Nat /\ s[i].score \in Int
        /\ \A i, j \in 1..Len(s) : i < j => s[i].ts < s[j].ts
        /\ Len(s) \in Nat
  BY ItemsShown
<1>2. b \in 1..Len(s)
  BY DEF IsBase
<1> DEFINE base == it[b]
           old == {y \in own : y.ts <= start}
<1>3. base \in own /\ base.ts = s[b].ts /\ base.score = s[b].score
  BY <1>1, <1>2
<1>4. \A y, z \in own : y.ts = z.ts => y = z
  BY DEF Shows
<1>5. \A y \in own : y.ts \in Nat
  BY <1>1
<1>6. CASE s[b].ts <= start
  <2>1. \A y \in old : y.ts <= base.ts
    <3> SUFFICES ASSUME NEW y \in own, y.ts <= start
                 PROVE  y.ts <= s[b].ts
      BY <1>3
    <3>1. PICK i \in 1..Len(s) : y = it[i]
      BY <1>1
    <3>2. ~(i > b)
      BY <1>1, <3>1 DEF IsBase
    <3>3. i = b \/ i < b
      BY <1>1, <1>2, <3>2
    <3> QED
      BY <1>1, <1>2, <3>1, <3>3
  <2>2. base \in old
    BY <1>3, <1>6
  <2>3. \A y \in old : (\A z \in old : z.ts <= y.ts) => y = base
    <3> SUFFICES ASSUME NEW y \in old, \A z \in old : z.ts <= y.ts
                 PROVE  y = base
      OBVIOUS
    <3>1. y.ts <= base.ts /\ base.ts <= y.ts
      BY <2>1, <2>2
    <3>2. y.ts = base.ts
      BY <1>3, <1>5, <3>1
    <3> QED
      BY <1>3, <1>4, <3>2
  <2> HIDE DEF old, base
  <2>4. BaseOf(own, start) = CHOOSE y \in old : \A z \in old : z.ts <= y.ts
    BY <2>2 DEF BaseOf, old
  <2>5. BaseOf(own, start) = base
    BY <2>1, <2>2, <2>3, <2>4
  <2> QED
    BY <1>3, <2>5
<1>7. CASE ~(s[b].ts <= start)
  <2>1. b = 1
    BY <1>7 DEF IsBase
  <2>2. \A j \in 1..Len(s) : s[j].ts > start
    <3> TAKE j \in 1..Len(s)
    <3>1. j = b \/ j > b
      BY <2>1
    <3> QED
      BY <1>1, <1>2, <1>7, <3>1 DEF IsBase
  <2>3. old = {}
    BY <1>1, <2>2
  <2>4. \A y \in own : base.ts <= y.ts
    <3> TAKE y \in own
    <3>1. PICK i \in 1..Len(s) : y = it[i]
      BY <1>1
    <3>2. i = b \/ b < i
      BY <2>1
    <3> QED
      BY <1>1, <1>2, <3>1, <3>2
  <2>5. \A y \in own : (\A z \in own : y.ts <= z.ts) => y = base
    <3> SUFFICES ASSUME NEW y \in own, \A z \in own : y.ts <= z.ts
                 PROVE  y = base
      OBVIOUS
    <3>1. y.ts <= base.ts /\ base.ts <= y.ts
      BY <1>3, <2>4
    <3>2. y.ts = base.ts
      BY <1>3, <1>5, <3>1
    <3> QED
      BY <1>3, <1>4, <3>2
  <2> HIDE DEF base
  <2>6. BaseOf(own, start) = CHOOSE y \in own : \A z \in own : y.ts <= z.ts
    BY <2>3 DEF BaseOf
  <2>7. BaseOf(own, start) = base
    BY <1>3, <2>4, <2>5, <2>6
  <2> QED
    BY <1>3, <2>7
<1> QED
  BY <1>6, <1>7

\* What is counted from there are the rises.
LEMMA RisesShown ==
  ASSUME NEW s, NEW own, Shows(s, own), NEW b \in 1..Len(s), NEW base, base.ts = s[b].ts
  PROVE  CountPositiveDeltas(SubSeq(s, b, Len(s))) = Cardinality(Rises(own, base))
<1> DEFINE n == Len(s)  q == SubSeq(s, b, n)
           gains == {i \in 1..(Len(q) - 1) : q[i + 1].score > q[i].score}
           ups == Rises(own, base)
<1>1. PICK it \in [1..n -> own] :
        /\ \A i \in 1..n : it[i].ts = s[i].ts /\ it[i].score = s[i].score
        /\ \A y \in own : \E i \in 1..n : y = it[i]
        /\ \A i \in 1..n : s[i].ts \in Nat /\ s[i].score \in Int
        /\ \A i, j \in 1..n : i < j => s[i].ts < s[j].ts
        /\ n \in Nat
  BY ItemsShown
<1>2. Len(q) = n - b + 1 /\ \A i \in 1..Len(q) : q[i] = s[b + i - 1]
  BY LastOnes DEF Shows
<1>3. CountPositiveDeltas(q) = Cardinality(gains)
  BY DEF CountPositiveDeltas
<1> HIDE DEF n, q
<1>4. b \in 1..n
  BY DEF n
<1>5. \A i, j \in 1..n : s[i].ts < s[j].ts => i < j
  <2> SUFFICES ASSUME NEW i \in 1..n, NEW j \in 1..n, s[i].ts < s[j].ts, ~(i < j)
               PROVE  FALSE
    OBVIOUS
  <2>1. i = j \/ j < i
    OBVIOUS
  <2> QED
    BY <1>1, <2>1
<1>6. \A j \in b + 1..n : s[j].score > s[j - 1].score <=> it[j] \in ups
  <2> SUFFICES ASSUME NEW j \in b + 1..n
               PROVE  s[j].score > s[j - 1].score <=> it[j] \in ups
    OBVIOUS
  <2>1. j \in 1..n /\ j - 1 \in 1..n /\ j - 1 < j /\ (b = j - 1 \/ b < j - 1)
    BY <1>1, <1>4
  <2>2. it[j] \in own /\ it[j - 1] \in own
    BY <1>1, <2>1
  <2>3. ASSUME s[j].score > s[j - 1].score
        PROVE  it[j] \in ups
    <3>1. base.ts <= it[j - 1].ts
      BY <1>1, <1>4, <2>1
    <3>2. it[j - 1].ts < it[j].ts /\ it[j - 1].score < it[j].score
      BY <1>1, <2>1, <2>3
    <3>3. ~ \E w \in own : it[j - 1].ts < w.ts /\ w.ts < it[j].ts
      <4> SUFFICES ASSUME NEW w \in own, it[j - 1].ts < w.ts, w.ts < it[j].ts
                   PROVE  FALSE
        OBVIOUS
      <4>1. PICK k \in 1..n : w = it[k]
        BY <1>1
      <4>2. j - 1 < k /\ k < j
        BY <1>1, <1>5, <2>1, <4>1
      <4> QED
        BY <1>1, <2>1, <4>2
    <3> QED
      BY <2>2, <3>1, <3>2, <3>3 DEF Rises
  <2>4. ASSUME it[j] \in ups
        PROVE  s[j].score > s[j - 1].score
    <3>1. PICK t \in own : /\ base.ts <= t.ts /\ t.ts < it[j].ts /\ t.score < it[j].score
                           /\ ~ \E w \in own : t.ts < w.ts /\ w.ts < it[j].ts
      BY <2>4 DEF Rises
    <3>2. PICK k \in 1..n : t = it[k]
      BY <1>1
    <3>3. k < j
      BY <1>1, <1>5, <2>1, <3>1, <3>2
    <3>4. ~(k < j - 1)
      <4> SUFFICES ASSUME k < j - 1
                   PROVE  FALSE
        OBVIOUS
      <4>1. s[k].ts < s[j - 1].ts /\ s[j - 1].ts < s[j].ts
        BY <1>1, <2>1
      <4> QED
        BY <1>1, <2>1, <2>2, <3>1, <3>2, <4>1
    <3>5. k = j - 1
      BY <2>1, <3>3, <3>4
    <3> QED
      BY <1>1, <2>1, <3>1, <3>2, <3>5
  <2> QED
    BY <2>3, <2>4
<1>7. \A y \in ups : \E j \in b + 1..n : y = it[j]
  <2> SUFFICES ASSUME NEW y \in ups
               PROVE  \E j \in b + 1..n : y = it[j]
    OBVIOUS
  <2>1. PICK t \in own : base.ts <= t.ts /\ t.ts < y.ts
    BY DEF Rises
  <2>2. PICK j \in 1..n : y = it[j]
    BY <1>1 DEF Rises
  <2>3. PICK k \in 1..n : t = it[k]
    BY <1>1
  <2>4. s[b].ts < s[j].ts
    <3>1. y.ts = s[j].ts /\ t.ts = s[k].ts
      BY <1>1, <2>2, <2>3
    <3>2. s[b].ts \in Nat /\ s[j].ts \in Nat /\ s[k].ts \in Nat
      BY <1>1, <1>4
    <3> QED
      BY <2>1, <3>1, <3>2
  <2>5. b < j
    BY <1>4, <1>5, <2>4
  <2>6. j \in b + 1..n
    BY <1>1, <1>4, <2>5
  <2> QED
    BY <2>2, <2>6
<1>8. \A i \in gains : \E j \in b + 1..n : j = b + i /\ s[j].score > s[j - 1].score
  <2> SUFFICES ASSUME NEW i \in 1..(Len(q) - 1), q[i + 1].score > q[i].score
               PROVE  \E j \in b + 1..n : j = b + i /\ s[j].score > s[j - 1].score
    OBVIOUS
  <2>1. i \in 1..Len(q) /\ i + 1 \in 1..Len(q) /\ b + i \in b + 1..n
    BY <1>1, <1>2, <1>4
  <2>2. q[i] = s[b + i - 1] /\ q[i + 1] = s[b + (i + 1) - 1] /\ b + (i + 1) - 1 = b + i
    BY <1>2, <1>4, <2>1
  <2> QED
    BY <2>1, <2>2
<1>9. \A j \in b + 1..n : s[j].score > s[j - 1].score => j - b \in gains
  <2> SUFFICES ASSUME NEW j \in b + 1..n, s[j].score > s[j - 1].score
               PROVE  j - b \in gains
    OBVIOUS
  <2>1. j - b \in 1..(Len(q) - 1) /\ j - b \in 1..Len(q) /\ j - b + 1 \in 1..Len(q)
    <3>1. n \in Nat /\ b \in Nat /\ j \in Nat /\ b + 1 <= j /\ j <= n /\ Len(q) = n - b + 1
      BY <1>1, <1>2, <1>4
    <3> DEFINE l == Len(q)
    <3> HIDE DEF l
    <3>2. l = n - b + 1
      BY <3>1 DEF l
    <3>3. j - b \in 1..(l - 1) /\ j - b \in 1..l /\ j - b + 1 \in 1..l
      BY <3>1, <3>2
    <3> QED
      BY <3>3 DEF l
  <2>2. b + (j - b) - 1 = j - 1 /\ b + (j - b + 1) - 1 = j
    BY <1>4
  <2>3. q[j - b] = s[j - 1] /\ q[j - b + 1] = s[j]
    BY <1>2, <2>1, <2>2
  <2> QED
    BY <2>1, <2>3
<1> HIDE DEF gains, ups
<1> DEFINE f == [i \in gains |-> it[b + i]]
<1>10. f \in [gains -> ups]
  <2> SUFFICES ASSUME NEW i \in gains
               PROVE  it[b + i] \in ups
    OBVIOUS
  <2>1. PICK j \in b + 1..n : j = b + i /\ s[j].score > s[j - 1].score
    BY <1>8
  <2> QED
    BY <1>6, <2>1
<1>11. \A i, j \in gains : f[i] = f[j] => i = j
  <2> SUFFICES ASSUME NEW i \in gains, NEW j \in gains, it[b + i] = it[b + j]
               PROVE  i = j
    OBVIOUS
  <2>1. b + i \in 1..n /\ b + j \in 1..n /\ i \in Int /\ j \in Int
    BY <1>1, <1>4, <1>8 DEF gains
  <2>2. s[b + i].ts = s[b + j].ts
    BY <1>1, <2>1
  <2>3. ~(b + i < b + j) /\ ~(b + j < b + i)
    BY <1>1, <2>1, <2>2
  <2> QED
    BY <1>4, <2>1, <2>3
<1>12. \A y \in ups : \E i \in gains : f[i] = y
  <2> SUFFICES ASSUME NEW y \in ups
               PROVE  \E i \in gains : f[i] = y
    OBVIOUS
  <2>1. PICK j \in b + 1..n : y = it[j]
    BY <1>7
  <2>2. j - b \in gains
    BY <1>6, <1>9, <2>1
  <2>3. b + (j - b) = j
    BY <1>4
  <2> QED
    BY <2>1, <2>2, <2>3
<1> HIDE DEF f
<1>13. f \in Bijection(gains, ups)
  BY <1>10, <1>11, <1>12 DEF Bijection, Injection, Surjection, IsInjective
<1>14. IsFiniteSet(gains)
  <2>1. gains \subseteq 1..(Len(q) - 1)
    BY DEF gains
  <2>2. IsFiniteSet(1..(Len(q) - 1))
    BY <1>1, <1>2, <1>4, FS_Interval
  <2> QED
    BY <2>1, <2>2, FS_Subset
<1>15. Cardinality(gains) = Cardinality(ups)
  BY <1>13, <1>14, FS_Bijection, Zenon DEF ExistsBijection
<1> QED
  BY <1>3, <1>15 DEF q, n, ups

\* The metrics of a row with the items up to it, at time t.
OfTheRow(row, own, m, t) ==
  LET end == IF t - row.ts > MaxLag THEN row.ts ELSE t
      base == BaseOf(own, end - Hour)
      recent == BaseOf(own, end - Window)
  IN /\ m.hourRound.known => m.hourRound.value = Cardinality(Rises(own, base))
     /\ m.speed.known =>
          m.speed.value = (AtLeastZero(row.score - base.score) * Hour) \div (end - base.ts)
     /\ m.windowSpeed.known =>
          m.windowSpeed.value = AtLeastZero(row.score - recent.score) * (Hour \div Window)

LEMMA MetricsShown ==
  ASSUME NEW s, NEW own, Shows(s, own), NEW row \in own, \A y \in own : y.ts <= row.ts,
         row.ts > 0, NEW t \in Nat, row.ts <= t
  PROVE  OfTheRow(row, own, Metrics(s, t), t)
<1> DEFINE n == Len(s)  last == s[n]
           end == IF t - row.ts > MaxLag THEN row.ts ELSE t
           h == Baseline(s, end - Hour)  w == Baseline(s, end - Window)
           base == BaseOf(own, end - Hour)  recent == BaseOf(own, end - Window)
           m == Metrics(s, t)
<1>1. IsTrace(s) /\ n \in 1..n
  BY LenProperties DEF Shows, IsTrace
<1>2. last.ts = row.ts /\ last.score = row.score /\ row.ts \in Nat
  <2>1. PICK it \in [1..n -> own] :
          /\ \A i \in 1..n : it[i].ts = s[i].ts /\ it[i].score = s[i].score
          /\ \A y \in own : \E i \in 1..n : y = it[i]
          /\ \A i \in 1..n : s[i].ts \in Nat /\ s[i].score \in Int
          /\ \A i, j \in 1..n : i < j => s[i].ts < s[j].ts
          /\ n \in Nat
    BY ItemsShown
  <2>2. PICK i \in 1..n : row = it[i]
    BY <2>1
  <2> HIDE DEF n
  <2>3. it[n].ts <= row.ts
    BY <1>1, <2>1
  <2>4. i = n
    <3> SUFFICES ASSUME i < n
                 PROVE  FALSE
      BY <2>1
    <3>1. s[i].ts < s[n].ts /\ s[n].ts <= s[i].ts
      BY <1>1, <2>1, <2>2, <2>3
    <3> QED
      BY <1>1, <2>1, <3>1
  <2> QED
    BY <1>1, <2>1, <2>2, <2>4
<1>3. end \in Int /\ end - Hour \in Int /\ end - Window \in Int
  <2>1. end \in Int
    BY <1>2
  <2>2. Hour \in Nat /\ Window \in Nat
    BY SpansAssumption
  <2> HIDE DEF end
  <2> QED
    BY <2>1, <2>2
<1>4. end = IF t - last.ts > MaxLag THEN last.ts ELSE t
  BY <1>2
<1>5. /\ m.hourRound.known => m.hourRound.value = CountPositiveDeltas(SubSeq(s, h, n))
      /\ m.speed.known =>
           m.speed.value = (AtLeastZero(last.score - s[h].score) * Hour) \div (end - s[h].ts)
      /\ m.windowSpeed.known =>
           m.windowSpeed.value = AtLeastZero(last.score - s[w].score) * (Hour \div Window)
  <2>1. last.ts > 0 /\ last.ts <= t
    BY <1>2
  <2> HIDE DEF m
  <2> QED
    BY <1>1, <1>4, <2>1, MetricsAre, Zenon DEF m
<1> HIDE DEF end, m
<1>6. IsBase(s, end - Hour, h) /\ IsBase(s, end - Window, w)
  BY <1>1, <1>3, BaselineIs
<1> HIDE DEF h, w
<1>7. /\ base.ts = s[h].ts /\ base.score = s[h].score
      /\ recent.score = s[w].score
  BY <1>3, <1>6, BaseShown
<1>8. CountPositiveDeltas(SubSeq(s, h, n)) = Cardinality(Rises(own, base))
  <2>1. h \in 1..Len(s)
    BY <1>6 DEF IsBase
  <2> HIDE DEF base
  <2> QED
    BY <1>7, <2>1, RisesShown
<1> HIDE DEF base, recent, last, n
<1>9. /\ m.hourRound.known => m.hourRound.value = Cardinality(Rises(own, base))
      /\ m.speed.known =>
           m.speed.value = (AtLeastZero(row.score - base.score) * Hour) \div (end - base.ts)
      /\ m.windowSpeed.known =>
           m.windowSpeed.value = AtLeastZero(row.score - recent.score) * (Hour \div Window)
  BY <1>2, <1>5, <1>7, <1>8, Zenon
<1> QED
  BY <1>9, Zenon DEF OfTheRow, base, recent, end, m

-----------------------------------------------------------------------------
(* The snapshot of a rank and the round metrics it is shown with.  *)

\* A row that an answer may show.
Shown(row) == \E r \in Table : row = Item(db, r)

\* The clock is past 0, and with it all times.
Started ==
  /\ now > 0
  /\ tick.phase # "idle" => tick.begun > 0
  /\ \A i \in DOMAIN db.stamps : db.stamps[i].ts > 0

LEMMA StartedStep ==
  ASSUME Typed, Times, Tabled, Started, [Next]_vars
  PROVE  Started'
<1>1. now' >= now /\ now' > 0
  <2>1. now' = now \/ now' = now + 1
    <3>1. CASE Elapse \/ Tracker \/ UNCHANGED vars
      BY <3>1, Zenon DEF Elapse, Tracker, Begin, FetchFails, Fetched, LandMain, LandChapters,
                  LandFails, vars
    <3>2. CASE Reader
      BY <3>2, ReaderStep
    <3> QED
      BY <3>1, <3>2 DEF Next
  <2> QED
    BY <2>1 DEF Typed, Started
<1>2. tick'.phase # "idle" => tick'.begun > 0
  <2> USE DEF Typed, Ticks, Started
  <2>1. CASE Begin
    BY <2>1 DEF Begin, IdleTick
  <2>2. CASE FetchFails
    BY <2>2 DEF FetchFails, IdleTick
  <2>3. CASE Fetched
    BY <2>3 DEF Fetched
  <2>4. CASE LandMain
    BY <2>4 DEF LandMain
  <2>5. CASE LandChapters
    BY <2>5 DEF LandChapters, IdleTick
  <2>6. CASE LandFails
    BY <2>6 DEF LandFails, IdleTick
  <2>7. CASE Elapse \/ Reader \/ UNCHANGED vars
    <3>1. tick' = tick
      BY <2>7, ReaderStep DEF Elapse, trackerVars, vars
    <3> QED
      BY <3>1
  <2> QED
    BY <2>1, <2>2, <2>3, <2>4, <2>5, <2>6, <2>7 DEF Next, Tracker
<1>3. \A i \in DOMAIN db'.stamps : db'.stamps[i].ts > 0
  <2>1. CASE db' = db
    BY <2>1 DEF Started
  <2>2. CASE tick.phase # "idle" /\ Grows(db, db', tick.begun)
    <3>1. tick.begun \in Nat /\ tick.begun > 0
      BY <2>2 DEF Typed, Ticks, Started
    <3>2. Typed'
      BY TypedStep
    <3>3. \A i \in DOMAIN db'.stamps : db'.stamps[i].ts \in Nat
      <4>1. db'.stamps \in Seq(StampRec)
        BY <3>2 DEF Typed, Tables
      <4>2. \A i \in DOMAIN db'.stamps : db'.stamps[i] \in StampRec
        BY <4>1, ElementOfSeq, LenProperties
      <4> QED
        BY <4>2 DEF StampRec
    <3> TAKE i \in DOMAIN db'.stamps
    <3>4. CASE i \in DOMAIN db.stamps
      BY <2>2, <3>4 DEF Grows, Started
    <3>5. CASE i \notin DOMAIN db.stamps
      <4>1. db'.stamps[i].ts >= tick.begun
        BY <2>2, <3>5 DEF Grows
      <4> QED
        BY <3>1, <3>3, <4>1
    <3> QED
      BY <3>4, <3>5
  <2> QED
    BY <2>1, <2>2, TablesStep
<1> QED
  BY <1>1, <1>2, <1>3 DEF Started

\* A row that is shown, and the ones of its user up to it.
LEMMA ShownFacts ==
  ASSUME Typed, Times, Tabled, Started, ask \in Calls, NEW x, Shown(x)
  PROVE  /\ x \in UpToRow(x) /\ \A y \in UpToRow(x) : y.ts <= x.ts
         /\ x.ts \in Nat /\ x.ts > 0 /\ x.ts <= now
<1>1. PICK r \in Table : x = Item(db, r)
  BY DEF Shown
<1>2. \A q \in Table : q.tid \in DOMAIN db.stamps /\ Stamp(db, q) \in Nat
  BY TableFacts DEF Table
<1>3. x.ts = Stamp(db, r) /\ x.key = r.key
  BY <1>1 DEF Item
<1>4. x.ts \in Nat /\ x.ts > 0 /\ x.ts <= now
  BY <1>2, <1>3 DEF Stamp, Started, Times, Fresh
<1>5. x \in UpToRow(x)
  BY <1>1, <1>3, <1>4 DEF UpToRow, Table
<1>6. \A y \in UpToRow(x) : y.ts <= x.ts
  <2> SUFFICES ASSUME NEW q \in Table, Stamp(db, q) <= x.ts
               PROVE  Item(db, q).ts <= x.ts
    BY DEF UpToRow, Table
  <2> QED
    BY DEF Item
<1> QED
  BY <1>4, <1>5, <1>6

\* They stay the same: what is written later is later than the row.
LEMMA ShownKept ==
  ASSUME Typed, Times, Tabled, ask \in Calls, [Next]_vars, NEW x, Shown(x)
  PROVE  Shown(x)' /\ UpToRow(x)' = UpToRow(x)
<1> DEFINE T == TableOf(ask.chapter)
<1>1. UNCHANGED ask /\ (db' = db \/ Grows(db, db', tick.begun)) /\ Typed' /\ Times' /\ Tabled'
  <2>1. Typed' /\ Times' /\ Tabled' /\ (db' = db \/ Grows(db, db', tick.begun))
    BY TypedStep, TimesStep, TablesStep
  <2>2. UNCHANGED ask
    BY ReaderStep, Zenon DEF Next, Elapse, Tracker, Begin, FetchFails, Fetched, LandMain,
       LandChapters, LandFails, readerVars, vars
  <2> QED
    BY <2>1, <2>2
<1>2. T \subseteq T' /\ \A r \in T : Item(db, r)' = Item(db, r)
  BY <1>1, TableKept
<1>3. PICK r \in T : x = Item(db, r)
  BY DEF Shown, Table
<1>4. Shown(x)'
  BY <1>2, <1>3 DEF Shown, Table
<1>5. \A q \in T : Stamp(db, q)' = Stamp(db, q)
  BY <1>2 DEF Item
<1>6. x.ts = Stamp(db, r) /\ x.ts = Stamp(db, r)' /\ r \in T'
  BY <1>2, <1>3, <1>5 DEF Item
<1>7. \A q \in T' : Stamp(db, q)' <= x.ts => q \in T
  <2> SUFFICES ASSUME NEW q \in T', q \notin T, Stamp(db, q)' <= x.ts
               PROVE  FALSE
    OBVIOUS
  <2>1. r.tid < q.tid
    BY <1>1, <1>3 DEF Grows, Newer, TableOf, ChapterRows
  <2>2. r.tid \in DOMAIN db'.stamps /\ q.tid \in DOMAIN db'.stamps
    BY <1>1, <1>6 DEF Tabled, TableOf, ChapterRows
  <2>3. Stamp(db, r)' < Stamp(db, q)'
    BY <1>1, <2>1, <2>2 DEF Times, MonotoneTimes, Stamp
  <2>4. Stamp(db, r)' \in Nat /\ Stamp(db, q)' \in Nat
    <3>1. \A i \in DOMAIN db'.stamps : db'.stamps[i] \in StampRec
      BY <1>1, ElementOfSeq, LenProperties DEF Typed, Tables
    <3> QED
      BY <2>2, <3>1 DEF Stamp, StampRec
  <2> QED
    BY <1>6, <2>3, <2>4
<1>8. {q \in T' : q.key = x.key /\ Stamp(db, q)' <= x.ts}
        = {q \in T : q.key = x.key /\ Stamp(db, q) <= x.ts}
  BY <1>2, <1>5, <1>7
<1>9. UpToRow(x) = {Item(db, q) : q \in {q \in T : q.key = x.key /\ Stamp(db, q) <= x.ts}}
  BY DEF UpToRow
<1>10. UpToRow(x)' = {Item(db, q)' : q \in {q \in T' : q.key = x.key /\ Stamp(db, q)' <= x.ts}}
  BY DEF UpToRow
<1>11. UpToRow(x)' = UpToRow(x)
  BY <1>2, <1>8, <1>9, <1>10
<1> QED
  BY <1>4, <1>11

\* cloud_trace_metrics_filter: the trace has the rows of the user up to the one shown.
LEMMA TraceShows ==
  ASSUME Typed, Times, Tabled, Finite, ask \in Calls, NEW x, Shown(x)
  PROVE  LET rows == TraceOf(ask.chapter, "user", x.key, MetricsFilter(x))
         IN Shows([i \in DOMAIN rows |-> [ts |-> Stamp(db, rows[i]), score |-> rows[i].score]],
                  UpToRow(x))
<1> DEFINE f == MetricsFilter(x)
           rows == TraceOf(ask.chapter, "user", x.key, f)
           hits == {r \in TraceTable("user", x.key) :
                      /\ InSpan(f, Stamp(db, r))
                      /\ f.cursor # None => Stamp(db, r) > f.cursor}
           s == [i \in DOMAIN rows |-> [ts |-> Stamp(db, rows[i]), score |-> rows[i].score]]
           T == TableOf(ask.chapter)
<1>1. PICK own \in T : x = Item(db, own)
  BY DEF Shown, Table
<1>2. /\ \A r \in T : r.score \in Int /\ Stamp(db, r) \in Nat
      /\ \A q, r \in T : q.tid = r.tid <=> Stamp(db, q) = Stamp(db, r)
      /\ Keyed(T)
  BY TableFacts
<1>3. x.ts \in Nat /\ x.ts = Stamp(db, own) /\ x.key = own.key
  BY <1>1, <1>2 DEF Item
<1>4. f.from = None /\ f.upto = x.ts /\ f.cursor = None /\ f.limit = None /\ x.ts # None
  BY <1>3, NoneIsNoNumber DEF MetricsFilter
<1>5. hits = {r \in T : r.key = x.key /\ Stamp(db, r) <= x.ts}
  BY <1>4 DEF InSpan, TraceTable
<1>6. PICK seq : /\ Lists(hits, seq) /\ TracePart(rows, seq, f.limit)
                 /\ \A i, j \in 1..Len(seq) : i < j => Stamp(db, seq[i]) < Stamp(db, seq[j])
  BY TraceIs
<1>7. rows = seq
  BY <1>4, <1>6 DEF TracePart
<1>8. UpToRow(x) = {Item(db, r) : r \in hits}
  BY <1>5 DEF UpToRow
<1>9. own \in hits /\ hits \subseteq T /\ \A q, r \in hits : q.key = r.key
  BY <1>1, <1>3, <1>5
<1> HIDE DEF hits, f, rows, T
<1>10. /\ DOMAIN rows = 1..Len(seq) /\ Len(seq) \in Nat
       /\ \A i \in 1..Len(seq) : rows[i] = seq[i] /\ seq[i] \in hits
       /\ \A r \in hits : \E i \in 1..Len(seq) : seq[i] = r
  BY <1>6, <1>7, LenProperties, ElementOfSeq DEF Lists
<1>11. /\ DOMAIN s = 1..Len(seq)
       /\ \A i \in 1..Len(seq) : s[i] = [ts |-> Stamp(db, seq[i]), score |-> seq[i].score]
  BY <1>10
<1>12. s \in [1..Len(seq) -> [ts : Nat, score : Int]]
  <2>1. \A i \in 1..Len(seq) : s[i] \in [ts : Nat, score : Int]
    BY <1>2, <1>9, <1>10, <1>11
  <2>2. s = [i \in 1..Len(seq) |-> s[i]]
    BY <1>11
  <2> HIDE DEF s
  <2> QED
    BY <2>1, <2>2
<1> HIDE DEF s
<1>13. s \in Seq([ts : Nat, score : Int]) /\ Len(s) = Len(seq)
  BY <1>10, <1>12, SeqOfLength
<1>14. IsTrace(s)
  <2>1. Len(s) > 0
    BY <1>9, <1>10, <1>13
  <2>2. \A i \in 1..Len(s) : s[i].ts = Stamp(db, seq[i])
    BY <1>11, <1>13
  <2>3. \A i, j \in 1..Len(s) : i < j => s[i].ts < s[j].ts
    BY <1>6, <1>13, <2>2
  <2> QED
    BY <1>13, <2>1, <2>3 DEF IsTrace
<1>15. \A i \in 1..Len(s) : \E y \in UpToRow(x) : y.ts = s[i].ts /\ y.score = s[i].score
  <2> TAKE i \in 1..Len(s)
  <2>1. seq[i] \in hits /\ s[i] = [ts |-> Stamp(db, seq[i]), score |-> seq[i].score]
    BY <1>10, <1>11, <1>13
  <2>2. Item(db, seq[i]) \in UpToRow(x)
    BY <1>8, <2>1
  <2>3. Item(db, seq[i]).ts = s[i].ts /\ Item(db, seq[i]).score = s[i].score
    BY <2>1 DEF Item
  <2> QED
    BY <2>2, <2>3
<1>16. \A y \in UpToRow(x) : \E i \in 1..Len(s) : y.ts = s[i].ts /\ y.score = s[i].score
  <2> SUFFICES ASSUME NEW r \in hits
               PROVE  \E i \in 1..Len(s) : /\ Item(db, r).ts = s[i].ts
                                           /\ Item(db, r).score = s[i].score
    BY <1>8
  <2>1. PICK i \in 1..Len(s) : seq[i] = r
    BY <1>10, <1>13
  <2>2. s[i] = [ts |-> Stamp(db, r), score |-> r.score]
    BY <1>11, <1>13, <2>1
  <2> QED
    BY <2>2 DEF Item
<1>17. \A y, z \in UpToRow(x) : y.ts = z.ts => y = z
  <2> SUFFICES ASSUME NEW q \in hits, NEW r \in hits, Item(db, q).ts = Item(db, r).ts
               PROVE  Item(db, q) = Item(db, r)
    BY <1>8
  <2>1. q.tid = r.tid
    BY <1>2, <1>9 DEF Item
  <2> QED
    BY <1>2, <1>9, <2>1 DEF Keyed
<1> QED
  BY <1>14, <1>15, <1>16, <1>17 DEF Shows, s, rows, f

\* The ranks asked for are finitely many.
LEMMA RequestedFinite ==
  ASSUME call.ranks \in Seq(Int)
  PROVE  IsFiniteSet(Requested)
<1> DEFINE ranks == {call.ranks[i] : i \in DOMAIN call.ranks}
           behind == {k + 1 : k \in ranks}
           ahead == {k - 1 : k \in ranks}
<1>1. IsFiniteSet(DOMAIN call.ranks)
  BY LenProperties, FS_Interval
<1>2. IsFiniteSet(ranks)
  BY <1>1, ImageFinite
<1> HIDE DEF ranks
<1>3. IsFiniteSet(behind)
  <2> DEFINE f == [k \in ranks |-> k + 1]
  <2>1. DOMAIN f = ranks /\ behind = {f[k] : k \in ranks}
    OBVIOUS
  <2> HIDE DEF f, behind
  <2>2. IsFiniteSet({f[k] : k \in ranks})
    BY <1>2, <2>1, ImageFinite
  <2> QED
    BY <2>1, <2>2
<1>4. IsFiniteSet(ahead)
  <2> DEFINE f == [k \in ranks |-> k - 1]
  <2>1. DOMAIN f = ranks /\ ahead = {f[k] : k \in ranks}
    OBVIOUS
  <2> HIDE DEF f, ahead
  <2>2. IsFiniteSet({f[k] : k \in ranks})
    BY <1>2, <2>1, ImageFinite
  <2> QED
    BY <2>1, <2>2
<1>5. IsFiniteSet(ahead \ {0})
  BY <1>4, FS_Subset
<1>6. Requested = IF ask.adjacent THEN ranks \cup behind \cup (ahead \ {0}) ELSE ranks
  BY DEF Requested, ranks
<1> HIDE DEF behind, ahead
<1>7. IsFiniteSet(ranks \cup behind \cup (ahead \ {0}))
  BY <1>2, <1>3, <1>5, FS_Union
<1> QED
  BY <1>2, <1>6, <1>7

\* fetch_snapshot_items: the items are rows of the table.
LEMMA ItemsAreShown ==
  ASSUME Typed, Times, Tabled, Finite, Stages, call.ranks \in Seq(Int), Items
  PROVE  /\ \A k \in DOMAIN call'.res.items : Shown(call'.res.items[k])
         /\ call'.res.traces = call.res.traces
         /\ call'.jobs \subseteq DOMAIN call'.res.items
         /\ "items" \notin call'.todo /\ "resolve" \notin call'.todo
         /\ call'.ranks = call.ranks /\ UNCHANGED answer
<1> DEFINE f == RankFilter(Requested, ask.at, Cardinality(Requested))
           T == TableOf(ask.chapter)
           hits == IF IsRankWindow(f) THEN Ordered(LatestOfEachRank(db, T, f), ByRank)
                   ELSE Ordered(Matching(db, T, f), ByMoment)
           rows == (IF ask.chapter = None THEN SearchRankings(db, f)
                    ELSE SearchChapterRankings(db, ask.chapter, f)).rows
           found == {Item(db, rows[i]) : i \in DOMAIN rows}
           items == [k \in {x.rank : x \in found} |-> CHOOSE x \in found : x.rank = k]
           shown == DOMAIN items \cap {call.ranks[i] : i \in DOMAIN call.ranks}
<1>1. f.limit \in Nat
  BY RequestedFinite, FS_CardinalityType DEF RankFilter
<1>2. IsTable(T) /\ IsFiniteSet(T)
  <2>1. ask \in Calls
    BY DEF Stages
  <2>2. \A r \in T : r.tid \in Nat /\ r.rank \in Nat /\ r.key \in Nat
    BY <2>1, TableFacts
  <2>3. Keyed(T)
    BY <2>1, TableFacts
  <2>4. IsFiniteSet(db.rows) /\ IsFiniteSet(db.wl) /\ (T \subseteq db.rows \/ T \subseteq db.wl)
    BY DEF Finite, TableOf, ChapterRows
  <2>5. IsFiniteSet(T)
    BY <2>4, FS_Subset
  <2> QED
    BY <2>2, <2>3, <2>5 DEF IsTable
<1>3. Len(db.stamps) \in Nat /\ \A r \in T : r.tid \in 1..Len(db.stamps)
  BY TableFacts DEF Stages
<1>4. rows = Page(hits, f.limit).rows
  BY DEF SearchRankings, SearchChapterRankings, RankWindow, ChapterRankWindow, TableOf
<1>5. call' = [call EXCEPT !.res.items = items,
                 !.todo = IF ask.growth THEN {"early", "late"} ELSE {},
                 !.jobs = IF ask.rounds THEN shown ELSE {}]
      /\ UNCHANGED answer
  BY Zenon DEF Items
<1> HIDE DEF T, f
<1>6. RowsIn(Page(hits, f.limit).rows) \subseteq T
  BY <1>1, <1>2, <1>3, PageRows
<1> HIDE DEF hits, rows
<1>7. \A i \in DOMAIN rows : rows[i] \in T
  BY <1>4, <1>6 DEF RowsIn
<1>8. \A k \in DOMAIN items : Shown(items[k])
  <2> SUFFICES ASSUME NEW i \in DOMAIN rows
               PROVE  Shown(items[Item(db, rows[i]).rank])
    OBVIOUS
  <2>1. Item(db, rows[i]) \in found
    OBVIOUS
  <2>2. items[Item(db, rows[i]).rank] \in found
    BY <2>1
  <2>3. \A x \in found : Shown(x)
    BY <1>7 DEF Shown, Table, T
  <2> HIDE DEF items, found
  <2> QED
    BY <2>2, <2>3
<1>9. shown \subseteq DOMAIN items
  OBVIOUS
<1> HIDE DEF items, shown
<1>10. call'.res.items = items /\ call'.res.traces = call.res.traces /\ call'.jobs \subseteq shown
       /\ call'.todo \subseteq {"early", "late"} /\ call'.ranks = call.ranks
  BY <1>5 DEF Stages, NothingRead
<1> QED
  BY <1>5, <1>8, <1>9, <1>10

\* Of a snapshot: the items are rows of the table, the traces are those of their users up to
\* them, and so are the metrics of an answer.
MetricsInv ==
  /\ call.ranks \in Seq(Int)
  /\ call.todo \cap {"resolve", "items"} # {} => call.jobs = {} /\ call.res.traces = <<>>
  /\ \A k \in DOMAIN call.res.items : Shown(call.res.items[k])
  /\ \A k \in DOMAIN call.res.traces :
       /\ k \in DOMAIN call.res.items
       /\ Shows(call.res.traces[k], UpToRow(call.res.items[k]))
  /\ (answer # None /\ ask.kind = "snapshot") =>
       \A i \in DOMAIN answer.ranks :
         LET row == answer.ranks[i].current
             m == answer.ranks[i].rounds
         IN m = NoMetrics \/ (Shown(row) /\ OfTheRow(row, UpToRow(row), m, answer.time))

LEMMA MetricsUntouched ==
  ASSUME Stages, SubjectInv, [Next]_vars
  PROVE  \/ AskSnapshot \/ Resolve \/ Items \/ ReplySnapshot
         \/ \E k \in call.jobs : Enrich(k)
         \/ /\ call'.todo \cap {"resolve", "items"} \subseteq call.todo
            /\ call'.ranks = call.ranks /\ call'.jobs = call.jobs
            /\ call'.res.items = call.res.items /\ call'.res.traces = call.res.traces
            /\ UNCHANGED answer \/ ask.kind # "snapshot"
<1> USE DEF Stages, NothingRead
<1>1. CASE Elapse \/ Tracker \/ UNCHANGED vars
  BY <1>1 DEF Elapse, Tracker, Begin, FetchFails, Fetched, LandMain, LandChapters, LandFails,
              readerVars, vars
<1>2. CASE Open \/ RankingPage \/ UserPage \/ TracePage
  <2>1. call' = call /\ answer' = answer
    BY <1>2 DEF Open, RankingPage, UserPage, TracePage
  <2> QED
    BY <2>1
<1>3. CASE AskOverview
  BY <1>3 DEF AskOverview
<1>4. CASE AskSubject
  BY <1>4 DEF AskSubject
<1>5. CASE OverviewSpan
  BY <1>5 DEF OverviewSpan, Doing
<1>6. CASE Top \/ Players \/ Status
  <2>1. ASSUME NEW t, NEW next, NEW field \in {"top", "players", "status"}, NEW value,
               Finds(t, next, field, value), next \in {{}, {"span"}}
        PROVE  /\ call'.todo \cap {"resolve", "items"} \subseteq call.todo
               /\ call'.ranks = call.ranks /\ call'.jobs = call.jobs
               /\ call'.res.items = call.res.items /\ call'.res.traces = call.res.traces
               /\ UNCHANGED answer
    BY <2>1 DEF Finds, Doing
  <2> QED
    BY <1>6, <2>1 DEF Top, Players, Status
<1>7. CASE Lines
  BY <1>7 DEF Lines, Doing
<1>8. ASSUME NEW e \in {"early", "late"}, Edge(e)
      PROVE  /\ call'.todo \subseteq call.todo
             /\ call'.ranks = call.ranks /\ call'.jobs = call.jobs
             /\ call'.res.items = call.res.items /\ call'.res.traces = call.res.traces
             /\ UNCHANGED answer
  BY <1>8 DEF Edge, Doing
<1>9. CASE ResolveSubject
  BY <1>9 DEF ResolveSubject, Doing
<1>10. CASE SubjectTrace
  <2>1. ask.kind = "subject"
    BY <1>10 DEF SubjectTrace, Doing, SubjectInv
  <2>2. call' = [call EXCEPT !.state = "done", !.todo = {}]
    BY <1>10 DEF SubjectTrace
  <2> QED
    BY <2>1, <2>2
<1>11. CASE ReplyOverview
  <2>1. ask.kind = "overview" /\ call' = [call EXCEPT !.state = "done"]
    BY <1>11 DEF ReplyOverview
  <2> QED
    BY <2>1
<1> QED
  BY <1>1, <1>2, <1>3, <1>4, <1>5, <1>6, <1>7, <1>8, <1>9, <1>10, <1>11 DEF Next, Reader

LEMMA MetricsStep ==
  ASSUME Typed, Times, Tabled, Finite, Stages, CallInv, SubjectInv, Started, MetricsInv,
         [Next]_vars
  PROVE  MetricsInv'
<1>1. ask \in Calls /\ UNCHANGED ask
  BY OtherPages DEF Stages
<1>2. ASSUME NEW x, Shown(x)
      PROVE  Shown(x)' /\ UpToRow(x)' = UpToRow(x)
  BY <1>1, <1>2, ShownKept
<1>3. ASSUME NEW k \in DOMAIN call.res.items, NEW x, x = call.res.items[k]
      PROVE  Shown(x)'
  BY <1>2, <1>3 DEF MetricsInv
<1>4. ASSUME NEW k \in DOMAIN call.res.traces, NEW x, x = call.res.items[k]
      PROVE  k \in DOMAIN call.res.items /\ Shows(call.res.traces[k], UpToRow(x)')
  <2>1. k \in DOMAIN call.res.items /\ Shows(call.res.traces[k], UpToRow(x)) /\ Shown(x)
    BY <1>4 DEF MetricsInv
  <2>2. UpToRow(x)' = UpToRow(x)
    BY <1>2, <2>1
  <2> QED
    BY <2>1, <2>2
<1>5. ASSUME answer # None, ask.kind = "snapshot", NEW i \in DOMAIN answer.ranks,
             NEW row, row = answer.ranks[i].current, NEW m, m = answer.ranks[i].rounds
      PROVE  m = NoMetrics \/ (Shown(row)' /\ OfTheRow(row, UpToRow(row)', m, answer.time))
  <2>1. m = NoMetrics \/ (Shown(row) /\ OfTheRow(row, UpToRow(row), m, answer.time))
    BY <1>5 DEF MetricsInv
  <2> QED
    BY <1>2, <2>1
<1>6. CASE /\ call'.todo \cap {"resolve", "items"} \subseteq call.todo
           /\ call'.ranks = call.ranks /\ call'.jobs = call.jobs
           /\ call'.res.items = call.res.items /\ call'.res.traces = call.res.traces
           /\ UNCHANGED answer \/ ask.kind # "snapshot"
  <2>1. call'.ranks \in Seq(Int)
    BY <1>6 DEF MetricsInv
  <2>2. call'.todo \cap {"resolve", "items"} # {} => call'.jobs = {} /\ call'.res.traces = <<>>
    BY <1>6 DEF MetricsInv
  <2>3. \A k \in DOMAIN call'.res.items : Shown(call.res.items[k])'
    BY <1>3, <1>6
  <2>4. \A k \in DOMAIN call'.res.traces :
          /\ k \in DOMAIN call'.res.items
          /\ Shows(call'.res.traces[k], UpToRow(call.res.items[k])')
    BY <1>4, <1>6
  <2>5. ((answer # None /\ ask.kind = "snapshot") =>
           \A i \in DOMAIN answer.ranks :
             LET row == answer.ranks[i].current
                 m == answer.ranks[i].rounds
             IN m = NoMetrics \/ (Shown(row) /\ OfTheRow(row, UpToRow(row), m, answer.time)))'
    BY <1>1, <1>5, <1>6
  <2> QED
    BY <2>1, <2>2, <2>3, <2>4, <2>5 DEF MetricsInv
<1>7. CASE AskSnapshot \/ Resolve
  <2>1. /\ call'.ranks \in Seq(Int) /\ call'.jobs = call.jobs
        /\ call'.res.items = call.res.items /\ call'.res.traces = call.res.traces
        /\ call.jobs = {} /\ call.res.traces = <<>> /\ UNCHANGED answer
    <3>1. CASE AskSnapshot
      <4>1. ask.ranks \in Seq(Int)
        BY <1>1, <3>1, CallsAssumption DEF AskSnapshot
      <4> QED
        BY <3>1, <4>1 DEF AskSnapshot, Stages, NothingRead
    <3>2. CASE Resolve
      <4> DEFINE latest == Latest("user", ask.user)
      <4>1. latest # None => latest.rank \in Int
        <5>1. \A r \in TableOf(ask.chapter) : r.rank \in Int
          BY <1>1, TableFacts
        <5>2. latest # None => latest \in TraceTable("user", ask.user)
          BY <1>1, LatestIs
        <5> QED
          BY <5>1, <5>2 DEF TraceTable
      <4>2. latest # None => <<latest.rank>> \in Seq(Int)
        BY <4>1
      <4>3. /\ "resolve" \in call.todo /\ UNCHANGED answer
            /\ call' = IF latest = None THEN [call EXCEPT !.state = "done", !.todo = {}]
                       ELSE [call EXCEPT !.todo = {"items"}, !.ranks = <<latest.rank>>,
                               !.end = IF ask.at # None THEN ask.at ELSE now]
        BY <3>2 DEF Resolve, Doing
      <4> HIDE DEF latest
      <4>4. call.jobs = {} /\ call.res.traces = <<>>
        BY <4>3 DEF MetricsInv
      <4>5. call'.ranks \in Seq(Int) /\ call'.jobs = call.jobs /\ call'.res = call.res
        BY <4>2, <4>3 DEF MetricsInv, Stages
      <4> QED
        BY <4>3, <4>4, <4>5
    <3> QED
      BY <1>7, <3>1, <3>2
  <2>2. \A k \in DOMAIN call'.res.items : Shown(call.res.items[k])'
    BY <1>3, <2>1
  <2>3. DOMAIN call'.res.traces = {}
    BY <2>1
  <2>4. ((answer # None /\ ask.kind = "snapshot") =>
           \A i \in DOMAIN answer.ranks :
             LET row == answer.ranks[i].current
                 m == answer.ranks[i].rounds
             IN m = NoMetrics \/ (Shown(row) /\ OfTheRow(row, UpToRow(row), m, answer.time)))'
    BY <1>1, <1>5, <2>1
  <2> QED
    BY <2>1, <2>2, <2>3, <2>4 DEF MetricsInv
<1>8. CASE Items
  <2>1. call.ranks \in Seq(Int) /\ call.res.traces = <<>> /\ UNCHANGED db
    <3>1. "items" \in call.todo /\ UNCHANGED db
      BY <1>8 DEF Items, Doing, trackerVars
    <3> QED
      BY <3>1 DEF MetricsInv
  <2>2. /\ \A k \in DOMAIN call'.res.items : Shown(call'.res.items[k])
        /\ call'.res.traces = call.res.traces
        /\ "items" \notin call'.todo /\ "resolve" \notin call'.todo
        /\ call'.ranks = call.ranks /\ UNCHANGED answer
    BY <1>8, <2>1, ItemsAreShown
  <2>3. \A k \in DOMAIN call'.res.items : Shown(call.res.items[k])'
    BY <1>2, <2>2
  <2>4. DOMAIN call'.res.traces = {}
    BY <2>1, <2>2
  <2>5. ((answer # None /\ ask.kind = "snapshot") =>
           \A i \in DOMAIN answer.ranks :
             LET row == answer.ranks[i].current
                 m == answer.ranks[i].rounds
             IN m = NoMetrics \/ (Shown(row) /\ OfTheRow(row, UpToRow(row), m, answer.time)))'
    BY <1>1, <1>5, <2>2
  <2> QED
    BY <2>1, <2>2, <2>3, <2>4, <2>5 DEF MetricsInv
<1>9. ASSUME NEW k \in call.jobs, Enrich(k)
      PROVE  MetricsInv'
  <2> DEFINE item == call.res.items[k]
             rows == TraceOf(ask.chapter, "user", item.key, MetricsFilter(item))
             trace == [i \in DOMAIN rows |-> [ts |-> Stamp(db, rows[i]), score |-> rows[i].score]]
             more == [l \in DOMAIN call.res.traces \cup {k} |->
                        IF l = k THEN trace ELSE call.res.traces[l]]
  <2>1. k \in DOMAIN call.res.items /\ Shown(item)
    BY <1>9 DEF CallInv, MetricsInv
  <2>2. Shows(trace, UpToRow(item))
    BY <1>1, <2>1, TraceShows
  <2>3. PICK known \in BOOLEAN :
          call' = [call EXCEPT !.jobs = @ \ {k}, !.res.traces = IF known THEN more ELSE @]
    BY <1>9, Zenon DEF Enrich
  <2>4. UNCHANGED <<db, ask, answer>>
    BY <1>9 DEF Enrich, trackerVars
  <2>5. call' = [call EXCEPT !.jobs = @ \ {k},
                   !.res.traces = IF known THEN more ELSE call.res.traces]
    BY <2>3
  <2> HIDE DEF trace
  <2>6. /\ DOMAIN more = DOMAIN call.res.traces \cup {k} /\ more[k] = trace
        /\ \A l \in DOMAIN call.res.traces \ {k} : more[l] = call.res.traces[l]
    OBVIOUS
  <2> HIDE DEF more
  <2>7. /\ call'.res.items = call.res.items /\ call'.ranks = call.ranks
        /\ call'.todo = call.todo /\ call'.res.traces \in {more, call.res.traces}
    BY <2>5 DEF Stages, NothingRead
  <2>8. call.todo \cap {"resolve", "items"} = {}
    BY <1>9 DEF MetricsInv
  <2>9. \A l \in DOMAIN call'.res.items : Shown(call.res.items[l])'
    BY <1>3, <2>7
  <2>10. ASSUME NEW l \in DOMAIN call'.res.traces, NEW x, x = call.res.items[l]
         PROVE  l \in DOMAIN call.res.items /\ Shows(call'.res.traces[l], UpToRow(x)')
    <3>1. CASE l \in DOMAIN call.res.traces /\ call'.res.traces[l] = call.res.traces[l]
      BY <1>4, <2>10, <3>1
    <3>2. CASE l = k /\ call'.res.traces[l] = trace
      BY <1>2, <2>1, <2>2, <2>10, <3>2
    <3> QED
      BY <2>6, <2>7, <3>1, <3>2
  <2>11. \A l \in DOMAIN call'.res.traces :
           /\ l \in DOMAIN call'.res.items
           /\ Shows(call'.res.traces[l], UpToRow(call.res.items[l])')
    BY <2>7, <2>10
  <2>12. ((answer # None /\ ask.kind = "snapshot") =>
           \A i \in DOMAIN answer.ranks :
             LET row == answer.ranks[i].current
                 m == answer.ranks[i].rounds
             IN m = NoMetrics \/ (Shown(row) /\ OfTheRow(row, UpToRow(row), m, answer.time)))'
    BY <1>1, <1>5, <2>4
  <2> QED
    BY <2>7, <2>8, <2>9, <2>11, <2>12 DEF MetricsInv
<1>10. CASE ReplySnapshot
  <2> DEFINE r == call.res
             shown == SelectSeq(call.ranks, LAMBDA k : k \in DOMAIN r.items)
             item(k) == IF k \in DOMAIN r.items THEN r.items[k] ELSE None
             growths == IF ask.growth THEN Growths(GrowthRanks, r.early, r.late) ELSE {}
             growth(k) == {g \in growths : g.rank = k}
             rounds(k) == IF k \in DOMAIN r.traces THEN Metrics(r.traces[k], now) ELSE NoMetrics
             ranks == [i \in DOMAIN shown |->
                        [current |-> item(shown[i]), growth |-> growth(shown[i]),
                         previous |-> IF ask.adjacent THEN item(shown[i] - 1) ELSE None,
                         next |-> IF ask.adjacent THEN item(shown[i] + 1) ELSE None,
                         rounds |-> rounds(shown[i])]]
  <2>1. answer' = IF shown = <<>> THEN None ELSE [time |-> now, ranks |-> ranks]
    BY <1>10, Zenon DEF ReplySnapshot
  <2>2. call' = [call EXCEPT !.state = "done"] /\ UNCHANGED <<now, db, ask>> /\ call.todo = {}
    BY <1>10 DEF ReplySnapshot, trackerVars
  <2>3. \A k : rounds(k) = NoMetrics \/
                 (Shown(item(k)) /\ OfTheRow(item(k), UpToRow(item(k)), rounds(k), now))
    <3> TAKE k
    <3>1. CASE k \notin DOMAIN r.traces
      BY <3>1
    <3>2. CASE k \in DOMAIN r.traces
      <4> DEFINE x == r.items[k]
      <4>1. k \in DOMAIN r.items /\ Shown(x) /\ Shows(r.traces[k], UpToRow(x))
        BY <3>2 DEF MetricsInv
      <4>2. item(k) = x /\ rounds(k) = Metrics(r.traces[k], now)
        BY <3>2, <4>1
      <4>3. now \in Nat
        BY DEF Typed
      <4> HIDE DEF x
      <4>4. /\ x \in UpToRow(x) /\ \A y \in UpToRow(x) : y.ts <= x.ts
            /\ x.ts > 0 /\ x.ts <= now
        BY <1>1, <4>1, ShownFacts
      <4>5. OfTheRow(x, UpToRow(x), Metrics(r.traces[k], now), now)
        BY <4>1, <4>3, <4>4, MetricsShown
      <4> HIDE DEF item, rounds
      <4> QED
        BY <4>1, <4>2, <4>5
    <3> QED
      BY <3>1, <3>2
  <2>4. /\ \A i \in DOMAIN ranks : /\ ranks[i].current = item(shown[i])
                                  /\ ranks[i].rounds = rounds(shown[i])
        /\ DOMAIN ranks = DOMAIN shown
    OBVIOUS
  <2> HIDE DEF shown, item, rounds, ranks
  <2>5. ASSUME answer' # None
        PROVE  /\ answer'.time = now
               /\ \A i \in DOMAIN answer'.ranks :
                    /\ answer'.ranks[i].current = item(shown[i])
                    /\ answer'.ranks[i].rounds = rounds(shown[i])
    BY <2>1, <2>4, <2>5
  <2>6. ASSUME answer' # None, NEW i \in DOMAIN answer'.ranks,
               NEW row, row = answer'.ranks[i].current, NEW m, m = answer'.ranks[i].rounds
        PROVE  m = NoMetrics \/ (Shown(row)' /\ OfTheRow(row, UpToRow(row)', m, answer'.time))
    <3>1. row = item(shown[i]) /\ m = rounds(shown[i]) /\ answer'.time = now
      BY <2>5, <2>6
    <3>2. m = NoMetrics \/ (Shown(row) /\ OfTheRow(row, UpToRow(row), m, now))
      BY <2>3, <3>1
    <3> QED
      BY <1>2, <3>1, <3>2
  <2>7. ((answer # None /\ ask.kind = "snapshot") =>
           \A i \in DOMAIN answer.ranks :
             LET row == answer.ranks[i].current
                 m == answer.ranks[i].rounds
             IN m = NoMetrics \/ (Shown(row) /\ OfTheRow(row, UpToRow(row), m, answer.time)))'
    BY <2>6
  <2>8. /\ call'.res = call.res /\ call'.ranks = call.ranks /\ call'.todo = {}
    BY <2>2 DEF Stages
  <2>9. \A k \in DOMAIN call'.res.items : Shown(call.res.items[k])'
    BY <1>3, <2>8
  <2>10. \A k \in DOMAIN call'.res.traces :
           /\ k \in DOMAIN call'.res.items
           /\ Shows(call'.res.traces[k], UpToRow(call.res.items[k])')
    BY <1>4, <2>8
  <2>11. call'.ranks \in Seq(Int)
    BY <2>8 DEF MetricsInv
  <2> QED
    BY <2>7, <2>8, <2>9, <2>10, <2>11 DEF MetricsInv
<1> QED
  BY <1>6, <1>7, <1>8, <1>9, <1>10, MetricsUntouched

LEMMA InitMetrics == Init => Started /\ MetricsInv
<1> SUFFICES ASSUME Init
             PROVE  Started /\ MetricsInv
  OBVIOUS
<1>1. Started
  BY DEF Init, IdleTick, Started
<1>2. MetricsInv
  BY DEF Init, NothingRead, MetricsInv
<1> QED
  BY <1>1, <1>2

AgreeInv ==
  /\ Typed /\ Times /\ Tabled /\ Finite /\ Stages /\ CallInv /\ SubjectInv
  /\ Started /\ MetricsInv

\* What a request reads in a later query belongs to the rows it read before, while the tracker
\* writes: the current row of a trace is in it (build_subject_trace_response), and the round
\* metrics of a rank are those of the row they are shown with (cloud_trace_metrics_filter),
\* counted up to that row from the sample its user had when the window began.
THEOREM LaterReadsAreOfTheRow == Spec => []LaterReadsAgree
<1>1. Init => AgreeInv
  <2> SUFFICES ASSUME Init
               PROVE  AgreeInv
    OBVIOUS
  <2>1. CallInv /\ SubjectInv
    BY DEF CallInv, SubjectInv, CurrentInTrace, Init
  <2> QED
    BY <2>1, InitTimes, InitTabled, InitFinite, InitStages, InitMetrics DEF AgreeInv
<1>2. AgreeInv /\ [Next]_vars => AgreeInv'
  BY TypedStep, TimesStep, TablesStep, FiniteStep, StagesStep, CallStep, SubjectStep,
     StartedStep, MetricsStep DEF AgreeInv
<1>3. AgreeInv => LaterReadsAgree
  <2> SUFFICES ASSUME AgreeInv
               PROVE  LaterReadsAgree
    OBVIOUS
  <2>1. CurrentInTrace
    BY DEF AgreeInv, SubjectInv
  <2>2. MetricsOfTheRow
    <3> SUFFICES ASSUME answer # None, ask.kind = "snapshot", NEW i \in DOMAIN answer.ranks
                 PROVE  OfTheRow(answer.ranks[i].current, UpToRow(answer.ranks[i].current),
                                 answer.ranks[i].rounds, answer.time)
      BY Zenon DEF MetricsOfTheRow, OfTheRow
    <3> DEFINE row == answer.ranks[i].current  m == answer.ranks[i].rounds
    <3>1. m = NoMetrics \/ OfTheRow(row, UpToRow(row), m, answer.time)
      BY DEF AgreeInv, MetricsInv
    <3>2. /\ NoMetrics.hourRound.known = FALSE /\ NoMetrics.speed.known = FALSE
          /\ NoMetrics.windowSpeed.known = FALSE
      BY DEF NoMetrics, Missing
    <3> HIDE DEF row, m
    <3>3. ASSUME m = NoMetrics
          PROVE  OfTheRow(row, UpToRow(row), m, answer.time)
      BY <3>2, <3>3, Zenon DEF OfTheRow
    <3>4. OfTheRow(row, UpToRow(row), m, answer.time)
      BY <3>1, <3>3, Zenon
    <3> QED
      BY <3>4, Zenon DEF row, m
  <2> QED
    BY <2>1, <2>2 DEF LaterReadsAgree
<1> QED
  BY <1>1, <1>2, <1>3, PTL DEF Spec
=============================================================================
