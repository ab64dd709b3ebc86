---------------------------- MODULE RoundMetrics ----------------------------
(***************************************************************************)
(* The round metrics of a rank (leaderboard/round_metrics.rs), computed    *)
(* from the trace of the user at it: a sequence of [ts, score] in order of *)
(* time.  Times are seconds since the epoch here, never milliseconds.      *)
(***************************************************************************)
EXTENDS Integers, Sequences, FiniteSets, FiniteSetsExt, SequencesExt

CONSTANTS
  Hour, Window,   \* 60 and 20 minutes: the spans of the speeds
  Lookback,       \* 12 hours: CLOUD_TRACE_METRICS_LOOKBACK_SECONDS
  Idle,           \* 5 minutes: CLOUD_RECOVERY_IDLE_SECONDS
  MaxLag,         \* 30 days: TRACKER_REALTIME_TAIL_MAX_LAG_SECONDS
  Rounds          \* 10: the rounds an average is taken over

ASSUME SpansAssumption ==
  /\ {Hour, Window, Lookback, Idle, MaxLag, Rounds} \subseteq Nat \ {0}
  /\ Window <= Hour /\ Hour <= Lookback

Missing == [known |-> FALSE]
Known(v) == [known |-> TRUE, value |-> v]

NoMetrics == [recordStart |-> Missing, latestPt |-> Missing,
              averageRound |-> Missing, averagePt |-> Missing,
              speed |-> Missing, hourRound |-> Missing, windowSpeed |-> Missing]

AtLeastZero(n) == IF n < 0 THEN 0 ELSE n

\* The last sample up to a moment, or else the first.
Baseline(samples, start) ==
  LET past == {i \in DOMAIN samples : \A j \in 1..i : samples[j].ts <= start}
  IN IF past = {} THEN 1 ELSE Max(past)

\* The window ends now, unless the last sample is not past or very old.
WindowEnd(last, now) ==
  IF last <= 0 \/ now <= last \/ now - last > MaxLag THEN last ELSE now

Deltas(samples) ==
  SelectSeq([i \in 1..(Len(samples) - 1) |-> samples[i + 1].score - samples[i].score],
            LAMBDA d : d > 0)

CountPositiveDeltas(samples) ==
  Cardinality({i \in 1..(Len(samples) - 1) : samples[i + 1].score > samples[i].score})

\* recovery_record_start_at: a scan, of which the state is the last recovery,
\* the sample since which the score has been flat, and whether it has been.
Recover(samples, state, i) ==
  LET previous == samples[i - 1]  current == samples[i]
      recovered == /\ state.flat
                   /\ current.ts - state.since >= Idle
  IN IF current.score = previous.score
     THEN [state EXCEPT !.flat = TRUE]
     ELSE [start |-> IF current.score > previous.score /\ recovered
                     THEN current.ts ELSE state.start,
           since |-> current.ts, flat |-> FALSE]

RecordStart(samples) ==
  LET scan[i \in 1..Len(samples)] ==
        IF i = 1
        THEN [start |-> samples[1].ts, since |-> samples[1].ts, flat |-> FALSE]
        ELSE Recover(samples, scan[i - 1], i)
  IN scan[Len(samples)].start

\* The average of the last rounds that gained points.
Averages(deltas, m) ==
  IF deltas = <<>> THEN m
  ELSE LET recent == SubSeq(deltas, AtLeastZero(Len(deltas) - Rounds) + 1, Len(deltas))
       IN [m EXCEPT !.latestPt = Known(Last(deltas)),
                    !.averageRound = Known(Len(recent)),
                    !.averagePt = Known(FoldSeq(LAMBDA d, s : d + s, 0, recent)
                                          \div Len(recent))]

\* The two speeds, over the samples the lookback keeps.
Speeds(kept, end, m) ==
  IF Len(kept) < 2 THEN m
  ELSE LET last == Last(kept)
           h == Baseline(kept, end - Hour)
           w == Baseline(kept, end - Window)
           gain(i) == AtLeastZero(last.score - kept[i].score)
       IN [m EXCEPT !.speed = IF end > kept[h].ts
                              THEN Known((gain(h) * Hour) \div (end - kept[h].ts))
                              ELSE @,
                    !.hourRound = Known(CountPositiveDeltas(SubSeq(kept, h, Len(kept)))),
                    !.windowSpeed = Known(gain(w) * (Hour \div Window))]

\* apply_cloud_trace_metrics_at: fewer than two samples say nothing.
Metrics(samples, now) ==
  IF Len(samples) < 2 THEN NoMetrics
  ELSE LET end == WindowEnd(Last(samples).ts, now)
           kept == SubSeq(samples, Baseline(samples, end - Lookback), Len(samples))
       IN Speeds(kept, end,
            Averages(Deltas(samples),
              [NoMetrics EXCEPT !.recordStart = Known(RecordStart(samples))]))
=============================================================================
