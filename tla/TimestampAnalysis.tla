------------------------- MODULE TimestampAnalysis -------------------------
(***************************************************************************)
(* The pure part of tools/timestamp_analysis/timestamp_analyzer.py:        *)
(* parsing one gPTP log line into a TimestampReading (parse_log_line) and  *)
(* the statistics of analyze_current_data, _calculate_drift_rate and       *)
(* _calculate_performance_grade.                                           *)
(*                                                                         *)
(* Data abstraction.  A log line is represented by what the six regular    *)
(* expressions of TimestampAnalyzer.__init__ find in it: the number        *)
(* captured by the sync and delay patterns (or None) and whether the       *)
(* hardware and software hints match.  Sequence id and rate ratio are      *)
(* parsed by the code but never read by the analysis, so they are left     *)
(* out.  Offsets and timestamps are integers; every derived float (mean,   *)
(* standard deviation, slope, ratios) is kept exactly as a pair            *)
(* <<numerator, denominator>>, and the standard deviation as its square,   *)
(* so comparisons are the code's comparisons in exact arithmetic.          *)
(***************************************************************************)
EXTENDS Integers, Sequences, FiniteSets

LOCAL F == INSTANCE Functions
LOCAL INSTANCE TLC

CONSTANTS
  None,            \* Python's None
  MinReadings,     \* analyze_current_data: len(self.readings) < 10
  DriftMinPoints,  \* analyze_current_data: len(timestamps) > 5
  JitterThreshold, \* config['jitter_threshold'], 1000 by default
  Thresholds       \* config['performance_thresholds'], tier -> [jitter, drift]

ASSUME MinReadings \in Nat /\ DriftMinPoints \in Nat /\ JitterThreshold \in Nat

Tiers      == <<"excellent", "good", "fair">>
GradeNames == <<"Excellent", "Good", "Fair">>

\* _load_config's default_config.  Thresholds are in ns and ns/s;
\* stability_threshold 0.95 is the fraction <<95, 100>>.
DefaultConfig ==
  [analysis_window     |-> 300,
   jitter_threshold    |-> 1000,
   drift_threshold     |-> 100,
   stability_threshold |-> <<95, 100>>,
   performance_thresholds |->
     [excellent |-> [jitter |-> 500,  drift |-> 50],
      good      |-> [jitter |-> 1000, drift |-> 100],
      fair      |-> [jitter |-> 2000, drift |-> 200]]]

\* _load_config(config_path): user_config is the JSON object of the file, or
\* None when no path is given, the file does not exist or json.load raises
\* (the exception is printed and the defaults kept).  default_config.update
\* is shallow: a top-level key of the file replaces the default's value as
\* a whole, nested tables included.
LoadConfig(user_config) ==
  IF user_config = None THEN DefaultConfig ELSE user_config @@ DefaultConfig

\* A user config replaces performance_thresholds as a whole (dict.update is
\* shallow), so a tier or one of its two keys may be missing.
ASSUME /\ DOMAIN Thresholds \subseteq {Tiers[i] : i \in 1..3}
       /\ \A t \in DOMAIN Thresholds :
             /\ DOMAIN Thresholds[t] \subseteq {"jitter", "drift"}
             /\ \A k \in DOMAIN Thresholds[t] : Thresholds[t][k] \in Nat

-----------------------------------------------------------------------------
(* Lines and readings                                                      *)
-----------------------------------------------------------------------------

\* What the patterns of __init__ find in one line.
LineRec(offsets) ==
  [sync_msg : offsets \cup {None}, delay_msg : offsets \cup {None},
   hardware_ts : BOOLEAN, software_ts : BOOLEAN]

ReadingRec(offsets, times) ==
  [timestamp : times, sync_offset : offsets \cup {None},
   delay_offset : offsets \cup {None}, hardware_ts : BOOLEAN \cup {None},
   message_type : {"sync", "delay"}]

\* parse_log_line: the sync pattern wins over the delay pattern, the
\* hardware hint over the software hint, and a line with neither offset
\* yields None.  now is time.time() at the call.
ParseLogLine(line, now) ==
  IF line.sync_msg = None /\ line.delay_msg = None THEN None
  ELSE [timestamp    |-> now,
        sync_offset  |-> line.sync_msg,
        delay_offset |-> IF line.sync_msg = None THEN line.delay_msg ELSE None,
        hardware_ts  |-> IF line.hardware_ts THEN TRUE
                         ELSE IF line.software_ts THEN FALSE ELSE None,
        message_type |-> IF line.sync_msg = None THEN "delay" ELSE "sync"]

-----------------------------------------------------------------------------
(* Exact arithmetic helpers                                                *)
-----------------------------------------------------------------------------

Sum(s) == F!SumFunction(s)
Abs(x) == IF x < 0 THEN -x ELSE x
MaxOf(S) == CHOOSE m \in S : \A y \in S : y <= m
CountIf(s, P(_)) == Cardinality({i \in DOMAIN s : P(s[i])})

HasSync(r) == r.sync_offset # None

-----------------------------------------------------------------------------
(* _calculate_drift_rate                                                   *)
-----------------------------------------------------------------------------

\* Mutations of CalculateDriftRate: sum_x for sum_y in the numerator, and
\* a denominator without the factor n.
CalculateDriftRateSumXTypo(timestamps, offsets) ==
  LET n == Len(timestamps)
      m == IF Len(timestamps) < Len(offsets) THEN Len(timestamps) ELSE Len(offsets)
      den == n * Sum([i \in 1..n |-> timestamps[i] * timestamps[i]])
               - Sum(timestamps) * Sum(timestamps)
  IN  IF n < 2 \/ den = 0 THEN <<0, 1>>
      ELSE <<n * Sum([i \in 1..m |-> timestamps[i] * offsets[i]])
               - Sum(timestamps) * Sum(timestamps), den>>

CalculateDriftRateNoN(timestamps, offsets) ==
  LET n == Len(timestamps)
      m == IF Len(timestamps) < Len(offsets) THEN Len(timestamps) ELSE Len(offsets)
      den == Sum([i \in 1..n |-> timestamps[i] * timestamps[i]])
               - Sum(timestamps) * Sum(timestamps)
  IN  IF n < 2 \/ den = 0 THEN <<0, 1>>
      ELSE <<n * Sum([i \in 1..m |-> timestamps[i] * offsets[i]])
               - Sum(timestamps) * Sum(offsets), den>>

\* Mutation of CalculateDriftRate: the abs(denominator) < 1e-10 guard
\* dropped, so equal timestamps divide by zero.
CalculateDriftRateUnguarded(timestamps, offsets) ==
  LET n == Len(timestamps)
      m == IF Len(timestamps) < Len(offsets) THEN Len(timestamps) ELSE Len(offsets)
  IN  IF n < 2 THEN <<0, 1>>
      ELSE <<n * Sum([i \in 1..m |-> timestamps[i] * offsets[i]])
               - Sum(timestamps) * Sum(offsets),
             n * Sum([i \in 1..n |-> timestamps[i] * timestamps[i]])
               - Sum(timestamps) * Sum(timestamps)>>

\* Least-squares slope <<num, den>> of offsets against timestamps.  zip()
\* stops at the shorter list, while n, sum_x and sum_y use whole lists.
CalculateDriftRate(timestamps, offsets) ==
  LET n      == Len(timestamps)
      m      == IF Len(timestamps) < Len(offsets) THEN Len(timestamps)
                ELSE Len(offsets)
      sum_x  == Sum(timestamps)
      sum_y  == Sum(offsets)
      sum_xy == Sum([i \in 1..m |-> timestamps[i] * offsets[i]])
      sum_x2 == Sum([i \in 1..n |-> timestamps[i] * timestamps[i]])
      den    == n * sum_x2 - sum_x * sum_x
  IN  IF n < 2 \/ den = 0 THEN <<0, 1>>
      ELSE <<n * sum_xy - sum_x * sum_y, den>>

-----------------------------------------------------------------------------
(* _calculate_performance_grade                                            *)
-----------------------------------------------------------------------------

\* jitter <= ceiling, with jitter given by its square <<num, den>>.
JitterWithin(jitterSq, ceiling) == jitterSq[1] <= ceiling * ceiling * jitterSq[2]
\* abs(drift_rate) <= ceiling, drift <<num, den>> with den > 0.
DriftWithin(drift, ceiling) == Abs(drift[1]) <= ceiling * drift[2]

\* The if/elif chain over excellent, good, fair, from tier i on.  A
\* missing tier or key raises KeyError; `and` short-circuits, so the drift
\* key is only read when the jitter test passes.
RECURSIVE GradeFrom(_, _, _)
GradeFrom(i, jitterSq, drift) ==
  IF i > Len(Tiers) THEN "Poor"
  ELSE LET t == Tiers[i] IN
       CASE t \notin DOMAIN Thresholds             -> "KeyError"
         [] "jitter" \notin DOMAIN Thresholds[t]   -> "KeyError"
         [] ~JitterWithin(jitterSq, Thresholds[t]["jitter"])
              -> GradeFrom(i + 1, jitterSq, drift)
         [] "drift" \notin DOMAIN Thresholds[t]    -> "KeyError"
         [] DriftWithin(drift, Thresholds[t]["drift"]) -> GradeNames[i]
         [] OTHER -> GradeFrom(i + 1, jitterSq, drift)

CalculatePerformanceGrade(jitterSq, drift) == GradeFrom(1, jitterSq, drift)

-----------------------------------------------------------------------------
(* analyze_current_data                                                    *)
-----------------------------------------------------------------------------

\* Mutation of SyncOffsetsOf: a reading without a sync offset counts as 0.
SyncOffsetsOfUnfiltered(w) ==
  [i \in 1..Len(w) |-> IF HasSync(w[i]) THEN w[i].sync_offset ELSE 0]

\* analyze_current_data walks self.readings six times; each walk is one
\* operator, so that a caller may take them from different generations
\* of the window.
SyncOffsetsOf(w)  == [i \in 1..Len(SelectSeq(w, HasSync)) |->          \* line 159
                        SelectSeq(w, HasSync)[i].sync_offset]
DurationOf(w)     == w[Len(w)].timestamp - w[1].timestamp              \* line 165
TimestampsOf(w, start_time) ==                                         \* line 171
  [i \in 1..Len(SelectSeq(w, HasSync)) |->
     SelectSeq(w, HasSync)[i].timestamp - start_time]
HwCountOf(w)      == CountIf(w, LAMBDA r : r.hardware_ts = TRUE)       \* line 183
MessageStatsOf(w) ==                                                   \* lines 187-190
  [t \in {w[i].message_type : i \in DOMAIN w} |->
     CountIf(w, LAMBDA r : r.message_type = t)]

\* Mutation of JitterSq: statistics.stdev called on a single sample.
JitterSqUnguarded(sync_offsets) ==
  LET n == Len(sync_offsets) IN
  << n * Sum([i \in 1..n |-> sync_offsets[i] * sync_offsets[i]])
       - Sum(sync_offsets) * Sum(sync_offsets), n * (n - 1) >>

\* statistics.stdev(sync_offsets) if len(sync_offsets) > 1 else 0, squared:
\* (n*sum(x^2) - sum(x)^2) / (n*(n-1)).
JitterSq(sync_offsets) ==
  LET n == Len(sync_offsets) IN
  IF n > 1
  THEN << n * Sum([i \in 1..n |-> sync_offsets[i] * sync_offsets[i]])
            - Sum(sync_offsets) * Sum(sync_offsets), n * (n - 1) >>
  ELSE <<0, 1>>

\* The AnalysisResult of what the walks found (lines 163-206).
AnalyzeFrom(sync_offsets, duration, timestamps, hw_count, total, message_stats) ==
  LET n          == Len(sync_offsets)
      sumY       == Sum(sync_offsets)
      jitterSq   == JitterSq(sync_offsets)
      drift      == IF Len(timestamps) > DriftMinPoints
                    THEN CalculateDriftRate(timestamps, sync_offsets)
                    ELSE <<0, 1>>
      \* abs(x - mean) <= threshold  <=>  abs(n*x - sum) <= threshold*n
      stable     == CountIf(sync_offsets,
                      LAMBDA x : Abs(n * x - sumY) <= JitterThreshold * n)
  IN  [duration_seconds   |-> duration,
       total_samples      |-> n,
       mean_sync_offset   |-> <<sumY, n>>,
       sync_jitter_sq     |-> jitterSq,
       max_sync_deviation |-> <<MaxOf({Abs(n * sync_offsets[i] - sumY) : i \in 1..n}), n>>,
       drift_rate         |-> drift,
       stability_metric   |-> <<stable, n>>,
       hardware_timestamp_ratio |-> <<hw_count, total>>,
       message_stats      |-> message_stats,
       performance_grade  |->
           CalculatePerformanceGrade(jitterSq, <<Abs(drift[1]), drift[2]>>)]

\* The two early returns of analyze_current_data (lines 155 and 161).
TooFewReadings(w)  == Len(w) < MinReadings
NoSyncOffsets(w)   == \A i \in DOMAIN w : ~HasSync(w[i])

AnalyzeCurrentData(readings, start_time) ==
  IF TooFewReadings(readings) \/ NoSyncOffsets(readings) THEN None
  ELSE AnalyzeFrom(SyncOffsetsOf(readings), DurationOf(readings),
                   TimestampsOf(readings, start_time), HwCountOf(readings),
                   Len(readings), MessageStatsOf(readings))

=============================================================================
