------------------------ MODULE MCTimestampAnalysis ------------------------
(***************************************************************************)
(* Checks the statistics of TimestampAnalysis over every window TLC can    *)
(* build from a few readings.  The window is grown one reading at a time:  *)
(* sync readings lie on the line  offset = a + b * (timestamp - 0), delay  *)
(* readings carry no sync offset, and timestamps advance by a gap of 0 or  *)
(* 1 second (0: two lines read within one time.time() tick).  start_time   *)
(* is 0 and the first reading may come later, as after the deque has      *)
(* evicted the session's first readings.                                   *)
(***************************************************************************)
EXTENDS TimestampAnalysis

CONSTANTS Intercepts, Slopes, Gaps, Noise, MaxLen

\* exact: no sync reading of the window was perturbed by noise
VARIABLES window, a, b, now, exact
vars == <<window, a, b, now, exact>>

start_time == 0

\* A config file that scales jitter_threshold and performance_thresholds
\* down to the offsets of this model; _load_config merges it into the
\* defaults.
MCUserConfig ==
  [jitter_threshold |-> 1,
   performance_thresholds |->
     [excellent |-> [jitter |-> 0, drift |-> 0],
      good      |-> [jitter |-> 1, drift |-> 1],
      fair      |-> [jitter |-> 2, drift |-> 2]]]

MCThresholds      == LoadConfig(MCUserConfig).performance_thresholds
MCJitterThreshold == LoadConfig(MCUserConfig).jitter_threshold

Init ==
  /\ window = <<>>
  /\ a \in Intercepts
  /\ b \in Slopes
  /\ now = 0
  /\ exact = TRUE

AddSync ==
  /\ Len(window) < MaxLen
  /\ \E gap \in Gaps, e \in Noise :
       /\ now' = now + gap
       /\ exact' = (exact /\ e = 0)
       /\ window' = Append(window,
            ParseLogLine([sync_msg |-> a + b * (now + gap) + e, delay_msg |-> None,
                          hardware_ts |-> TRUE, software_ts |-> FALSE], now + gap))
  /\ UNCHANGED <<a, b>>

AddDelay ==
  /\ Len(window) < MaxLen
  /\ now' = now + 1
  /\ \E v \in Intercepts :
       window' = Append(window,
            ParseLogLine([sync_msg |-> None, delay_msg |-> v,
                          hardware_ts |-> FALSE, software_ts |-> TRUE], now + 1))
  /\ UNCHANGED <<a, b, exact>>

Next == AddSync \/ AddDelay

Spec == Init /\ [][Next]_vars

Result == AnalyzeCurrentData(window, start_time)

\* A fraction <<num, den>> with den > 0, and an AnalysisResult.
IsFrac(f) == f[1] \in Int /\ f[2] \in Nat /\ f[2] > 0
IsResult(r) ==
  /\ DOMAIN r = {"duration_seconds", "total_samples", "mean_sync_offset",
                 "sync_jitter_sq", "max_sync_deviation", "drift_rate",
                 "stability_metric", "hardware_timestamp_ratio", "message_stats",
                 "performance_grade"}
  /\ r.duration_seconds \in Int /\ r.total_samples \in Nat
  /\ \A f \in {"mean_sync_offset", "sync_jitter_sq", "max_sync_deviation",
               "drift_rate", "stability_metric"} : IsFrac(r[f])
  /\ r.sync_jitter_sq[1] >= 0
  /\ r.hardware_timestamp_ratio \in Nat \X Nat
  /\ DOMAIN r.message_stats \subseteq {"sync", "delay"}
  /\ \A t \in DOMAIN r.message_stats : r.message_stats[t] \in Nat
  /\ r.performance_grade \in {"Excellent", "Good", "Fair", "Poor", "KeyError"}

TypeOK ==
  /\ window \in Seq(ReadingRec(Int, Nat))
  /\ Len(window) <= MaxLen
  /\ Result = None \/ IsResult(Result)

(* For sync offsets that grow exactly linearly in time, a + b*t, the drift  *)
(* rate of analyze_current_data (the least-squares slope of               *)
(* _calculate_drift_rate over the sync readings only, delay readings      *)
(* filtered out) is b, whenever enough points exist to compute it.  When  *)
(* every sync reading was captured in the same time.time() instant the    *)
(* regression denominator is zero, and the guard of _calculate_drift_rate *)
(* must yield the number 0 rather than a division by zero.                *)
SameInstant == Cardinality({window[i].timestamp : i \in {j \in DOMAIN window : HasSync(window[j])}}) = 1

DriftRecoversLinearSlope ==
  (exact /\ Result # None /\ Result.total_samples > DriftMinPoints)
     => /\ Result.drift_rate[2] # 0
        /\ Result.drift_rate[1] = (IF SameInstant THEN 0 ELSE b) * Result.drift_rate[2]

(* analyze_current_data measures time from self.start_time, the first     *)
(* reading of the session, which the deque may have evicted long ago; the *)
(* spec measures it from the first surviving sync reading.  The drift     *)
(* rate must not depend on that epoch: shifting every timestamp by the    *)
(* same amount leaves _calculate_drift_rate's slope unchanged.            *)
DriftIndependentOfEpoch ==
  LET first == SelectSeq(window, HasSync)[1].timestamp
      spec  == AnalyzeCurrentData(window, first)
  IN  Result # None
        => Result.drift_rate[1] * spec.drift_rate[2]
             = spec.drift_rate[1] * Result.drift_rate[2]

(* A constant offset series has zero jitter and zero drift, its mean is   *)
(* the constant, and every sample counts as stable (spec section 8).      *)
ConstantSeriesIsPerfect ==
  (Result # None /\ exact /\ b = 0)
     => /\ Result.sync_jitter_sq[1] = 0
        /\ Result.drift_rate[1] = 0
        /\ Result.mean_sync_offset[1] = a * Result.mean_sync_offset[2]
        /\ Result.stability_metric[1] = Result.stability_metric[2]

=============================================================================
