------------------------ MODULE MCTimestampMonitor -------------------------
(***************************************************************************)
(* Model-checks TimestampMonitor: a window of Cap readings, a trigger     *)
(* every TriggerEvery readings, a pipe of PipeBound lines and a clock up  *)
(* to MaxClock, enough for a 1 s --duration to run out.                   *)
(***************************************************************************)
EXTENDS TimestampMonitor

\* A config file whose performance_thresholds lacks the "fair" tier; the
\* shallow update drops the default "fair" tier with it.
MCUserConfigNoFair ==
  [jitter_threshold |-> 1,
   performance_thresholds |->
     [excellent |-> [jitter |-> 0, drift |-> 0],
      good      |-> [jitter |-> 1, drift |-> 1]]]

MCThresholdsNoFair == LoadConfig(MCUserConfigNoFair).performance_thresholds

\* A config file that scales jitter_threshold and performance_thresholds
\* down to the offsets of this model; _load_config merges it into the
\* defaults.
MCUserConfig ==
  [jitter_threshold |-> 1,
   performance_thresholds |->
     [excellent |-> [jitter |-> 0, drift |-> 0],
      good      |-> [jitter |-> 1, drift |-> 1],
      fair      |-> [jitter |-> 2, drift |-> 2]]]

MCThresholds      == LoadConfig(MCUserConfig).performance_thresholds
MCJitterThreshold == LoadConfig(MCUserConfig).jitter_threshold

\* Hardware sync lines for two offsets and a software delay line.
MCLines ==
  {[sync_msg |-> v, delay_msg |-> None, hardware_ts |-> TRUE, software_ts |-> FALSE]
     : v \in {0, 2}}
  \cup
  {[sync_msg |-> None, delay_msg |-> 1, hardware_ts |-> FALSE, software_ts |-> TRUE]}

\* Hardware sync lines only, for two offsets.
MCSyncLines ==
  {[sync_msg |-> v, delay_msg |-> None, hardware_ts |-> TRUE, software_ts |-> FALSE]
     : v \in {0, 2}}

\* One hardware sync line.
MCOneLine ==
  {[sync_msg |-> 0, delay_msg |-> None, hardware_ts |-> TRUE, software_ts |-> FALSE]}

TypeOK ==
  /\ readings \in Seq(ReadingRec(Int, 0..MaxClock)) /\ Len(readings) <= Cap
  /\ analysis_queue \in 0..MaxQueue
  /\ running \in BOOLEAN
  /\ m_pc \in {"start", "monitor", "read", "finally", "wait", "log", "report", "done"}
  /\ w_pc \in {"none", "loop", "get", "len", "walk", "print", "dead", "done"}
  /\ w_pass \in 1..Len(Walks)
  /\ w_window \in Seq(ReadingRec(Int, 0..MaxClock))
  /\ t_pc \in {"off", "armed", "sleeping", "fired"}
  /\ daemon \in {"none", "alive", "exited"}
  /\ pipe \in Seq(Lines) /\ Len(pipe) <= PipeBound
  /\ report \in {"none", "no_data", "error", "written"}

(* However the run ends (end of output, the duration timer, Ctrl-C, a     *)
(* failed Popen, a dead analysis worker), main() eventually gets through  *)
(* terminate/wait and generate_report, which writes the report or raises  *)
(* KeyError: nobody waits on anybody forever.                             *)
MonitorEventuallyReports == <>(m_pc = "done")

(* Spec 5: a stop request of the duration timer is observed: once         *)
(* stop_after_duration has cleared running, the read loop ends and main   *)
(* reaches process.wait().                                                *)
StopRequestObserved ==
  (t_pc = "fired") ~> (m_pc \in {"wait", "log", "report", "done"})

(* The analysis worker never dies: no RuntimeError from a deque mutated   *)
(* during one of its iterations (spec 4.2 forbids a reading added         *)
(* mid-iteration).                                                        *)
AnalysisWorkerSurvives == w_pc # "dead"

(* Spec 4.2: every summary the worker prints is the analysis of one       *)
(* consistent window: the two threads together behave as                  *)
(* TimestampAnalyzer, whose worker analyses an atomic snapshot.           *)
ImplementsAtomicAnalyzer == A!Spec

(* The hardware timestamp ratio of a printed summary is at most 1, even    *)
(* when the reader appends between the worker's walks: the hardware walk  *)
(* (line 183) precedes the len() read (line 184) and the window never     *)
(* shrinks, so the count never exceeds the length read after it.          *)
HardwareRatioAtMostOne ==
  last_result # None =>
    last_result.hardware_timestamp_ratio[1] <= last_result.hardware_timestamp_ratio[2]

=============================================================================
