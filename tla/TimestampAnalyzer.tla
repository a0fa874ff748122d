------------------------- MODULE TimestampAnalyzer -------------------------
(***************************************************************************)
(* The TimestampAnalyzer object of tools/timestamp_analysis/              *)
(* timestamp_analyzer.py as the spec (4.2, 4.3) wants it: add_reading is   *)
(* atomic, and one pass of the analysis worker takes a trigger, reads one  *)
(* consistent snapshot of the window and prints the statistics of that     *)
(* snapshot.  TimestampMonitor runs the same code on two threads without   *)
(* a lock and is checked against this module.                             *)
(***************************************************************************)
EXTENDS TimestampAnalysis

CONSTANTS
  Cap,           \* deque(maxlen=10000)
  TriggerEvery,  \* add_reading: len(self.readings) % 100 == 0
  Lines,         \* the log lines the daemon may print
  MaxQueue,      \* bound: 'analyze' items pending in analysis_queue
  ClockSteps,    \* how time.time() may move between two lines
  MaxClock       \* bound on time.time()

ASSUME Cap \in Nat \ {0} /\ TriggerEvery \in Nat \ {0} /\ MaxQueue \in Nat

VARIABLES
  readings,        \* self.readings
  start_time,      \* self.start_time
  analysis_queue,  \* number of 'analyze' items in self.analysis_queue
  last_result,     \* the AnalysisResult last printed by the worker
  clock,           \* time.time()
  worker,          \* _analysis_worker: "idle", "busy" (woken) or "snap"
  snapshot         \* the window the running analysis works on

vars == <<readings, start_time, analysis_queue, last_result, clock,
          worker, snapshot>>

reader_vars == <<readings, start_time, analysis_queue>>
worker_vars == <<worker, snapshot, last_result>>

-----------------------------------------------------------------------------

\* Mutation of AppendBounded: evicting one reading late.
AppendBoundedLate(s, r) ==
  IF Len(s) = Cap + 1 THEN Append(Tail(s), r) ELSE Append(s, r)

\* deque.append with maxlen: the leftmost reading falls out when full.
AppendBounded(s, r) ==
  IF Len(s) = Cap THEN Append(Tail(s), r) ELSE Append(s, r)

\* add_reading: set start_time once, append, and put 'analyze' when the
\* new length is a multiple of TriggerEvery.  Behaviours that would leave
\* more than MaxQueue items pending are not explored.
AddReading(r) ==
  /\ start_time' = IF start_time = None THEN r.timestamp ELSE start_time
  /\ readings' = AppendBounded(readings, r)
  /\ analysis_queue' = IF Len(readings') % TriggerEvery = 0
                       THEN analysis_queue + 1 ELSE analysis_queue
  /\ analysis_queue' <= MaxQueue

\* One iteration of the monitor loop: parse_log_line, then add_reading if
\* the line held an offset.
ReceiveLine(line) ==
  /\ LET r == ParseLogLine(line, clock) IN
       IF r = None THEN UNCHANGED reader_vars ELSE AddReading(r)
  /\ UNCHANGED <<clock, worker_vars>>

\* _analysis_worker: queue.get returns a trigger ...
TakeTrigger ==
  /\ worker = "idle"
  /\ analysis_queue > 0
  /\ analysis_queue' = analysis_queue - 1
  /\ worker' = "busy"
  /\ UNCHANGED <<readings, start_time, clock, snapshot, last_result>>

\* ... or times out on an empty queue (queue.Empty).
TakeTimeout ==
  /\ worker = "idle"
  /\ analysis_queue = 0
  /\ worker' = "busy"
  /\ UNCHANGED <<reader_vars, clock, snapshot, last_result>>

\* analyze_current_data reads the window: it returns None early when the
\* window is short or holds no sync offset (lines 155, 161).
TakeSnapshot ==
  /\ worker = "busy"
  /\ IF TooFewReadings(readings) \/ NoSyncOffsets(readings)
     THEN /\ worker' = "idle"
          /\ UNCHANGED snapshot
     ELSE /\ worker' = "snap"
          /\ snapshot' = readings
  /\ UNCHANGED <<reader_vars, clock, last_result>>

\* The statistics of the snapshot, then _print_analysis_summary.  A
\* KeyError from _calculate_performance_grade ends the worker: no step.
PrintSummary ==
  LET res == AnalyzeCurrentData(snapshot, start_time) IN
  /\ worker = "snap"
  /\ res.performance_grade # "KeyError"
  /\ last_result' = res
  /\ worker' = "idle"
  /\ snapshot' = <<>>
  /\ UNCHANGED <<reader_vars, clock>>

\* Time passes between lines; a wall clock may also be stepped back.
Tick ==
  /\ \E d \in ClockSteps :
       /\ clock + d \in 0..MaxClock
       /\ clock' = clock + d
  /\ UNCHANGED <<reader_vars, worker_vars>>

Init ==
  /\ readings = <<>>
  /\ start_time = None
  /\ analysis_queue = 0
  /\ last_result = None
  /\ clock = 0
  /\ worker = "idle"
  /\ snapshot = <<>>

Next ==
  \/ \E line \in Lines : ReceiveLine(line)
  \/ TakeTrigger
  \/ TakeTimeout
  \/ TakeSnapshot
  \/ PrintSummary
  \/ Tick

Spec == Init /\ [][Next]_vars

=============================================================================
