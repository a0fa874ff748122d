------------------------ MODULE MCTimestampAnalyzer ------------------------
(***************************************************************************)
(* Model-checks TimestampAnalyzer: a window of Cap readings fed by a few   *)
(* kinds of gPTP lines, analysed on triggers and on timeouts.             *)
(***************************************************************************)
EXTENDS TimestampAnalyzer

CONSTANT MaxLines  \* bound: readings added in one run

\* history: every reading add_reading was ever given, oldest first
VARIABLE history

MCInit == Init /\ history = <<>>

MCNext ==
  \/ \E line \in Lines :
       /\ Len(history) < MaxLines
       /\ ReceiveLine(line)
       /\ LET r == ParseLogLine(line, clock) IN
            history' = IF r = None THEN history ELSE Append(history, r)
  \/ (TakeTrigger \/ TakeTimeout \/ TakeSnapshot \/ PrintSummary \/ Tick)
       /\ UNCHANGED history

MCSpec == MCInit /\ [][MCNext]_<<vars, history>>

\* A config file that scales jitter_threshold and performance_thresholds
\* down to the offsets of this model; _load_config merges it into the
\* defaults.
MCUserConfig ==
  [jitter_threshold |-> 1,
   performance_thresholds |->
     [excellent |-> [jitter |-> 0, drift |-> 0],
      good      |-> [jitter |-> 1, drift |-> 1],
      fair      |-> [jitter |-> 2, drift |-> 2]]]

MCThresholds      == LoadConfig(MCUserConfig).performance_thresholds
MCJitterThreshold == LoadConfig(MCUserConfig).jitter_threshold

\* A hardware sync line for two offsets, a software delay line, a line
\* matching both offset patterns, and a line with no offset at all.
MCLines ==
  {[sync_msg |-> v, delay_msg |-> None, hardware_ts |-> TRUE, software_ts |-> FALSE]
     : v \in {0, 2}}
  \cup
  {[sync_msg |-> None, delay_msg |-> 1, hardware_ts |-> FALSE, software_ts |-> TRUE],
   [sync_msg |-> 1, delay_msg |-> 1, hardware_ts |-> FALSE, software_ts |-> FALSE],
   [sync_msg |-> None, delay_msg |-> None, hardware_ts |-> TRUE, software_ts |-> FALSE]}

TypeOK ==
  /\ readings \in Seq(ReadingRec(Int, 0..MaxClock))
  /\ Len(readings) <= Cap
  /\ start_time \in 0..MaxClock \cup {None}
  /\ analysis_queue \in 0..MaxQueue
  /\ clock \in 0..MaxClock
  /\ history \in Seq(ReadingRec(Int, 0..MaxClock))
  /\ worker \in {"idle", "busy", "snap"}
  /\ snapshot \in Seq(ReadingRec(Int, 0..MaxClock))

(* A printed summary counts its samples and its message types over one     *)
(* window: total_samples equals the 'sync' entry of message_stats, and the *)
(* message_stats entries add up to the hardware ratio's denominator, the   *)
(* window length.                                                         *)
SummaryCountsAgree ==
  last_result # None =>
    /\ "sync" \in DOMAIN last_result.message_stats
    /\ last_result.total_samples = last_result.message_stats["sync"]
    /\ Sum(last_result.message_stats) = last_result.hardware_timestamp_ratio[2]

(* Spec 4.3/5: triggers are coalesced, never queued: while one analysis   *)
(* is pending, a further trigger is dropped, so at most one 'analyze'     *)
(* item waits in the queue.                                               *)
TriggerQueueBounded == analysis_queue <= 1

=============================================================================
