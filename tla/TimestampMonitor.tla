------------------------- MODULE TimestampMonitor --------------------------
(***************************************************************************)
(* The running timestamp_analyzer.py: main() with its duration Timer,     *)
(* monitor_gptp_daemon reading the gPTP daemon's output line by line on   *)
(* the main thread, _analysis_worker on a daemon thread, and the daemon   *)
(* process writing into a pipe.  The reader and the worker share the      *)
(* reading deque and the running flag with no lock.                      *)
(*                                                                         *)
(* The worker walks self.readings six times in analyze_current_data       *)
(* (lines 159, 165, 171, 183, 184, 188).  Four walks iterate the deque;   *)
(* CPython raises RuntimeError("deque mutated during iteration") when an  *)
(* append happens between the start of such an iteration and its end.    *)
(* An iterating walk is therefore two steps, BeginWalk and EndWalk, and   *)
(* every append sets `dirty`.  Each walk keeps what it extracts (the     *)
(* local variables sync_offsets, duration, timestamps, ...) in `seen`,    *)
(* and the printed result is AnalyzeFrom of those values.                 *)
(***************************************************************************)
EXTENDS TimestampAnalysis

CONSTANTS
  Cap, TriggerEvery, Lines, MaxQueue, MaxClock,  \* as in TimestampAnalyzer
  Duration,        \* --duration (0: run until interrupted)
  PipeBound,       \* lines the stdout pipe buffers before the daemon blocks
  LogOutput,       \* --log-output was given
  CtrlC            \* the user may press Ctrl-C (once)

ASSUME Duration \in Nat /\ PipeBound \in Nat \ {0} /\ LogOutput \in BOOLEAN
       /\ CtrlC \in BOOLEAN

VARIABLES
  readings, start_time, analysis_queue, last_result, clock,
  running,      \* self.running
  m_pc,         \* main thread: where main() / monitor_gptp_daemon is
  w_pc,         \* _analysis_worker thread
  w_pass,       \* index in Walks of the walk the worker is at
  w_iter,       \* the worker holds a live iterator over the deque
  dirty,        \* the deque was appended to since that iterator was made
  seen,         \* walk name -> what it extracted (None: not yet)
  w_window,     \* auxiliary: the window the first walk read
  t_pc,         \* the threading.Timer of main()
  t_wake,       \* when stop_after_duration's sleep ends
  daemon,       \* the gPTP process: "none", "alive", "exited"
  term,         \* process.terminate() was called
  pipe,         \* lines written by the daemon and not yet read
  interrupted,  \* Ctrl-C was pressed
  log_written,  \* the --log-output file was written
  report        \* outcome of generate_report

analyzer_vars == <<readings, start_time, analysis_queue, last_result, clock>>
worker_vars   == <<w_pc, w_pass, w_iter, seen, w_window, last_result>>
main_vars     == <<m_pc, running, term, interrupted, log_written, report>>
vars == <<readings, start_time, analysis_queue, last_result, clock, running,
          m_pc, w_pc, w_pass, w_iter, dirty, seen, w_window, t_pc, t_wake, daemon,
          term, pipe, interrupted, log_written, report>>

WalkNames == {"offsets", "duration", "timestamps", "hardware", "length", "messages"}

\* A `for r in self.readings` (a comprehension or generator), not an index.
Iterates == {"offsets", "timestamps", "hardware", "messages"}

\* Mutation of Walks: len(self.readings) read before the hardware walk.
WalksLenFirst == <<"offsets", "duration", "timestamps", "length", "hardware", "messages">>

\* The walks of analyze_current_data, in program order.
Walks == <<"offsets", "duration", "timestamps", "hardware", "length", "messages">>

\* What the walk named k takes from window w.
Extract(k, w) ==
  CASE k = "offsets"    -> SyncOffsetsOf(w)
    [] k = "duration"   -> DurationOf(w)
    [] k = "timestamps" -> TimestampsOf(w, start_time)
    [] k = "hardware"   -> HwCountOf(w)
    [] k = "length"     -> Len(w)
    [] k = "messages"   -> MessageStatsOf(w)

\* The locals of analyze_current_data before its first walk.
NoLocals == [k \in WalkNames |-> None]

\* The walk the worker is at.
Walk == Walks[w_pass]

\* The worker as TimestampAnalyzer sees it: woken ("busy") until its first
\* walk has read the window, then holding that window as its snapshot.
WorkerPhase ==
  CASE w_pc \in {"none", "loop", "get", "done"} -> "idle"
    [] w_pc = "len"                            -> "busy"
    [] OTHER -> IF seen["offsets"] = None THEN "busy" ELSE "snap"

WorkerSnapshot == IF WorkerPhase = "snap" THEN w_window ELSE <<>>

A == INSTANCE TimestampAnalyzer
       WITH ClockSteps <- {1}, worker <- WorkerPhase, snapshot <- WorkerSnapshot

\* main() has returned and the non-daemon Timer thread is over: the
\* interpreter exits, which ends the daemon _analysis_worker thread.
ProcessExited == m_pc = "done" /\ t_pc \in {"off", "fired"}

-----------------------------------------------------------------------------
(* main()                                                                  *)
-----------------------------------------------------------------------------

\* threading.Timer(args.duration, stop_after_duration).start()
StartTimer ==
  /\ m_pc = "start"
  /\ m_pc' = "monitor"
  /\ t_pc' = IF Duration > 0 THEN "armed" ELSE "off"
  /\ UNCHANGED <<analyzer_vars, running, worker_vars, dirty, t_wake, daemon,
                 term, pipe, interrupted, log_written, report>>

\* monitor_gptp_daemon: running = True, Popen, start _analysis_worker.
StartDaemon ==
  /\ m_pc = "monitor"
  /\ running' = TRUE
  /\ daemon' = "alive"
  /\ w_pc' = "loop"
  /\ m_pc' = "read"
  /\ UNCHANGED <<analyzer_vars, w_pass, w_iter, seen, w_window, dirty, t_pc,
                 t_wake, term, pipe, interrupted, log_written, report>>

\* Popen raises: print and return, with running left True and no worker.
DaemonStartFails ==
  /\ m_pc = "monitor"
  /\ running' = TRUE
  /\ m_pc' = "report"
  /\ UNCHANGED <<analyzer_vars, worker_vars, dirty, t_pc, t_wake, daemon,
                 term, pipe, interrupted, log_written, report>>

\* `for line in process.stdout`, running still set: parse_log_line and
\* add_reading, exactly TimestampAnalyzer's ReceiveLine.
ProcessLine ==
  /\ m_pc = "read"
  /\ pipe # <<>>
  /\ running
  /\ pipe' = Tail(pipe)
  /\ UNCHANGED <<main_vars, w_pc, w_pass, w_iter, seen, w_window, t_pc, t_wake,
                 daemon>>
  /\ A!ReceiveLine(Head(pipe))
  /\ dirty' = (dirty \/ readings' # readings)

\* `if not self.running: break` on the next line read.
StopAtLine ==
  /\ m_pc = "read"
  /\ pipe # <<>>
  /\ ~running
  /\ pipe' = Tail(pipe)
  /\ m_pc' = "finally"
  /\ UNCHANGED <<analyzer_vars, running, worker_vars, dirty, t_pc, t_wake,
                 daemon, term, interrupted, log_written, report>>

\* The loop ends at end of file: the daemon exited and the pipe is drained.
EndOfOutput ==
  /\ m_pc = "read"
  /\ pipe = <<>>
  /\ daemon = "exited"
  /\ m_pc' = "finally"
  /\ UNCHANGED <<analyzer_vars, running, worker_vars, dirty, t_pc, t_wake,
                 daemon, term, pipe, interrupted, log_written, report>>

\* KeyboardInterrupt where main blocks: in the read loop it is caught by
\* monitor_gptp_daemon; in process.wait() it escapes to main(), skipping
\* the log write, and main's finally generates the report.
Interrupt ==
  /\ CtrlC /\ ~interrupted
  /\ m_pc \in {"read", "wait"}
  /\ interrupted' = TRUE
  /\ m_pc' = IF m_pc = "read" THEN "finally" ELSE "report"
  /\ UNCHANGED <<analyzer_vars, running, worker_vars, dirty, t_pc, t_wake,
                 daemon, term, pipe, log_written, report>>

\* Mutation of Finally: process.terminate() left out.
FinallyNoTerminate ==
  /\ m_pc = "finally"
  /\ running' = FALSE
  /\ m_pc' = "wait"
  /\ UNCHANGED <<analyzer_vars, worker_vars, dirty, t_pc, t_wake, daemon,
                 term, pipe, interrupted, log_written, report>>

\* finally: running = False; process.terminate()
Finally ==
  /\ m_pc = "finally"
  /\ running' = FALSE
  /\ term' = (daemon = "alive" \/ term)
  /\ m_pc' = "wait"
  /\ UNCHANGED <<analyzer_vars, worker_vars, dirty, t_pc, t_wake, daemon,
                 pipe, interrupted, log_written, report>>

\* process.wait() returns once the daemon has exited.
Reap ==
  /\ m_pc = "wait"
  /\ daemon = "exited"
  /\ m_pc' = "log"
  /\ UNCHANGED <<analyzer_vars, running, worker_vars, dirty, t_pc, t_wake,
                 daemon, term, pipe, interrupted, log_written, report>>

\* if output_file: write output_log
WriteLog ==
  /\ m_pc = "log"
  /\ log_written' = LogOutput
  /\ m_pc' = "report"
  /\ UNCHANGED <<analyzer_vars, running, worker_vars, dirty, t_pc, t_wake,
                 daemon, term, pipe, interrupted, report>>

\* main's finally: generate_report analyses the final window; a KeyError
\* from the grade escapes and no file is written.
GenerateReport ==
  LET res == AnalyzeCurrentData(readings, start_time) IN
  /\ m_pc = "report"
  /\ report' = IF res = None THEN "no_data"
               ELSE IF res.performance_grade = "KeyError" THEN "error"
               ELSE "written"
  /\ m_pc' = "done"
  /\ UNCHANGED <<analyzer_vars, running, worker_vars, dirty, t_pc, t_wake,
                 daemon, term, pipe, interrupted, log_written>>

-----------------------------------------------------------------------------
(* _analysis_worker                                                        *)
-----------------------------------------------------------------------------

\* while self.running
WorkerLoop ==
  /\ w_pc = "loop"
  /\ w_pc' = IF running THEN "get" ELSE "done"
  /\ UNCHANGED <<analyzer_vars, running, main_vars, w_pass, w_iter, seen, w_window, dirty,
                 t_pc, t_wake, daemon, pipe>>

\* analysis_queue.get(timeout=30) returns an item ...
TakeTrigger ==
  /\ w_pc = "get"
  /\ analysis_queue > 0
  /\ analysis_queue' = analysis_queue - 1
  /\ w_pc' = "len"
  /\ UNCHANGED <<readings, start_time, last_result, clock, main_vars, w_pass,
                 w_iter, seen, w_window, dirty, t_pc, t_wake, daemon, pipe>>

\* ... or raises queue.Empty after 30 s of an empty queue.
TakeTimeout ==
  /\ w_pc = "get"
  /\ analysis_queue = 0
  /\ w_pc' = "len"
  /\ UNCHANGED <<analyzer_vars, main_vars, w_pass, w_iter, seen, w_window, dirty, t_pc,
                 t_wake, daemon, pipe>>

\* if len(self.readings) < 10: return None
CheckLength ==
  /\ w_pc = "len"
  /\ w_pc' = IF TooFewReadings(readings) THEN "loop" ELSE "walk"
  /\ w_pass' = 1
  /\ UNCHANGED <<analyzer_vars, main_vars, w_iter, seen, w_window, dirty, t_pc, t_wake,
                 daemon, pipe>>

\* iter(self.readings): a comprehension or generator starts.
BeginWalk ==
  /\ w_pc = "walk"
  /\ Walk \in Iterates
  /\ ~w_iter
  /\ w_iter' = TRUE
  /\ dirty' = FALSE
  /\ UNCHANGED <<analyzer_vars, main_vars, w_pc, w_pass, seen, w_window, t_pc, t_wake,
                 daemon, pipe>>

\* The walk completes: the local it computes takes the current window.
\* After the first, an empty sync_offsets list returns None (line 161).
EndWalk ==
  /\ w_pc = "walk"
  /\ w_iter \/ Walk \notin Iterates
  /\ ~(w_iter /\ dirty)
  /\ w_iter' = FALSE
  /\ IF Walk = "offsets" /\ NoSyncOffsets(readings)
     THEN /\ w_pc' = "loop"
          /\ UNCHANGED <<w_pass, seen, w_window>>
     ELSE /\ seen' = [seen EXCEPT ![Walk] = Extract(Walk, readings)]
          /\ w_window' = IF Walk = "offsets" THEN readings ELSE w_window
          /\ IF w_pass = Len(Walks) THEN w_pc' = "print" /\ UNCHANGED w_pass
             ELSE w_pass' = w_pass + 1 /\ UNCHANGED w_pc
  /\ UNCHANGED <<analyzer_vars, main_vars, dirty, t_pc, t_wake, daemon, pipe>>

\* The deque was appended to during the iteration: RuntimeError, which the
\* worker's `except queue.Empty` does not catch; the thread dies.
WalkMutated ==
  /\ w_pc = "walk"
  /\ w_iter /\ dirty
  /\ w_pc' = "dead"
  /\ UNCHANGED <<analyzer_vars, main_vars, w_pass, w_iter, seen, w_window, dirty, t_pc,
                 t_wake, daemon, pipe>>

\* The result of the walks' windows: _calculate_performance_grade, then
\* _print_analysis_summary ...
PrintSummary ==
  LET res == AnalyzeFrom(seen["offsets"], seen["duration"], seen["timestamps"],
                         seen["hardware"], seen["length"], seen["messages"]) IN
  /\ w_pc = "print"
  /\ res.performance_grade # "KeyError"
  /\ last_result' = res
  /\ w_pc' = "loop"
  /\ seen' = NoLocals
  /\ w_window' = <<>>
  /\ UNCHANGED <<readings, start_time, analysis_queue, clock, main_vars,
                 w_pass, w_iter, dirty, t_pc, t_wake, daemon, pipe>>

\* ... unless a threshold key is missing: KeyError kills the thread.
GradeFails ==
  LET res == AnalyzeFrom(seen["offsets"], seen["duration"], seen["timestamps"],
                         seen["hardware"], seen["length"], seen["messages"]) IN
  /\ w_pc = "print"
  /\ res.performance_grade = "KeyError"
  /\ w_pc' = "dead"
  /\ UNCHANGED <<analyzer_vars, main_vars, w_pass, w_iter, seen, w_window, dirty, t_pc,
                 t_wake, daemon, pipe>>

-----------------------------------------------------------------------------
(* The duration timer, the daemon and the clock                            *)
-----------------------------------------------------------------------------

\* Timer fires after `duration` and runs stop_after_duration, which first
\* sleeps another `duration' ...
TimerExpire ==
  /\ t_pc = "armed"
  /\ clock >= Duration
  /\ t_pc' = "sleeping"
  /\ t_wake' = clock + Duration
  /\ UNCHANGED <<analyzer_vars, main_vars, worker_vars, dirty, daemon, pipe>>

\* ... and then sets analyzer.running = False.
TimerFire ==
  /\ t_pc = "sleeping"
  /\ clock >= t_wake
  /\ running' = FALSE
  /\ t_pc' = "fired"
  /\ UNCHANGED <<analyzer_vars, m_pc, term, interrupted, log_written, report,
                 worker_vars, dirty, t_wake, daemon, pipe>>

\* gPTP prints a line; it blocks while the pipe buffer is full.
Emit(line) ==
  /\ daemon = "alive"
  /\ Len(pipe) < PipeBound
  /\ pipe' = Append(pipe, line)
  /\ UNCHANGED <<analyzer_vars, main_vars, worker_vars, dirty, t_pc, t_wake,
                 daemon>>

\* gPTP exits on its own (error, crash) ...
DaemonExit ==
  /\ daemon = "alive"
  /\ daemon' = "exited"
  /\ UNCHANGED <<analyzer_vars, main_vars, worker_vars, dirty, t_pc, t_wake,
                 pipe>>

\* ... or on the SIGTERM of process.terminate().
ExitOnTerm ==
  /\ daemon = "alive" /\ term
  /\ daemon' = "exited"
  /\ UNCHANGED <<analyzer_vars, main_vars, worker_vars, dirty, t_pc, t_wake,
                 pipe>>

\* time.time() advances.  The few statements from main() to running = True
\* take far less than a second, so no time passes before them; and the
\* Timer and time.sleep wake up on time, not after a later second.
Tick ==
  /\ m_pc \notin {"start", "monitor"}
  /\ ~ProcessExited
  /\ ~(t_pc = "armed" /\ clock >= Duration)
  /\ ~(t_pc = "sleeping" /\ clock >= t_wake)
  /\ clock < MaxClock
  /\ clock' = clock + 1
  /\ UNCHANGED <<readings, start_time, analysis_queue, last_result, main_vars,
                 worker_vars, dirty, t_pc, t_wake, daemon, pipe>>

-----------------------------------------------------------------------------

Init ==
  /\ readings = <<>> /\ start_time = None /\ analysis_queue = 0
  /\ last_result = None /\ clock = 0
  /\ running = FALSE
  /\ m_pc = "start"
  /\ w_pc = "none" /\ w_pass = 1 /\ w_iter = FALSE /\ dirty = FALSE
  /\ seen = NoLocals /\ w_window = <<>>
  /\ t_pc = "off" /\ t_wake = 0
  /\ daemon = "none" /\ term = FALSE /\ pipe = <<>>
  /\ interrupted = FALSE /\ log_written = FALSE /\ report = "none"

MainStep ==
  \/ StartTimer \/ StartDaemon \/ DaemonStartFails \/ ProcessLine
  \/ StopAtLine \/ EndOfOutput \/ Finally \/ Reap \/ WriteLog
  \/ GenerateReport

WorkerStep ==
  /\ ~ProcessExited
  /\ \/ WorkerLoop \/ TakeTrigger \/ TakeTimeout \/ CheckLength \/ BeginWalk
     \/ EndWalk \/ WalkMutated \/ PrintSummary \/ GradeFails

TimerStep == TimerExpire \/ TimerFire

Next ==
  \/ MainStep \/ WorkerStep \/ TimerStep \/ Tick \/ Interrupt
  \/ \E line \in Lines : Emit(line)
  \/ DaemonExit \/ ExitOnTerm

\* The threads of the program progress, time passes, and a terminated
\* gPTP exits; the user, a crash of gPTP and its output are not forced.
ProgramFairness ==
  /\ WF_vars(MainStep) /\ WF_vars(WorkerStep) /\ WF_vars(TimerStep)
  /\ WF_vars(Tick) /\ WF_vars(ExitOnTerm)

\* A daemon that goes quiet (gPTP waiting for a link or a master).
SilentDaemonSpec == Init /\ [][Next]_vars /\ ProgramFairness

\* A daemon that keeps logging while it runs.
Spec == SilentDaemonSpec /\ WF_vars(\E line \in Lines : Emit(line))

=============================================================================
