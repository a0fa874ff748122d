# TLA+ models of the OpenAvnu gPTP timestamp analysis tools

This directory holds TLA+ models of the Python tools under `src/`. They are
checked with TLC. The main subject is `src/tools/timestamp_analysis/timestamp_analyzer.py`.
It runs the gPTP daemon, parses its log line by line into timestamp readings,
keeps the newest readings in a bounded deque and analyses them on a background
thread. At the end it writes a report.

## The system and how its parts interact

`timestamp_analyzer.py` has these parts:

| Part | Code | Role |
|---|---|---|
| Config loader | `_load_config` (83-105) | Merges the JSON object of `--config` into the defaults with a shallow `dict.update`. |
| Parser | `parse_log_line` (107-140) | Six regexes turn a line into a `TimestampReading` with `time.time()` as the timestamp, or into `None`. |
| Window and trigger | `add_reading` (142-151) | Appends to `deque(maxlen=10000)`, sets `start_time` once, and queues `'analyze'` when the length is a multiple of 100. |
| Analysis engine | `analyze_current_data`, `_calculate_drift_rate`, `_calculate_performance_grade` (153-238) | Computes statistics over the window. |
| Reader (main thread) | `monitor_gptp_daemon` (240-302) | Runs `Popen` on gPTP and loops `for line in process.stdout` while `running` is true. In `finally` it terminates and waits for gPTP, then writes the raw log. |
| Analysis worker (daemon thread) | `_analysis_worker` (304-319) | Takes a trigger, or times out after 1 s, analyses and prints a summary. |
| Duration timer | `main` (447-485) | A `threading.Timer(duration)` whose callback sleeps `duration` again and then clears `running`. `generate_report` always runs in `finally`. |

The reader and the worker share the deque and `running` without a lock.

The other files are these:
- **`performance_benchmark.py`** runs gPTP in a fixed sequence of benchmarks: hardware and software baselines, load tests, network conditions and comparison NICs. For the `congested` and `lossy` conditions it adds a netem qdisc to `eth0` with `tc qdisc add` (`check=True`). After every condition, `normal` included, it runs `tc qdisc del dev eth0 root`. The qdisc is system state that outlives the script.
- **`automated_test_suite.py`, `validate_setup.py` and `debug_subprocess.py`** drive gPTP from test scripts.
- **`test_i217_implementation.py`** runs the validation scripts.
- **`scripts/check_documentation_compliance.py`** scans every `*.md` under `docs/` with five checks. These cover prohibited claims without hardware evidence, naming, required sections, freshness and broken links. It prints or writes (`--output`) a report and exits 1 on an error, 2 on a warning under `--fail-on-warnings`, else 0.
- **`scripts/generate_todo.py`** reads `docs/compliance_report.md` and writes `docs/TODO_AUTO_GENERATED.md`. Both files lie under `docs/`, so the next compliance check scans them as well.

## Modules

| Module | Models | State and actions |
|---|---|---|
| `TimestampAnalysis` | Parser and analysis engine | Pure operators, with no variables.<br>`ParseLogLine` models a line by what the regexes find.<br>Each walk of `analyze_current_data` is one operator: `SyncOffsetsOf` (159), `DurationOf` (165), `TimestampsOf` (171), `HwCountOf` (183) and `MessageStatsOf` (187-190). `AnalyzeFrom` combines their results.<br>Floats are exact rationals `<<num, den>>`, and the standard deviation is kept squared. `_calculate_drift_rate` keeps `zip`'s truncation.<br>`GradeFrom` is the recursive if/elif chain. It includes the `KeyError` that a shallow `dict.update` of the config can cause.<br>`LoadConfig` is `_load_config`: `user_config @@ DefaultConfig`, or the defaults alone when there is no file or it does not parse. Every MC module takes `jitter_threshold` and `performance_thresholds` from `LoadConfig` of a config file it defines. |
| `MCTimestampAnalysis` | Checks the analysis | A harness that grows a window of sync and delay readings on the line `a + b*t` with optional noise. |
| `TimestampAnalyzer` | The analyzer the spec (4.2, 4.3) asks for | `add_reading` is atomic, and the worker analyses one snapshot.<br>Variables: `readings`, `start_time`, `analysis_queue`, `last_result`, `clock`, `worker` and `snapshot`.<br>Actions: `ReceiveLine`, `TakeTrigger`, `TakeTimeout`, `TakeSnapshot`, `PrintSummary` and `Tick`. |
| `MCTimestampAnalyzer` | Checks the analyzer | Adds a `history` of every parsed reading and a bound on the number of lines. |
| `TimestampMonitor` | The running program: main thread, worker, Timer, gPTP process and its stdout pipe | Each thread has a program counter: `m_pc`, `w_pc` and `t_pc`. Each action is a statement block of the code.<br>An iterating walk is split into `BeginWalk` and `EndWalk`, and every append sets `dirty`. This models CPython's "deque mutated during iteration" check, which `WalkMutated` raises.<br>`seen` holds the locals that each walk extracted.<br>The reader's parse and append is `A!ReceiveLine` of the instantiated `TimestampAnalyzer`. The module is checked against that abstract spec by the refinement mapping `WorkerPhase`/`WorkerSnapshot`. |
| `MCTimestampMonitor` | Checks the monitor | Defines the lines gPTP may print and the threshold tables. |
| `DocumentationChecker` | `check_documentation_compliance.py` | Pure operators: one per check method, `RunAllChecks`, `GenerateComplianceReport` (the report as a sequence of line records: marker, emoji, label, message), `ReportContent` (what a later check finds in that report) and `ExitCode`.<br>A file is a `DocRec`: the prohibited terms and evidence phrases it contains, whether it is UTF-8, whether its name fits its folder, how many required sections it lacks, whether it is fresh, and its links resolved to their targets. `ForEach` is a `for` loop that appends messages, so message order follows the code. |
| `TodoGenerator` | `generate_todo.py` | `SectionItems` is the two regular expressions (first `## <title>` heading, up to the next `##`, then `- <keyword>` items).<br>`GenerateTodoFromCompliance`, `GenerateHardwareTodos` and `GenerateTodoMarkdown`. The last gives the TODO file as the checker later reads it. |
| `DocsPipeline` | Both scripts run on one repository | Variables: `docs` (document contents), `report_file`, `todo_file`, and the last check's `errors`, `warnings` and `exit_code`.<br>Actions: `RunChecker(output, fail_on_warnings)` (the checker's `main`), `RunGenerator` (the generator's `main`) and `EditDoc` (an author, the environment). |
| `PerformanceBenchmark` | `performance_benchmark.py` on Linux, over successive invocations | Variables: `qdisc` (the root qdisc of eth0), `runs`, `plan` (the current invocation's tests from `run_full_benchmark_suite`), `step` and `phase`, `results`, `report` and `privileged` (run as root).<br>Actions: `Start` (`main`), `Measure` (`run_timestamp_benchmark`, `run_load_test`, `run_comparison_test`), `ApplyCondition`, `MeasureCondition` and `CleanupCondition` (the three parts of `run_network_condition_test`), `GenerateComparisonReport` (including the `ZeroDivisionError` of `_generate_analysis`) and `Interrupt` (a Ctrl-C, which no handler catches). |
| `MCPerformanceBenchmark` | Checks the benchmark | The default conditions `normal`, `congested` and `lossy`, one load level, one NIC, and two invocations. |
| `MCDocsPipeline` | Checks the pipeline | Two documents, one in `docs/status/` and one in `docs/`, and six document contents. |

## Runs

**Passing runs**

| Run | What it shows |
|---|---|
| `analysis` | Over every window of up to 7 readings, captured one second apart or in the same `time.time()` tick:<br>- the drift slope recovers `b` exactly, and is the number 0 when every sync reading has the same timestamp (the zero-denominator guard, 220);<br>- it is independent of the stale `start_time` epoch, which the deque may have evicted long ago;<br>- a constant series gets zero jitter, zero drift and full stability. |
| `analyzer` | With atomic steps, every summary's counts agree with its window: `total_samples` equals the `sync` count, and the message counts add up to the hardware ratio's denominator. |
| `monitor_lifecycle` | Every run gets through `terminate`/`wait` and `generate_report`, which writes the report or raises `KeyError`. This covers the timer, end of output, Ctrl-C, a failed `Popen` and a dead worker. It assumes a gPTP that keeps printing and exits on SIGTERM, so it cannot show the silent case (`monitor_silent`) or a `wait()` that never returns. |
| `docs_pipeline` | Over any sequence of edits, checks (to stdout or to `docs/compliance_report.md`, with or without `--fail-on-warnings`) and TODO generations, the report, the TODO file, the messages and the exit code stay well-formed. The run's main job is to fire every action of the pipeline; the pipeline's real hazard, the self-scanned report, is `docs_selfreport`. |
| `benchmark` | A netem qdisc left by a Ctrl-C is gone by the end of the next invocation run as root that completes. The `normal` condition's cleanup deletes it before a `tc qdisc add` can fail on it. |
| `monitor_walks` | Even when the reader appends between the worker's walks, the hardware ratio never exceeds 1. This holds because `hw_count` (183) is read before `len` (184). |

**Violation runs** (the findings in `PROJECT.json`)

| Run | What TLC finds |
|---|---|
| `analyzer_queue` | Triggers are queued without limit instead of coalesced (150-151). |
| `monitor_crash` | An append during an iterating walk kills the analysis thread with `RuntimeError`. |
| `monitor_torn` | The program does not implement the atomic-snapshot analyzer: a summary can mix two windows. |
| `monitor_silent` | A silent gPTP means the stop is never observed (278-280). |
| `docs_selfreport` | A report written to `docs/compliance_report.md` quotes the prohibited term, and the next check scans it (rglob, line 59). Every later check then fails, even after the documents are fixed. |
| `benchmark_baseline` | After a Ctrl-C during `congested`, the next invocation measures the hardware and software baselines, the load tests and `normal` under the leftover 10 ms delay. It reports them as unconditioned. |

Each property of a passing run has a mutant in `PROJECT.json`: a plausible bug in the mapped code that TLC catches.

**Disagreements met while modelling but not kept as runs.** These are easy to see in a unit test or by reading the code, so they are recorded here rather than as runs (those that are hazards are also listed in `PROJECT.json`):
- Line 155 counts all readings for the minimum sample, which matches spec §4.3. Spec §8 counts sync readings, so the spec contradicts itself.
- `time.time()` can step back, so `duration_seconds` can be negative (109, 165).
- `stop_after_duration` sleeps `--duration` again after the Timer already waited, so monitoring lasts twice as long (469-474).
- Drift is computed only above 5 sync points, while spec §4.3 step 6 computes it from 2 (172).
- Stability uses the configured `jitter_threshold`, while the spec uses max(2 × jitter, 1000) (178).
- Duration spans the whole window, while the spec spans the sync readings only (165).
- A document that is not UTF-8 is only warned about, so its claims are never checked (check_documentation_compliance.py 72).
- A link `other.md#section` is resolved as a file name and reported broken (136).
- `generate_todo.py` looks for `## Critical Errors` / `- ERROR:`, but the checker writes `## 🚨 Critical Errors (Must Fix)` / `- ❌`. So no TODO item ever comes from the report (generate_todo.py 25). `TodoGenerator` models both formats.
- A Ctrl-C during `process.wait()` skips the raw log write (297). `TimestampMonitor` reaches this path.
- `--no-hardware` is never read, so the hardware baseline always runs (performance_benchmark.py 95). `_generate_analysis` divides by a software mean precision that can be 0 (493). `PerformanceBenchmark` reaches both cases.

## Bounds and why they are enough

- **Window and trigger.** `Cap` (10000) and `TriggerEvery` (100) become 2-4 and 2. The behaviour depends only on the window being full or not and on the length being a multiple of `TriggerEvery`. Both cases, and eviction, occur within 5 lines. `Cap` must be a multiple of `TriggerEvery`, as 10000 is of 100.
- **Sample gate and drift.** `MinReadings` is 2-3 so that both early returns and full analyses happen. `DriftMinPoints` keeps the code's 5, and the analysis harness builds windows of 7 so that the drift branch is taken.
- **Capture times.** The analysis harness advances time by 0 or 1 per reading. A gap of 0 (two lines in one `time.time()` tick, which is 15.6 ms on Windows) reaches the zero regression denominator, and a gap of 1 the general case; a gap of 2 adds nothing the slope properties tell apart and makes the run eight times longer.
- **Time.** Time is bounded by `MaxClock` (2) and `Duration` is 1. This lets the timer expire and fire, and lets a reading arrive after expiry.
- **Pipe.** The stdout pipe holds `PipeBound` = 1 line. This is enough for gPTP to block on a full pipe.
- **Documents.** Two documents are enough. One lies in `docs/status/`, where every check applies, and one in `docs/` itself, which a link can target. The six contents cover each branch of each check: a claim with and without evidence, two terms, an undecodable file, rule violations, and links that are missing, external, or to a document with and without `#section`. The two generated files make up the rest of the tree. Each run of a script is one step, so the bound is the number of distinct contents, not a step count.
- **Benchmark.** Two invocations are enough for one to leave a qdisc and the next to meet it. The three default conditions are kept because their order matters: `normal` comes first, and its cleanup removes the leftover. Load levels and NICs repeat the same step, so one of each suffices. A measurement yields no reading, a zero precision or a positive one. These are the cases the code branches on.
- **Queue.** `MaxQueue` bounds the trigger queue with a guard in `AddReading`. Runs that check the queue set it higher than the property's limit.

## Fairness

- The benchmark is a sequence of user invocations that may stop at any time, so `PerformanceBenchmark` states no fairness. `CHECK_DEADLOCK FALSE` reflects that the user stops after `MaxRuns`.
- The documentation scripts are one-shot commands run in any order, so `DocsPipeline` states no fairness, and its properties are safety and action properties checked at each run of a script.
- Weak fairness applies to the main thread, the worker, the Timer thread and the clock. They are threads or the OS, and they make progress.
- It also applies to gPTP exiting after `terminate()` (SIGTERM).
- `Spec` adds fairness on gPTP printing. `SilentDaemonSpec` omits it, and `monitor_silent` shows that without it the stop is never seen.
- Ctrl-C, a gPTP crash and a failed `Popen` are possible but never forced.
- Once main is done and the Timer has finished, the process has exited (`ProcessExited`). The daemon worker thread and the clock then stop.

## Not modelled, and plan

- **Report contents and visualisations.** `generate_report` is modelled only by its outcome. Its file contents and `create_visualizations` (matplotlib) are output formatting that no other part reads.
- **The documentation scripts.** The Markdown layout of the TODO file, due dates, status emoji and the wording of messages are formatting, and only what a later check reads is kept. `rglob` order is fixed, with the generated files first, because no property depends on it. Links are given already resolved to their target, since relative and absolute resolution differ only in the directory used.
- **The config file.** Opening and parsing it are I/O: `LoadConfig` takes the parsed object, or `None` for a missing or unparsable file. Keys the code never reads (`analysis_window`, `drift_threshold`, `stability_threshold`) are kept in `DefaultConfig` but nothing depends on them.
- **`validate_setup.py`, `debug_subprocess.py` and `test_i217_implementation.py`** are straight-line scripts.
- **`performance_benchmark.py`, partly modelled.** Left out: the Windows path (no `tc`); `--all-supported-adapters`, which repeats the same suite in one process; the traffic generator process; the statistics; and the report text.
- **`automated_test_suite.py`, not modelled.** It runs its tests one after another and records each test's result or exception. Its hazards are listed in `PROJECT.json`: an orphaned gPTP after `wait(timeout=5)` (495, 554), and a `readline` loop that a silent gPTP blocks (545). Both are disagreements a model would only restate as one-step violations.
- **Timing.** The model has a clock but no durations. So the doubled `--duration` (470) and the exit delayed by the non-daemon Timer (468) are recorded as hazards without a property.
