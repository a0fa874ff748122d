------------------------ MODULE PerformanceBenchmark ------------------------
(***************************************************************************)
(* performance_benchmark.py on Linux: successive invocations of main(),    *)
(* each running run_full_benchmark_suite and then                          *)
(* generate_comparison_report.  The root qdisc of eth0 is system state     *)
(* that outlives the process: run_network_condition_test adds a netem      *)
(* qdisc with `tc qdisc add ... netem` and removes it with                 *)
(* `tc qdisc del dev eth0 root`, and a KeyboardInterrupt (not an           *)
(* Exception, so no handler of the script catches it) may end an           *)
(* invocation between the two.                                             *)
(*                                                                         *)
(* Data abstraction.  A gPTP run yields no valid reading, or readings      *)
(* whose mean precision is zero or positive; a result records its test,    *)
(* its timestamp mode, the netem qdisc in force while it was measured and  *)
(* that precision.                                                         *)
(***************************************************************************)
EXTENDS Naturals, Sequences

CONSTANTS
  None,            \* Python's None
  Conditions,      \* BenchmarkConfig.network_conditions, in order
  NetemOf,         \* condition -> the netem of its tc command, or None
  LoadLevels,      \* --load-levels, in order
  ComparisonNics,  \* BenchmarkConfig.comparison_nics, in order
  MaxRuns          \* invocations of main() the model lets the user start

ASSUME MaxRuns \in Nat

\* One test of the suite: what it measures, and the condition or argument.
Step(kind, arg) == [kind |-> kind, arg |-> arg]

\* run_full_benchmark_suite: the hardware baseline always runs (it never
\* reads hw_timestamp_tests), the software one under sw_timestamp_tests,
\* load tests under load_test_enabled, then every network condition and
\* every comparison NIC.
Plan(sw, load) ==
  <<Step("baseline", "hardware")>>
  \o (IF sw THEN <<Step("baseline", "software")>> ELSE <<>>)
  \o (IF load THEN [i \in DOMAIN LoadLevels |-> Step("load", LoadLevels[i])] ELSE <<>>)
  \o [i \in DOMAIN Conditions |-> Step("condition", Conditions[i])]
  \o [i \in DOMAIN ComparisonNics |-> Step("comparison", ComparisonNics[i])]

ModeOf(s) == IF s.kind = "baseline" THEN s.arg ELSE "hardware"

\* What a gPTP run of run_timestamp_benchmark or run_comparison_test may
\* measure: no reading (the test returns None) or a mean precision.
Outcomes == {"none", "zero", "positive"}

VARIABLES
  qdisc,     \* the netem root qdisc on eth0, or None
  runs,      \* invocations of main() started
  plan,      \* the current invocation's tests, <<>> when none runs
  step,      \* index of the running test; Len(plan) + 1: the report
  phase,     \* of a network condition test: "apply", "measure", "cleanup"
  results,   \* benchmark.results of the current invocation
  report,    \* outcome of the last generate_comparison_report
  privileged \* the current invocation may change qdiscs (root)

vars == <<qdisc, runs, plan, step, phase, results, report, privileged>>

Running == plan # <<>>
Current == plan[step]

\* Leave the current test for the next one.
NextTest == step' = step + 1 /\ phase' = "apply"

\* Mutation of Record: the suite's `if result:` dropped, so a test that
\* returned None is appended to benchmark.results all the same.
RecordUnchecked(outcome) ==
  results' = Append(results, [test |-> Current, mode |-> ModeOf(Current),
                              netem |-> qdisc, precision |-> outcome])

\* The test's result, if it measured one (`if result:` in
\* run_full_benchmark_suite), appended to benchmark.results.
Record(outcome) ==
  results' = IF outcome = "none" THEN results
             ELSE Append(results, [test |-> Current, mode |-> ModeOf(Current),
                                   netem |-> qdisc, precision |-> outcome])

-----------------------------------------------------------------------------
(* main() and run_full_benchmark_suite                                     *)
-----------------------------------------------------------------------------

\* main: BenchmarkConfig from --no-software and --no-load (--no-hardware
\* sets hw_timestamp_tests, which nothing reads), then the suite.
Start ==
  /\ ~Running
  /\ runs < MaxRuns
  /\ \E sw, load \in BOOLEAN : plan' = Plan(sw, load)
  /\ runs' = runs + 1
  /\ step' = 1 /\ phase' = "apply"
  /\ results' = <<>>
  /\ privileged' \in BOOLEAN
  /\ UNCHANGED <<qdisc, report>>

\* run_timestamp_benchmark ('hardware' or 'software'), run_load_test (the
\* hardware benchmark under a traffic generator) and run_comparison_test:
\* each runs gPTP, keeps the readings it parses and returns a result or
\* None.  Every exception is caught inside and returns None.
Measure ==
  /\ Running /\ step <= Len(plan)
  /\ Current.kind \in {"baseline", "load", "comparison"}
  /\ \E o \in Outcomes : Record(o)
  /\ NextTest
  /\ UNCHANGED <<qdisc, runs, plan, report, privileged>>

-----------------------------------------------------------------------------
(* run_network_condition_test                                              *)
-----------------------------------------------------------------------------

\* subprocess.run(condition_cmd, check=True): 'tc qdisc add' fails without
\* root and while a root qdisc exists; the CalledProcessError is caught by
\* the handler, which returns None before the cleanup.  A condition without a command
\* ('normal') goes straight to the benchmark.
ApplyCondition ==
  /\ Running /\ step <= Len(plan)
  /\ Current.kind = "condition" /\ phase = "apply"
  /\ LET netem == NetemOf[Current.arg] IN
       CASE netem = None                -> phase' = "measure" /\ UNCHANGED <<qdisc, step>>
         [] qdisc = None /\ privileged  -> qdisc' = netem /\ phase' = "measure" /\ UNCHANGED step
         [] OTHER                       -> NextTest /\ UNCHANGED qdisc
  /\ UNCHANGED <<runs, plan, results, report, privileged>>

MeasureCondition ==
  /\ Running /\ step <= Len(plan)
  /\ Current.kind = "condition" /\ phase = "measure"
  /\ \E o \in Outcomes : Record(o)
  /\ phase' = "cleanup"
  /\ UNCHANGED <<qdisc, runs, plan, step, report, privileged>>

\* Mutation of CleanupCondition: the qdisc removed only by the test that
\* added it.
CleanupConditionOwnOnly ==
  /\ Running /\ step <= Len(plan)
  /\ Current.kind = "condition" /\ phase = "cleanup"
  /\ qdisc' = IF NetemOf[Current.arg] = None \/ ~privileged THEN qdisc ELSE None
  /\ NextTest
  /\ UNCHANGED <<runs, plan, results, report, privileged>>

\* subprocess.run(['tc', 'qdisc', 'del', 'dev', 'eth0', 'root']), run after
\* every condition's benchmark, 'normal' included; without check=True a
\* failure (no qdisc, or no root) is ignored.
CleanupCondition ==
  /\ Running /\ step <= Len(plan)
  /\ Current.kind = "condition" /\ phase = "cleanup"
  /\ qdisc' = IF privileged THEN None ELSE qdisc
  /\ NextTest
  /\ UNCHANGED <<runs, plan, results, report, privileged>>

-----------------------------------------------------------------------------
(* generate_comparison_report and interruption                             *)
-----------------------------------------------------------------------------

\* sw_precision: statistics.mean of the software results' precisions.
SwPrecisionZero ==
  \A i \in DOMAIN results : results[i].mode = "software" => results[i].precision = "zero"

HasMode(m) == \E i \in DOMAIN results : results[i].mode = m

\* main: generate_comparison_report when the suite returned results.
\* _generate_analysis divides by sw_precision when both modes have
\* results; a zero mean raises ZeroDivisionError and no report is written.
GenerateComparisonReport ==
  /\ Running /\ step = Len(plan) + 1
  /\ report' = CASE results = <<>>                                  -> "none"
                 [] HasMode("hardware") /\ HasMode("software")
                      /\ SwPrecisionZero                            -> "ZeroDivisionError"
                 [] OTHER                                           -> "written"
  /\ plan' = <<>> /\ step' = 0 /\ phase' = "apply"
  /\ UNCHANGED <<qdisc, runs, results, privileged>>

\* Ctrl-C during the suite: KeyboardInterrupt escapes every handler and
\* ends the process; results are lost and the qdisc stays as it is.
Interrupt ==
  /\ Running
  /\ plan' = <<>> /\ step' = 0 /\ phase' = "apply"
  /\ results' = <<>>
  /\ UNCHANGED <<qdisc, runs, report, privileged>>

Init ==
  /\ qdisc = None
  /\ runs = 0
  /\ plan = <<>>
  /\ step = 0
  /\ phase = "apply"
  /\ results = <<>>
  /\ report = None
  /\ privileged = FALSE

Next ==
  \/ Start
  \/ Measure
  \/ ApplyCondition
  \/ MeasureCondition
  \/ CleanupCondition
  \/ GenerateComparisonReport
  \/ Interrupt

Spec == Init /\ [][Next]_vars

=============================================================================
