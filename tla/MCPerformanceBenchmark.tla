----------------------- MODULE MCPerformanceBenchmark -----------------------
(***************************************************************************)
(* The default network conditions of BenchmarkConfig, one load level and  *)
(* one comparison NIC, and two invocations of main(): enough for a        *)
(* Ctrl-C to leave a qdisc behind and for the next invocation to meet it. *)
(***************************************************************************)
EXTENDS PerformanceBenchmark

MCConditions == <<"normal", "congested", "lossy">>
MCLoadLevels == <<100>>
MCComparisonNics == <<"igb">>

\* _get_linux_network_condition_cmd: netem delay 10ms, netem loss 1%.
MCNetemOf == [c \in {"normal", "congested", "lossy"} |->
                CASE c = "congested" -> "delay"
                  [] c = "lossy"     -> "loss"
                  [] OTHER           -> None]

TypeOK ==
  /\ qdisc \in {None, "delay", "loss"}
  /\ runs \in 0..MaxRuns
  /\ step \in 0..Len(plan) + 1
  /\ phase \in {"apply", "measure", "cleanup"}
  /\ \A i \in DOMAIN results :
       /\ results[i].mode \in {"hardware", "software"}
       /\ results[i].netem \in {None, "delay", "loss"}
       /\ results[i].precision \in {"zero", "positive"}
  /\ privileged \in BOOLEAN
  /\ report \in {None, "none", "ZeroDivisionError", "written"}

\* The qdisc a test is meant to run under: its condition's netem, and no
\* netem for the baselines, load tests and comparisons.
IntendedNetem(t) == IF t.kind = "condition" THEN NetemOf[t.arg] ELSE None

(* A netem qdisc that an interrupted invocation left on eth0 is gone by   *)
(* the end of the next invocation run as root that completes its suite:  *)
(* the cleanup of run_network_condition_test runs after every condition, *)
(* 'normal' included, before any 'tc qdisc add' can fail on the leftover. *)
CompletedRunLeavesNoNetem ==
  [][GenerateComparisonReport /\ privileged => qdisc = None]_vars

(* Every result is measured under the network condition it is reported   *)
(* for: the baselines, load tests, comparisons and the 'normal'           *)
(* condition with no netem qdisc on eth0, a netem condition under its own *)
(* qdisc only.                                                            *)
ResultsMeasuredUnderIntendedNetem ==
  \A i \in DOMAIN results : results[i].netem = IntendedNetem(results[i].test)

=============================================================================
