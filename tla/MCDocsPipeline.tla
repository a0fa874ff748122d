--------------------------- MODULE MCDocsPipeline ---------------------------
(***************************************************************************)
(* Two documents: "status.md" in docs/status/ (where every check applies)  *)
(* and "guide.md" in docs/ itself.  A document may be clean, claim         *)
(* "PRODUCTION READY" with or without an evidence phrase, make that claim  *)
(* in a file that is not UTF-8, break the naming, section and freshness    *)
(* rules, or link to the other document with and without a #section.     *)
(***************************************************************************)
EXTENDS DocsPipeline

LOCAL S == INSTANCE SequencesExt

MCDocs     == {"status.md", "guide.md"}
MCDocOrder == <<"status.md", "guide.md">>
MCFolder   == [d \in MCDocs |-> IF d = "status.md" THEN "status" ELSE "root"]
MCTerms    == <<"PRODUCTION READY", "CERTIFIED">>
MCEvidence == {"Intel i210", "Intel i219", "hardware timestamping", "clock synchronization"}

Doc(terms, evidence, utf8, links) ==
  [terms |-> terms, evidence |-> evidence, utf8 |-> utf8, name_ok |-> TRUE,
   missing |-> 0, fresh |-> TRUE, links |-> links]

MCDocStates ==
  { Doc({}, {}, TRUE, {}),
    Doc({"PRODUCTION READY"}, {}, TRUE, {}),
    Doc({"PRODUCTION READY", "CERTIFIED"}, {"Intel i210"}, TRUE, {}),
    Doc({"CERTIFIED"}, {}, FALSE, {}),
    Doc({}, {}, TRUE, {[to |-> "guide.md", anchor |-> TRUE],
                       [to |-> "external", anchor |-> FALSE]}),
    [Doc({}, {}, TRUE, {[to |-> "guide.md", anchor |-> FALSE],
                        [to |-> "missing", anchor |-> FALSE]})
       EXCEPT !.name_ok = FALSE, !.missing = 1, !.fresh = FALSE] }

Files == Docs \cup {ReportFile, TodoFile}

Msg == [term : S!Range(ProhibitedTerms), file : Files]
     \cup [kind : {"naming", "unreadable", "section", "stale", "broken"}, file : Files]

TypeOK ==
  /\ docs \in [Docs -> DocStates]
  /\ report_file = None \/ \A i \in DOMAIN report_file :
        /\ report_file[i].mark \in {"#", "##", "-", "text", ""}
        /\ report_file[i].tag \in {"cross", "warn"} => report_file[i].msg \in Msg
  /\ todo_file = None \/ \A k \in DOMAIN todo_file :
        todo_file[k].priority \in {"P0", "P1"} /\ todo_file[k].type \in {"Critical", "Warning", "Hardware"}
  /\ errors \in Seq(Msg) /\ warnings \in Seq(Msg)
  /\ exit_code \in {None, 0, 1, 2}

\* No document claims a prohibited term without evidence.
Compliant == \A d \in Docs : docs[d].terms = {} \/ docs[d].evidence # {}

\* Once no document makes an unsupported claim, the checker does not fail
\* with exit code 1 ("Critical errors found").
FixedDocsPass == [][RunCheckerStep /\ Compliant => exit_code' # 1]_vars

=============================================================================
