---------------------------- MODULE DocsPipeline ----------------------------
(***************************************************************************)
(* The documentation tooling as it is run on one repository:               *)
(* check_documentation_compliance.py, with or without                      *)
(* --output docs/compliance_report.md (the file generate_todo.py reads),   *)
(* generate_todo.py, and authors editing the documents in between.  Both   *)
(* scripts write into docs/, which the checker scans with                  *)
(* docs_path.rglob("*.md"), so a later check also reads their output.      *)
(***************************************************************************)
EXTENDS TodoGenerator

LOCAL S == INSTANCE SequencesExt

CONSTANT DocStates   \* the contents a document may have

ASSUME DocStates \subseteq DocRec

VARIABLES
  docs,         \* doc -> its current content
  report_file,  \* lines of docs/compliance_report.md, or None
  todo_file,    \* TODO items of docs/TODO_AUTO_GENERATED.md, or None
  errors,       \* checker.errors of the last check
  warnings,     \* checker.warnings of the last check
  exit_code     \* exit status of the last check, or None

vars == <<docs, report_file, todo_file, errors, warnings, exit_code>>

\* The files under docs/ in rglob order: the two generated files in docs/
\* itself when they exist, then the documents.
Order ==
  (IF report_file = None THEN <<>> ELSE <<ReportFile>>)
  \o (IF todo_file = None THEN <<>> ELSE <<TodoFile>>) \o DocOrder

Content ==
  [f \in S!Range(Order) |->
     CASE f \in Docs      -> docs[f]
       [] f = ReportFile  -> ReportContent(report_file)
       [] f = TodoFile    -> GenerateTodoMarkdown(todo_file)]

Outputs == {"stdout", ReportFile}

\* check_documentation_compliance.main: all checks, the report to stdout
\* or to --output, and the exit code.
RunChecker(output, fail_on_warnings) ==
  LET r == RunAllChecks(Content, Order) IN
  /\ errors' = r.errors
  /\ warnings' = r.warnings
  /\ report_file' = IF output = ReportFile
                    THEN GenerateComplianceReport(r.errors, r.warnings)
                    ELSE report_file
  /\ exit_code' = ExitCode(r.errors, r.warnings, fail_on_warnings)
  /\ UNCHANGED <<docs, todo_file>>

\* generate_todo.main: items from docs/compliance_report.md, then the
\* hardware items, written to docs/TODO_AUTO_GENERATED.md.
RunGenerator ==
  /\ todo_file' = GenerateTodoFromCompliance(report_file) \o GenerateHardwareTodos
  /\ UNCHANGED <<docs, report_file, errors, warnings, exit_code>>

\* An author edits a document.
EditDoc(d, s) ==
  /\ docs[d] # s
  /\ docs' = [docs EXCEPT ![d] = s]
  /\ UNCHANGED <<report_file, todo_file, errors, warnings, exit_code>>

Init ==
  /\ docs \in [Docs -> DocStates]
  /\ report_file = None
  /\ todo_file = None
  /\ errors = <<>>
  /\ warnings = <<>>
  /\ exit_code = None

RunCheckerStep == \E o \in Outputs, w \in BOOLEAN : RunChecker(o, w)

Next ==
  \/ RunCheckerStep
  \/ RunGenerator
  \/ \E d \in Docs, s \in DocStates : EditDoc(d, s)

Spec == Init /\ [][Next]_vars

=============================================================================
