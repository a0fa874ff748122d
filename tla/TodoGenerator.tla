--------------------------- MODULE TodoGenerator ---------------------------
(***************************************************************************)
(* scripts/generate_todo.py: TODO items read from docs/compliance_report.md *)
(* with two regular expressions, four fixed hardware items, and the        *)
(* Markdown list written to docs/TODO_AUTO_GENERATED.md.  Report lines are  *)
(* the records of DocumentationChecker.                                    *)
(***************************************************************************)
EXTENDS DocumentationChecker

Priorities == <<"P0", "P1", "P2", "P3">>

Todo(priority, type, msg) == [priority |-> priority, type |-> type, msg |-> msg]

\* re.search(r'## <title>.*?(?=##|$)', content, re.DOTALL) and then
\* re.findall(r'- <keyword> (.*)', section): the section starts at the
\* first "## <title>" heading (no emoji between "##" and the title) and
\* ends before the next "##"; its items are "- <keyword> ..." lines.
SectionItems(lines, title, keyword) ==
  LET starts == {i \in DOMAIN lines : lines[i].mark = "##" /\ lines[i].tag = ""
                                      /\ lines[i].label = title}
      i      == CHOOSE k \in starts : \A j \in starts : k <= j
      ends   == {j \in i + 1..Len(lines) : lines[j].mark = "##"}
      e      == IF ends = {} THEN Len(lines) + 1
                ELSE CHOOSE k \in ends : \A j \in ends : k <= j
  IN  IF starts = {} THEN <<>>
      ELSE SelectSeq(SubSeq(lines, i + 1, e - 1),
                     LAMBDA l : l.mark = "-" /\ l.tag = "" /\ l.label = keyword)

\* generate_todo_from_compliance: no file gives no items; "- ERROR:" items
\* under "## Critical Errors" become P0, "- WARNING:" items under
\* "## Warnings" become P1.
GenerateTodoFromCompliance(report) ==
  IF report = None THEN <<>>
  ELSE LET crit == SectionItems(report, "Critical Errors", "ERROR:")
           warn == SectionItems(report, "Warnings", "WARNING:")
       IN  [k \in DOMAIN crit |-> Todo("P0", "Critical", crit[k].msg)]
           \o [k \in DOMAIN warn |-> Todo("P1", "Warning", warn[k].msg)]

\* generate_hardware_todos: i210 and i219 on Windows 10 and 11, each
\* "Test Intel <nic> NIC on Windows <os> - clock synchronization".
GenerateHardwareTodos ==
  [k \in 1..4 |-> Todo("P0", "Hardware",
                       [nic |-> IF k <= 2 THEN "Intel i210" ELSE "Intel i219",
                        os  |-> IF k % 2 = 1 THEN 10 ELSE 11])]

\* The phrases of a TODO item's description "Fix: <message>" or "Test ...".
TermsIn(t)    == IF t.type = "Critical" THEN {t.msg.term} ELSE {}
EvidenceIn(t) == IF t.type = "Hardware"
                 THEN {t.msg.nic, "clock synchronization"} \cap HardwareEvidence
                 ELSE {}

\* generate_todo_markdown, as a file the checker later reads: the items
\* grouped under the four priorities (others are dropped), each printed
\* with its description.
GenerateTodoMarkdown(todos) ==
  LET listed == SelectSeq(todos, LAMBDA t : t.priority \in {Priorities[k] : k \in 1..4})
  IN  [terms    |-> UNION {TermsIn(listed[k]) : k \in DOMAIN listed},
       evidence |-> UNION {EvidenceIn(listed[k]) : k \in DOMAIN listed},
       utf8 |-> TRUE, name_ok |-> TRUE, missing |-> 0, fresh |-> TRUE, links |-> {}]

=============================================================================
