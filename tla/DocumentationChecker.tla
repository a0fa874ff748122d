------------------------ MODULE DocumentationChecker ------------------------
(***************************************************************************)
(* scripts/check_documentation_compliance.py: the five checks of           *)
(* DocumentationChecker over the Markdown files under docs/, the report    *)
(* of generate_compliance_report and the exit code of main().              *)
(*                                                                         *)
(* Data abstraction.  A Markdown file is represented by what the checks   *)
(* look for in it (DocRec): the prohibited terms and hardware evidence     *)
(* phrases its text contains, whether it decodes as UTF-8, whether its    *)
(* name matches its folder's pattern, how many of its folder's required    *)
(* sections are absent, whether it was modified within 45 days, and its   *)
(* links, each resolved to the file it names.  A message is a record of    *)
(* what it mentions (the term and the file); a report line is a record of  *)
(* its Markdown marker, its emoji, its label and its message.              *)
(***************************************************************************)
EXTENDS Integers, Sequences, FiniteSets

LOCAL S == INSTANCE SequencesExt

CONSTANTS
  None,              \* Python's None
  Docs,              \* the hand-written Markdown files under docs/
  DocOrder,          \* the order in which Path.rglob yields them
  Folder,            \* doc -> the folder of docs/ it lies in
  ProhibitedTerms,   \* self.prohibited_terms, in order
  HardwareEvidence   \* self.hardware_evidence_required

Folders == {"root", "completed", "status", "work-in-progress", "archive"}

ASSUME /\ S!Range(DocOrder) = Docs /\ Len(DocOrder) = Cardinality(Docs)
       /\ Folder \in [Docs -> Folders]

\* The files the scripts write into docs/ themselves.
ReportFile == "docs/compliance_report.md"
TodoFile   == "docs/TODO_AUTO_GENERATED.md"

\* Where a link points once resolved: a document, a path that does not
\* exist, or an http(s) URL.  anchor: the URL ends in #section.
LinkRec == [to : Docs \cup {"missing", "external"}, anchor : BOOLEAN]

DocRec == [terms : SUBSET S!Range(ProhibitedTerms), evidence : SUBSET HardwareEvidence,
           utf8 : BOOLEAN, name_ok : BOOLEAN, missing : 0..3, fresh : BOOLEAN,
           links : SUBSET LinkRec]

FolderOf(f) == IF f \in Docs THEN Folder[f] ELSE "root"

\* `for x in seq:` appending F(x)'s messages to a list, in order.
ForEach(seq, F(_)) == S!FlattenSeq([i \in DOMAIN seq |-> F(seq[i])])

\* The files of one folder, in rglob order.
FilesIn(order, fo) == SelectSeq(order, LAMBDA f : FolderOf(f) = fo)

Warn(kind, f) == [kind |-> kind, file |-> f]

-----------------------------------------------------------------------------
(* The checks; each returns the messages it appends                        *)
-----------------------------------------------------------------------------

\* check_file_naming: a file whose name misses its folder's pattern.
CheckFileNaming(content, order) ==
  ForEach(<<"completed", "status", "work-in-progress", "archive">>,
    LAMBDA fo : ForEach(FilesIn(order, fo),
      LAMBDA f : IF content[f].name_ok THEN <<>> ELSE <<Warn("naming", f)>>))

\* check_prohibited_terms: one error per prohibited term in a file with no
\* evidence phrase; a file that cannot be read (UnicodeDecodeError) is a
\* warning and its terms are not looked at.
CheckProhibitedTerms(content, order) ==
  [errors |-> ForEach(order, LAMBDA f :
      IF ~content[f].utf8 THEN <<>>
      ELSE ForEach(ProhibitedTerms, LAMBDA t :
             IF t \in content[f].terms /\ content[f].evidence = {}
             THEN <<[term |-> t, file |-> f]>> ELSE <<>>)),
   warnings |-> ForEach(order, LAMBDA f :
      IF content[f].utf8 THEN <<>> ELSE <<Warn("unreadable", f)>>)]

\* check_required_sections: one warning per absent section.
CheckRequiredSections(content, order) ==
  ForEach(<<"completed", "status", "work-in-progress">>,
    LAMBDA fo : ForEach(FilesIn(order, fo),
      LAMBDA f : IF ~content[f].utf8 THEN <<Warn("unreadable", f)>>
                 ELSE [i \in 1..content[f].missing |-> Warn("section", f)]))

\* check_status_freshness: a status file older than 45 days.
CheckStatusFreshness(content, order) ==
  ForEach(FilesIn(order, "status"),
    LAMBDA f : IF content[f].fresh THEN <<>> ELSE <<Warn("stale", f)>>)

\* (md_file.parent / link_url).exists(): the URL, #anchor included, must
\* name an existing file.
LinkExists(l) == l.to \in Docs /\ ~l.anchor

\* check_cross_references: one warning per internal link that does not
\* resolve; external links are skipped.
CheckCrossReferences(content, order) ==
  ForEach(order, LAMBDA f :
    IF ~content[f].utf8 THEN <<Warn("unreadable", f)>>
    ELSE LET broken == {l \in content[f].links :
                          l.to # "external" /\ ~LinkExists(l)}
         IN  [i \in 1..Cardinality(broken) |-> Warn("broken", f)])

\* run_all_checks: the five checks in order on one fresh checker.
RunAllChecks(content, order) ==
  LET p == CheckProhibitedTerms(content, order) IN
  [errors   |-> p.errors,
   warnings |-> CheckFileNaming(content, order) \o p.warnings
                \o CheckRequiredSections(content, order)
                \o CheckStatusFreshness(content, order)
                \o CheckCrossReferences(content, order)]

-----------------------------------------------------------------------------
(* The report and the exit code                                            *)
-----------------------------------------------------------------------------

Line(mark, tag, label, msg) == [mark |-> mark, tag |-> tag, label |-> label, msg |-> msg]
Blank == Line("", "", "", "")

\* generate_compliance_report: "## <emoji> Critical Errors (Must Fix)" over
\* "- <cross> <error>" items, "## <emoji> Warnings (Should Fix)" over
\* "- <warning sign> <warning>" items, and a summary of counts.
GenerateComplianceReport(errors, warnings) ==
  <<Line("#", "", "OpenAvnu Documentation Compliance Report", ""),
    Line("text", "", "Generated:", ""), Blank>>
  \o (IF errors = <<>> THEN <<>>
      ELSE <<Line("##", "emoji", "Critical Errors", "")>>
           \o [i \in DOMAIN errors |-> Line("-", "cross", "", errors[i])] \o <<Blank>>)
  \o (IF warnings = <<>> THEN <<>>
      ELSE <<Line("##", "emoji", "Warnings", "")>>
           \o [i \in DOMAIN warnings |-> Line("-", "warn", "", warnings[i])] \o <<Blank>>)
  \o (IF errors = <<>> /\ warnings = <<>>
      THEN <<Line("##", "emoji", "All Checks Passed", ""),
             Line("text", "", "Documentation is compliant with governance rules.", "")>>
      ELSE <<>>)
  \o <<Blank, Line("##", "emoji", "Summary", ""),
       Line("-", "", "Critical Errors:", Len(errors)),
       Line("-", "", "Warnings:", Len(warnings)),
       Line("-", "", "Total Issues:", Len(errors) + Len(warnings))>>

\* What a later run finds in the written report: each error message names
\* its prohibited term ("Prohibited term 'X' found ..."); no message holds
\* an evidence phrase, a link, or a byte that is not UTF-8.
ReportContent(lines) ==
  [terms |-> {lines[i].msg.term : i \in {j \in DOMAIN lines : lines[j].tag = "cross"}},
   evidence |-> {}, utf8 |-> TRUE, name_ok |-> TRUE, missing |-> 0,
   fresh |-> TRUE, links |-> {}]

\* Mutation of ExitCode: sys.exit(len(errors)), the number of errors.
ExitCodeErrorCount(errors, warnings, fail_on_warnings) ==
  CASE errors # <<>>                         -> Len(errors)
    [] fail_on_warnings /\ warnings # <<>>   -> 2
    [] OTHER                                 -> 0

\* main: exit 1 on a critical error, 2 on a warning under
\* --fail-on-warnings, else 0.
ExitCode(errors, warnings, fail_on_warnings) ==
  CASE errors # <<>>                         -> 1
    [] fail_on_warnings /\ warnings # <<>>   -> 2
    [] OTHER                                 -> 0

=============================================================================
