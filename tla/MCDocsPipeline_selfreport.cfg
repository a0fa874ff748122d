CONSTANTS
  None = None
  Docs <- MCDocs
  DocOrder <- MCDocOrder
  Folder <- MCFolder
  ProhibitedTerms <- MCTerms
  HardwareEvidence <- MCEvidence
  DocStates <- MCDocStates
SPECIFICATION Spec
PROPERTY FixedDocsPass
