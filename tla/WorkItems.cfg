\* Two commands at a time on one work item, killed anywhere, repeated.
CONSTANTS
  Proc = {p1, p2}
  Item = {i1}
  PR = {pr1}
  Record = {r1}
  Asked = {"running", "completed"}
  MaxCommands = 3
SPECIFICATION Spec
SYMMETRY Symmetry
INVARIANTS ItemsStayReadable EditsSurvive EvidenceHasRecord
PROPERTIES ArchivedWhenDone ManifestAfterCompletion
CHECK_DEADLOCK FALSE
