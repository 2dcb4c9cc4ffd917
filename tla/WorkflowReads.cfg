SPECIFICATION ReadsSpec
CONSTANTS
  Editors = {e1, e2}
  Runs = {a}
  MaxSteps = 2
  First = First
  Absent = Absent
  Workflow = Workflow
CHECK_DEADLOCK FALSE
SYMMETRY Symmetry
INVARIANTS
  ReadsTypeOK
  StepsWhole
  RunsHaveWorkflow
  CompletedWhole
  StepsNotOlder
  CompletedShown
PROPERTIES
  KeepsDefinition
