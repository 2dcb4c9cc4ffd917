SPECIFICATION Spec
CONSTANTS
  Editors = {e1, e2}
  Runs = {a}
  MaxSteps = 2
  First = First
  Absent = Absent
CHECK_DEADLOCK FALSE
SYMMETRY Symmetry
PROPERTIES
  NoUpdateWhileActive
