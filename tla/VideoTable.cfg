CONSTANTS
  Request = {q1, q2, q3}
  Name = {a, b}
  MaxList = 2
  MaxRow = 3
  MaxErrors = 1
SPECIFICATION Spec
SYMMETRY Symmetry
INVARIANTS NotAllFail UnlistedGone SettingsHold
CHECK_DEADLOCK FALSE
