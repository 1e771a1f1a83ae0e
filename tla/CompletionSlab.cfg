CONSTANTS
  Tasks = {t1, t2}
  Completers = {c1}
  Cancellers = {x1}
  N = 1
  MaxRequests = 2
  None = none
SPECIFICATION Spec
INVARIANTS CellsSerialize
PROPERTY ReadyWakes
CHECK_DEADLOCK FALSE
