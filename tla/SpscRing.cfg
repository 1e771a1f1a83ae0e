CONSTANTS
  N = 3
  Wrap = 6
  Values = {v1, v2}
  Uninit = uninit
SPECIFICATION Spec
INVARIANTS EntriesInitialised NoSlotRace
PROPERTY ImplementsFifo
CHECK_DEADLOCK FALSE
