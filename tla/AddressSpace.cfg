CONSTANTS
  Cpus = {c1, c2}
  Boot = c1
  Classes <- OneArena
  Size <- MCSize
  Slots <- MCSlots
  MaxEpoch = 4
SPECIFICATION Spec
INVARIANTS HolesExact NoStaleTranslation
PROPERTY ImplementsQuarantine
CHECK_DEADLOCK FALSE
