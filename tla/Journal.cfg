SPECIFICATION Spec
CONSTANTS
    Capacity = 3
    TreeBlocks = 12
    LogSizes = {2, 3}
    FileUnits = 2
    MaxOps = 3
    Refused = {0, 2, 4, 6}
    MaxFaults = 1
INVARIANTS RecoveryComplete BothGenerationsDurable ContentsExact
CONSTRAINT Intact
