SPECIFICATION OneTransactionSpec
CONSTANTS
    Capacity = 3
    TreeBlocks = 20
    LogSizes = {4}
    FileUnits = 3
    MaxOps = 5
    Refused = {}
    MaxFaults = 0
INVARIANT ReadsBack
CHECK_DEADLOCK FALSE
