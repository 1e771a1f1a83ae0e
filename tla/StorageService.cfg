SPECIFICATION Spec
CONSTANTS
    HANDLES = 3
    RING = 2
    ROUNDS = 5
    DEADLINE = 1
    MaxGeneration = 4
    MaxEpochs = 2
    None = None
INVARIANTS HandlesLive AnswersMatched
CHECK_DEADLOCK FALSE
