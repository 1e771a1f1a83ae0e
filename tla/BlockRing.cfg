SPECIFICATION Spec
CONSTANTS
    Blocks = {b1, b2, b3}
    Written = {b1}
    SLOTS = 2
    DEPTH = 3
    QueueDepth = 2
    None = None
INVARIANTS CacheFresh RequestsInOrder
PROPERTY OperationEnds
