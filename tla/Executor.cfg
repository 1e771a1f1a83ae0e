SPECIFICATION Spec
CONSTANTS
    a = a
    b = b
    x = x
    y = y
    Root = Root
    Tasks = {a, b}
    Threads = {x, y}
    Spawners = {x}
    Sleepers = {b}
    Wakes <- Holding
    Priority <- Priorities
    SLICE <- Slices
    Capacity = 2
    Halt = "hlt"
INVARIANTS TasksExact NoWakeSleptThrough
PROPERTY Served
