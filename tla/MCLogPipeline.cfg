SPECIFICATION FairSpec
CONSTANTS
    e1 = e1
    e2 = e2
    c1 = c1
    c2 = c2
    Emitters = {e1, e2}
    Closers = {c1, c2}
    Buffer = 1
    MaxEvents = 3
INVARIANTS
    TypeOK
    Conservation
    StatsAddUp
    ClosedOnce
PROPERTIES
    EmitNeverBlocks
    DrainsAfterClose
CHECK_DEADLOCK FALSE
