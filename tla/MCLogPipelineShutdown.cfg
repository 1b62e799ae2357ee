SPECIFICATION Spec
CONSTANTS
    e1 = e1
    e2 = e2
    c1 = c1
    c2 = c2
    Emitters = {e1}
    Closers = {c1}
    Buffer = 1
    MaxEvents = 2
INVARIANT EmitNeverPanics
CHECK_DEADLOCK FALSE
