SPECIFICATION Spec
CONSTANTS
    a = a
    b = b
    c = c
    x = x
    y = y
    highA = highA
    highB = highB
    lowA = lowA
    lowB = lowB
    HighSurrogates = {highA, highB}
    LowSurrogates = {lowA, lowB}
    Scopes <- BothScopes
    Fresh = {x, y}
CHECK_DEADLOCK FALSE
INVARIANTS
    DiffIsRight
    RebaseKeepsBoth
