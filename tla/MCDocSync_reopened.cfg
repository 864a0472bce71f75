SPECIFICATION Spec
CONSTANTS
    b1 = b1
    b2 = b2
    u1 = u1
    u2 = u2
    p1 = p1
    p2 = p2
    h1 = h1
    l1 = l1
    HighSurrogates = {h1}
    LowSurrogates = {l1}
    Scenarios <- ReopeningOnly
    MaxRebasedOffers = 3
    MaxApplyAttempts = 3
CHECK_DEADLOCK FALSE
INVARIANTS
    RoomHoldsNothingTwice
