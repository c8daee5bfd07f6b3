CONSTANTS
    c1 = c1
    c2 = c2
    Call = {c1}
    Capacity = 1
    MaxBytes = 2
    MaxFrames = 3
SPECIFICATION BodySpec
CHECK_DEADLOCK FALSE
INVARIANT CancelReachesReads
