\* Two overlapping reads, a channel of one chunk, a body over its limit at
\* the third frame.
CONSTANTS
    c1 = c1
    c2 = c2
    Call = {c1, c2}
    Capacity = 1
    MaxBytes = 2
    MaxFrames = 3
SPECIFICATION BodyFairSpec

CHECK_DEADLOCK FALSE
PROPERTY ImplementsStream
 
