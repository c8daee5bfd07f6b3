SPECIFICATION AdaptersSpec
CONSTANTS
    Adapter <- Adapters
    CommandAnswer <- AnswerOf
    DReq = {"a", "b"}
    Size <- MCSize
    Capacity = 1
    MaxCycles = 2
    BCall = {"b1", "b2", "b3"}
    BufPlans <- MCBufPlans
    MaxOverflow = 1
    Hint = 1
    MaxChunkBuf = 2
    Sub = {"s1", "s2"}
    Ids = {1, 2}
    MaxPaths = 1
    DRes = {"pb", "pa", "gb", "ga"}
    KindOf <- MCKindOf
    Endp = {"e1", "e2", "e3"}
    KeyOf <- MCKeyOf
    First = "e1"
PROPERTY
    RetryGetsChunk
CHECK_DEADLOCK FALSE
