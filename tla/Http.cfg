SPECIFICATION HttpSpec
CONSTANTS
    c1 = c1
    p1 = p1
    s1 = s1
    s2 = s2
    f1 = f1
    f2 = f2
    Conn = {c1}
    Peer = {p1}
    PeerOf <- MCPeerOf
    Stream = {s1, s2}
    ConnOf <- MCConnOf
    MaxPerPeer = 1
    MaxTotal = 1
    \* f1 is a GET with a timeout, f2 a PUT that uploads a streaming body.
    Caller = {f1, f2}
    MaxDials = 3
    Idempotent = {f1, f2}
    Empty = {f1}
    Timed = {f1}
INVARIANTS
    DrainedMeansDelivered
    AtMostOnceUnlessSafe
    BlameIsExact
PROPERTIES
    ShutdownTrueMeansQuiet
    CloseReachesHandlers
    StopCompletes
    GetAnswers
\* The serve cycle ends with every handler returned, a fetch with its answer.
CHECK_DEADLOCK FALSE
