SPECIFICATION SharedSpec
CONSTANTS
    c1 = c1
    c2 = c2
    c3 = c3
    p1 = p1
    p2 = p2
    Conn = {c1, c2, c3}
    Peer = {p1, p2}
    PeerOf <- MCPeerOf
    Stream = {}
    ConnOf <- MCConnOf
    MaxPerPeer = 2
    MaxTotal = 2
    s1 = s1
    s2 = s2
    Start = {s1, s2}
    Label = {l1, l2}
    Endpoint = {e1}
    NoEndpoint = NoEndpoint
    Plans <- MCPlans
    MaxTask = 2
    MaxGen = 2
INVARIANTS
    AdmissionWithinCaps
    EventBalance
    NoOverlap
    TrackedAreCurrent
\* The serve cycle ends with every handler returned, a start with its session closed.
CHECK_DEADLOCK FALSE
