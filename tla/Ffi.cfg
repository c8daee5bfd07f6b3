SPECIFICATION FfiSpec
CONSTANTS
    Adapter <- Adapters
    CommandAnswer <- AnswerOf
    q1 = q1
    q2 = q2
    Req = {q1, q2}
    MaxTable = 1
    MaxHandles = 2
    CompactAt = 2
    Ttl = 1
    VersionModulus = 16
    Touches = TRUE
    MaxInserts = 4
    Sess = {"a", "b", "c"}
    SCall = {"k1", "k2", "k3", "k4"}
    SessPlans <- MCSessPlans
    MaxSess = 2
    MaxStreams = 1
    Fetch = {"f1", "f2"}
    FetchPlans <- MCFetchPlans
    MaxEntries = 1
    Cycle = {1, 2}
INVARIANTS
    AnswerMatches
    NothingLeftBehind
    NoHalfStream
    EveryCycleControlled
PROPERTIES
    
    EveryRequestAnswered
    SessionCallsReturn
    CancelEndsFetch
    StopEndsCycle
\* Commands come to an end, and JavaScript need not issue more.
CHECK_DEADLOCK FALSE
