SPECIFICATION MCSpec
CONSTANTS
    s1 = s1
    s2 = s2
    Start = {s1, s2}
    Label = {l1}
    Endpoint = {e1}
    NoEndpoint = NoEndpoint
    Plans <- MCPlans
    MaxTask = 2
    MaxGen = 2
    TxtBudget = 8
    Source = {"me", "other"}
    Instance = {"i1", "i2", "other"}
    Node = {"n1", "n2"}
    Poller = {"p1", "p2"}
    Closer = {"c1", "c2"}
    OtherNode = "n1"
    OtherAddr <- MCOther
    MaxChanges = 2
    Setups <- MCMobile
PROPERTY
    MobileFollowsEndpoint
CHECK_DEADLOCK FALSE
