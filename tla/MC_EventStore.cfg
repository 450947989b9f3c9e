SPECIFICATION Spec
CONSTANTS
    Senders = {s1, s2}
    Browsers = {b1}
    Types = {"cpu", "unknown"}
    Unknown = "unknown"
    NoType = NoType
    Posts <- MCPosts
    NotAnObject = NotAnObject
    DemoBatch <- MCDemoBatch
    Limits <- MCLimits
    MaxLimit = 2
    max_events = 2
    MaxClock = 1
    OwnStamp = OwnStamp
    None = None
INVARIANTS
    TypeOK
    StoreConsistent
    BatchesWhole
    AnswersHonest
    LatestCoversCount
    RealTimeOrder
PROPERTY
    EveryRequestEnds
