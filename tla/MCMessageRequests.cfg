SPECIFICATION MessageSpec
CONSTANTS
    ChannelSize = 2
    StallTimeout = 2
    MaxPolled = 5
    Topics <- MCTopics
    Queries <- MCQueries
    Targets <- MCTargets
    Scans <- MCScans
    TopOffset = 7
    NoTime <- MCNoTime
    Decoders = {a, b}
    Ids = {1}
    NegativeTtl = 2
    NoId = 0
    MaxVersion = 3
    Newest = 0
    Callers = {x, y}
    Keys = {k}
    MaxWait = 1
    Interval = 1
    HistoryHorizon = 1
    MaxTotal = 1
    LastTick = 2
INVARIANTS
    TypeOK
    StreamIsWhole
    StallIsReal
    JumpIsExact
    FetchIsPrefix
    DecodingIsTrue
    RatesArePossible
PROPERTIES
    TailEndsKnown
    OutageIsForgotten
    PagesAreTrue
CHECK_DEADLOCK FALSE
