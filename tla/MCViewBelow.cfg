SPECIFICATION Spec
CONSTANTS
    Cap = 2
    NoPositions = NoPositions
    Records <- ColdRecords
    FirstHead <- ColdFirstHead
    LastHead <- ColdLastHead
    Limit = 1
    BufferCap = 1
    Screenful = 1
    FlakyListing = FALSE
    NoOffset = NoOffset
    NoRow = NoRow
    NoRequest = NoRequest
    NoHeads = NoHeads
    NoDirection = NoDirection
INVARIANTS
    BelowIsReachable
CHECK_DEADLOCK FALSE
