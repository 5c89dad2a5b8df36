SPECIFICATION Spec
CONSTANTS
    Cap = 2
    NoPositions = NoPositions
    Records <- BusyRecords
    FirstHead <- BusyFirstHead
    LastHead <- BusyLastHead
    Limit = 1
    BufferCap = 1
    Screenful = 1
    FlakyListing = TRUE
    NoOffset = NoOffset
    NoRow = NoRow
    NoRequest = NoRequest
    NoHeads = NoHeads
    NoDirection = NoDirection
INVARIANTS
    AttachedIsCaughtUp
CHECK_DEADLOCK FALSE
