SPECIFICATION Spec
CONSTANTS
    Cap = 2
    NoPositions = NoPositions
    Records <- BusyRecords
    FirstHead <- YoungFirstHead
    LastHead <- BusyLastHead
    Limit = 1
    BufferCap = 1
    Screenful = 1
    FlakyListing = FALSE
    NoOffset = NoOffset
    NoRow = NoRow
    NoRequest = NoRequest
    NoHeads = NoHeads
    NoDirection = NoDirection
INVARIANTS
    NoRowSkipped
CHECK_DEADLOCK FALSE
