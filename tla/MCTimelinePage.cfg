SPECIFICATION Spec
CONSTANTS
    Partitions <- MCPartitions
    Logs <- MCLogs
    StartPositions <- MCStartPositions
    Limits = {1, 2, 3}
    Budgets = {1, 3, 9}
    ChunkSpan = 2
    ProgressInterval = 2
    NoOffset = NoOffset
    NoCursor = NoCursor
INVARIANTS
    TypeOK
    PageExact
    NoOverlap
    BudgetIsHard
    EndIsTruthful
    CursorMoves
    DisplayKeepsOrder
PROPERTIES
    ProgressNeverDrops
    PageTerminates
CHECK_DEADLOCK FALSE
