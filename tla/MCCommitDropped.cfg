SPECIFICATION ClusterSpec
CONSTANTS
    a = a
    b = b
    messages = messages
    Callers = {a, b}
    Keys = {k}
    MaxWait = 1
    Askers = {a, b, messages}
    TtlOf <- MCTtlOf
    Partitions = {p}
    Horizon = 2
    MaxOffset = 1
    MaxTime = 2
    NoOffset = NoOffset
    PageTtl = 2
    NoPage = NoPage
    NoEntry = NoEntry
    GroupTtl = 1
    Topics = {"here"}
    Here = "here"
    Memberships <- MCMemberships
    GroupsTtl = 1
    LiveTtl = 1
    IdleTtl = 2
    DetailTtl = 1
    LastMoment = 3
    MaxRead = 1
    MaxChanges = 1
    Never = Never
    Requests = {q1, q2}
    Elements = {e1, e2}
    MaxSwaps = 1
SYMMETRY TabSymmetry
INVARIANT AbsentHasNone
CHECK_DEADLOCK FALSE
