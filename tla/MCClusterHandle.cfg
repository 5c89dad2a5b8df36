SPECIFICATION HandleSpec
CONSTANTS
    Callers = {a, b, c}
    Keys = {topics}
    MaxWait = 1
    Ttl = 1
    MaxVersion = 3
    Checkers = {d, e, f}
    RecoveryThreshold = 2
    MaxCount = 3
INVARIANTS
    OneOwner
    AnswerNotOlder
    ProbeIsExclusive
    OutageNotMasked
PROPERTIES
    NeverGoesBack
    EveryRequestAnswered
    WedgeHeals
