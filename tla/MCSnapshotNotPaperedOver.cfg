SPECIFICATION HandleSpec
CONSTANTS
    Callers = {a, b, c}
    Keys = {topics}
    MaxWait = 1
    Ttl = 1
    MaxVersion = 2
    Checkers = {d, e, f}
    RecoveryThreshold = 2
    MaxCount = 3
PROPERTIES
    NotPaperedOver
