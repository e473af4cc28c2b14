\* Three periods instead of ten, a clock that is set once.
SPECIFICATION MetricSpec
CONSTANTS
    N = 3
    Full = 3
    AckLimit = 1
    NmsInterval = 2
    Value = {0, 2}
    Sum = {4}
    MaxStep = 1
PROPERTIES
    SettledExact
    PerfectIsFull
    ShownFades
