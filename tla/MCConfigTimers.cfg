\* A root or a node, one reply slot, limits in the order they have in the code.
SPECIFICATION FairSpec
CONSTANTS
    Slot = {s1}
    Interval <- Seconds
    ConfigTimeInit = 267
    HelloFactor = 1
    SchFactor = 2
    ScanLimit = 4
    MaxStimulus = 3
INVARIANTS
    TypeOK
    OnTime
    ReplyHasTimer
    QuietAfterEnd
    NullOnlyAtStart
PROPERTIES
    HelloGoesOn
    ConfigEnds
\* Menu 0 and a missing handler stop the node.
CHECK_DEADLOCK FALSE
