\* Two handlers, two timers and a reset that leaves three of them, a clearing of the
\* ring: every way the threads can interleave up to a conflict.
SPECIFICATION FairSpec
CONSTANTS
    MAX_QUEUE = 2
    reply = reply
    report = report
    A = A
    B = B
    rx = rx
    timer = timer
    Frame <- MCFrame
    NoFrame = NoFrame
    Handler = {rx, timer}
    Menu = menu
    First <- MCFirst
    Hop <- MCHop
    Report = {report}
    Bcast = Bcast
    Garbage = garbage
    Lost = lost
    MaxTimer = 4
    MaxClear = 1
    Stop = TRUE
INVARIANT UnicastToOwnOrLater
PROPERTIES
    PathIsFifo
    Drains
CHECK_DEADLOCK FALSE
