\* A ring of 4 slots instead of 20: wrap-around, full ring and the overrun of
\* a ring that nothing has left yet all happen with 5 frames.
SPECIFICATION Spec
CONSTANTS
    MAX_QUEUE = 4
    f1 = f1
    f2 = f2
    f3 = f3
    Frame <- MCFrame
    NoFrame = NoFrame
INVARIANTS
    TypeOK
    WaitingSlotsFilled
PROPERTY ImplementsFifo
