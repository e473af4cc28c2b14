\* A triangle, two announcements: overlapping and repeated rounds, compared by the
\* airtime metric, while the links of two nodes are measured again and again.
SPECIFICATION Spec
CONSTANTS
    R = R
    A = A
    B = B
    C = C
    junk = junk
    Node <- MCThree
    Root = R
    Link <- Triangle3
    HelloLink <- HelloAR
    Garbage = {junk}
    Alm = {0, 1}
    metric = 2
    RANN_TTL = 3
    PREQ_TTL = 4
    MaxRann = 2
    RT_SIZE = 5
INVARIANTS
    TableFits
    PendingReply
CHECK_DEADLOCK FALSE
