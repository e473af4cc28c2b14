\* A line of four: the PREP reaches A with two addresses in its list.
SPECIFICATION Spec
CONSTANTS
    R = R
    A = A
    B = B
    C = C
    junk = junk
    Node <- MCNode
    Root = R
    Link <- Line
    HelloLink = {}
    Garbage = {junk, C}
    Alm = {0}
    metric = 1
    RANN_TTL = 3
    PREQ_TTL = 4
    MaxRann = 1
    RT_SIZE = 6
INVARIANTS
    RouteToSender
CHECK_DEADLOCK FALSE
