\* A root, two relays in range of each other and a node behind one of them; one
\* announcement.  Six slots are more than a table fills.
SPECIFICATION Spec
CONSTANTS
    R = R
    A = A
    B = B
    C = C
    junk = junk
    Node <- MCNode
    Root = R
    Link <- Paw
    HelloLink = {}
    Garbage = {junk, B}
    Alm = {0}
    metric = 1
    RANN_TTL = 3
    PREQ_TTL = 4
    MaxRann = 1
    RT_SIZE = 6
INVARIANTS
    TypeOK
    PreqPathsReal
    UplinkChain
    DownlinkToNeighbor
CHECK_DEADLOCK FALSE
