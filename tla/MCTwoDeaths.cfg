\* A line: the node behind the relay dies, and then the root.
SPECIFICATION FairSpec
CONSTANTS
    R = R
    A = A
    B = B
    C = C
    Node <- MCThree
    Root = R
    Link <- Line
    Path <- LinePath
    Setup <- LineSetup
    Garbage = junk
    MaxDead = 2
    RT_SIZE = 6
PROPERTY DeadHopForgotten
CHECK_DEADLOCK FALSE
