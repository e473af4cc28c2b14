\* A root, two relays and a node behind them; one node dies.
SPECIFICATION FairSpec
CONSTANTS
    R = R
    A = A
    B = B
    C = C
    Node <- MCNode
    Root = R
    Link <- Kite
    Path <- KitePath
    Setup <- KiteSetup
    Garbage = junk
    MaxDead = 1
    RT_SIZE = 6
INVARIANT ChainAfterRepair
PROPERTY DeadHopForgotten
CHECK_DEADLOCK FALSE
