\* Two nodes; two commands of any kind, or restarts of the root, at any time.
SPECIFICATION FairSpec
CONSTANTS
    Node = {n1, n2}
    Metric <- Metrics
    Radio <- Radios
    Period <- Periods
    Command <- AnyCommand
    MaxCommand = 2
INVARIANTS
    TypeOK
    RadioPending
PROPERTIES
    ConfigReaches
    ResetReachesUnlessSpent
    RebootServedUnlessReset
