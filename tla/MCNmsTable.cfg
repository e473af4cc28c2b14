\* The first device of mac_list can take the root's row.
SPECIFICATION Spec
CONSTANTS
    R = R
    A = A
    B = B
    T = T
    X = X
    MacList <- MCMacList
    Root = R
    Path <- MCPath
    Neighbor <- MCNeighbor
    Channel = {172, 174}
INVARIANTS
    TypeOK
    PathsOnMap
PROPERTIES
    ImplementsTopology
    ChannelChangeEmpties
