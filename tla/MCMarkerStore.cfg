\* Every order of up to six seconds of calls on a store of two markers.
CONSTANTS
    k1 = k1
    k2 = k2
    k3 = k3
    NoId = NoId
    Key <- MCKey
    Capacity = 2
    TTL = 2
    MaxTime = 6
SPECIFICATION Spec
SYMMETRY Symmetry
INVARIANTS
    TypeOK
    NoFailOpen
    MarkersBounded
    NoStaleMarker
