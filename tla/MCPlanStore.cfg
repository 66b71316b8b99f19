SPECIFICATION Spec
CONSTANTS
    k1 = k1
    k2 = k2
    k3 = k3
    c1 = c1
    w1 = w1
    w2 = w2
    Key <- MCKey
    Call <- MCCall
    Creator <- MCCreator
    Timeout <- MCTimeout
    Capacity = 2
    Margin = 1
    MaxTimeout = 1
    MaxTime = 6
    MaxPlans = 3
SYMMETRY Symmetry
INVARIANTS
    TypeOK
    StoreBounded
    TombstonesMatchPlans
    SpentOnce
    CoversApprovalWindow
PROPERTIES
    KeyHeldForItsWindow
    NoRevival
    RefusedForCause
CHECK_DEADLOCK FALSE
