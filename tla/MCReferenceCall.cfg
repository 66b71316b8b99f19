\* Two calls of one key at a time, on either path; the key is freed and planned for
\* again, and every call is through with a plan before its tombstone is due.
CONSTANTS
    k1 = k1
    k2 = k2
    w1 = w1
    w2 = w2
    a1 = a1
    a2 = a2
    Plain = Plain
    Key = {k1}
    Creator = {w1, w2}
    Args = {a1, a2}
    Host = {"agent", "dispatcher"}
    Call <- MCCall
    Timeout = {1}
    Capacity = 1
    Margin = 1
    MaxTimeout = 1
    MaxTime = 3
    MaxPlans = 2
    MaxVersion = 2
SPECIFICATION CallSpec
CONSTRAINTS
    CallsInTime
    OnePath
SYMMETRY Symmetry
\* The bounds on the clock, the plans and the file stop the system.
CHECK_DEADLOCK FALSE
INVARIANTS
    ClosedIsDead
    LocksNested
PROPERTIES
    ImplementsUse
