SPECIFICATION Spec
CONSTANTS
    Num = {1}
    Other = {k1, k2, k3, k4}
    Hash <- MCHash
    Value = {x}
    NIL = NIL
    k1 = k1
    k2 = k2
    k3 = k3
    k4 = k4
    x = x
    y = y
    MaxArray = 1
    MaxHash = 3
VIEW Table
INVARIANTS TypeOK MovesGoDown ChainsFindEveryEntry CollidersAreAtHome TraversalFindsItsKey
PROPERTIES TraversalIsComplete
