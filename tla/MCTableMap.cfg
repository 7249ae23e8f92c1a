SPECIFICATION Spec
CONSTANTS
    Num = {1, 2, 3, 4}
    Other = {k1}
    Hash <- MCHash
    Value = {x, y}
    NIL = NIL
    k1 = k1
    k2 = k2
    k3 = k3
    k4 = k4
    x = x
    y = y
    MaxArray = 4
    MaxHash = 1
SYMMETRY Symmetry
VIEW Table
INVARIANTS NoNestedRehash BoundaryInArray LengthIsBoundary
PROPERTIES ImplementsMap
