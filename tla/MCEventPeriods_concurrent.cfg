SPECIFICATION Spec
CONSTANTS
    Periods = {p1, p2}
    Requests = {r1, r2}
    LastDay = 2
    Tomorrow = 2
    Open = Open
    NoPeriod = NoPeriod
SYMMETRY Symmetry
INVARIANTS
    TypeOK
    AtMostOneActive
    DatesOrdered
PROPERTIES
    OverlapOnlyFromStaleMerge
CHECK_DEADLOCK FALSE
