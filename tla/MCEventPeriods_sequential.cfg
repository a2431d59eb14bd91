SPECIFICATION Spec
CONSTANTS
    Periods = {p1, p2, p3}
    Requests = {r1}
    LastDay = 3
    Tomorrow = 2
    Open = Open
    NoPeriod = NoPeriod
SYMMETRY Symmetry
INVARIANTS
    NoClosedOverlap
PROPERTIES
    ImplementsCalendar
CHECK_DEADLOCK FALSE
