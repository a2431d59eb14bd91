SPECIFICATION Spec
CONSTANTS
    Subs = {s1, s2}
    Handlers = {h1}
    InOrder = FALSE
    Portal = FALSE
    Plans = TRUE
    MaxEvents = 4
    MaxErrors = 1
    MaxDrops = 1
    None = None
SYMMETRY Symmetry
INVARIANTS
    PaidTierFromPaddle
CHECK_DEADLOCK FALSE
