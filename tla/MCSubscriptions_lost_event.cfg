SPECIFICATION Spec
CONSTANTS
    Subs = {s1}
    Handlers = {h1}
    InOrder = TRUE
    Portal = FALSE
    Plans = FALSE
    MaxEvents = 2
    MaxErrors = 1
    MaxDrops = 0
    None = None
INVARIANT AnsweredMeansApplied
CHECK_DEADLOCK FALSE
