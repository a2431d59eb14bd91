SPECIFICATION FairSpec
CONSTANTS
    Subs = {s1, s2}
    Handlers = {h1}
    InOrder = TRUE
    Portal = TRUE
    Plans = TRUE
    MaxEvents = 4
    MaxErrors = 0
    MaxDrops = 1
    None = None
INVARIANTS
    TypeOK
    SettledRowMatches
    SettledRowLinked
    AnsweredMeansApplied
PROPERTIES
    EventuallyAnswered
CHECK_DEADLOCK FALSE
