SPECIFICATION FairSpec
CONSTANTS
    Tabs = {t1}
    Requests = {r1, r2}
    Calls = {c1, c2}
    NoPromise = NoPromise
    PromptEffects = TRUE
    Abandon = FALSE
    MaxTokens = 4
    MaxDrops = 0
INVARIANTS
    TypeOK
PROPERTIES
    RequestsEnd
    StaysSignedIn
