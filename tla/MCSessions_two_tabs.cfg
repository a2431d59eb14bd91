SPECIFICATION Spec
CONSTANTS
    Tabs = {t1, t2}
    Requests = {r1}
    Calls = {c1, c2}
    NoPromise = NoPromise
    PromptEffects = FALSE
    Abandon = TRUE
    MaxTokens = 3
    MaxDrops = 1
SYMMETRY Symmetry
INVARIANTS
    StorageNewest
