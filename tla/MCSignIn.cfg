SPECIFICATION SignInSpec
CONSTANTS
    Calls = {c1, c2}
    MaxTokens = 3
    MaxDrops = 1
    MaxCodes = 2
    CodeTTL = 0
SYMMETRY Symmetry
INVARIANTS
    SignInTypeOK
    OnlyNewestUsable
    RotationsApart
    CodesBounded
    CodeSurvives
    WaitingUsable
