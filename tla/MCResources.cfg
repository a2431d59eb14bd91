SPECIFICATION Spec
CONSTANTS
    Requests = {r1, r2}
    Ids <- SmallIds
    TTL = 1
    MaxChanges = 1
    Limit <- SmallLimit
    k1 = k1
    k2 = k2
    g1 = g1
    g2 = g2
    g3 = g3
    s1 = s1
    d1 = d1
    Nothing = Nothing
SYMMETRY Symmetry
INVARIANTS
    TypeOK
    WithinQuota
    ChaptersBounded
PROPERTIES
    UsesSurviveDeletion
