SPECIFICATION ServerSpec
CONSTANTS
    d1 = d1
    d2 = d2
    p1 = p1
    p2 = p2
    v1 = v1
    s1 = s1
    s2 = s2
    s3 = s3
    Days <- TwoDays
    Media <- AndVideo
    Pictures <- TwoPictures
    Slots <- ThreeSlots
    Comments = {}
    None = None
    MaxBreaks = 1
SYMMETRY Symmetry
INVARIANTS
    ServerTypeOK
    RowHasObject
    PicturesHaveCover
