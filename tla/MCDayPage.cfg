SPECIFICATION Spec
CONSTANTS
    Days = {d1}
    Today = d1
    Media = {p1, v1}
    Pictures = {p1}
    Slots <- UploadAndRemove
    Uploads <- UploadSlots
    Comments = {c1}
    None = None
    NotLoaded = NotLoaded
    NoRow = NoRow
    MaxBreaks = 0
INVARIANTS
    TypeOK
PROPERTIES
    WrittenStays
    UploadsEnd
