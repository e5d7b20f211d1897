SPECIFICATION Spec
CONSTANTS
    Char <- AllChars
    Known <- KnownTypes
    Subject <- Subjects
    Meant <- Lists
    None = None
    MaxLength = 7
INVARIANTS
    InBounds
    RoundTrip
    NothingDropped
CHECK_DEADLOCK FALSE
