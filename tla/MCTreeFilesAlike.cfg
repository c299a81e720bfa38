CONSTANTS
    Names <- AllNames
    Paths <- NamedAlike
    NoDir = NoDir
    MaxLog = 3
    LineBuffer = 8
SPECIFICATION TreeSpec
INVARIANTS
    JsonVerified
