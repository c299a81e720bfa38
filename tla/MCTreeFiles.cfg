CONSTANTS
    Names <- AllNames
    Paths <- ThreePaths
    NoDir = NoDir
    MaxLog = 3
    LineBuffer = 7
SPECIFICATION TreeSpec
INVARIANTS
    TypeOK
    NodesInPlace
    LinesReadBack
    JsonVerified
    JsonRestoresNodes
PROPERTIES
    MapsFiles
