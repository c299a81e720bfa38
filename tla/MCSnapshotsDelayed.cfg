CONSTANTS
    p1 = p1
    p2 = p2
    r1 = r1
    d1 = d1
    f1 = f1
    f2 = f2
    NoProc = NoProc
    NoFile = NoFile
    NoTime = NoTime
    Absent = Absent
    Blank = Blank
    Apps <- OneApp
    Retrievers <- OneRetriever
    Daemons <- Nobody
    Files <- TwoFiles
    BaseName <- OwnNames
    Operations <- ReadAndWrite
    MaxOps = 2
    MaxTime = 3
    Delay = TRUE
    Signals = TRUE
SPECIFICATION Spec
INVARIANTS
    TypeOK
    
    RevertsExclude
