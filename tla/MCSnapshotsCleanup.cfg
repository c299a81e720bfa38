CONSTANTS
    p1 = p1
    p2 = p2
    r1 = r1
    d1 = d1
    f1 = f1
    f2 = f2
    NoProc = NoProc
    NoFile = NoFile
    NoTime = NoTime
    Absent = Absent
    Blank = Blank
    Apps <- TwoApps
    Retrievers <- Nobody
    Daemons <- OneDaemon
    Files <- OneFile
    BaseName <- OwnNames
    Operations <- WriteOnly
    MaxOps = 1
    MaxTime = 1
    Delay = FALSE
    Signals = FALSE
SPECIFICATION Spec
PROPERTY NeverEmptied
