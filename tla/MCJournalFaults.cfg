CONSTANTS
    p1 = p1
    p2 = p2
    f1 = f1
    f2 = f2
    NoProc = NoProc
    NoFile = NoFile
    Procs <- TwoProcs
    Files <- TwoFiles
    Requests <- AppendAndRead
    MaxOps = 1
    MaxSpin = 1
    Environment <- Everything
SPECIFICATION Spec
SYMMETRY Symmetry
INVARIANTS
    TypeOK
    WriteAhead
    TreeFollowsJournal
    DumpersHoldLock
    EndTreeIsScan
PROPERTIES
    EndPublishesOwnOps
    UnlockLeavesTree
    MirrorsJournal
