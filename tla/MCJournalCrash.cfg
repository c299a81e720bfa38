CONSTANTS
    p1 = p1
    p2 = p2
    f1 = f1
    f2 = f2
    NoProc = NoProc
    NoFile = NoFile
    Procs <- TwoProcs
    Files <- OneFile
    Requests <- AppendOnly
    MaxOps = 2
    MaxSpin = 1
    Environment <- SignalOnly
SPECIFICATION Spec
INVARIANT CrashKeepsStatus
