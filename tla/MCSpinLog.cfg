CONSTANTS
    t1 = t1
    t2 = t2
    t3 = t3
    Threads <- ThreeThreads
    Calls <- AnyCall
    MaxCalls = 2
SPECIFICATION FairSpec
INVARIANTS
    TypeOK
    MutualExclusion
    ScanFits
PROPERTY LockIsGiven
