CONSTANTS
    t1 = t1
    t2 = t2
    t3 = t3
    Nobody = Nobody
    Threads <- ThreeThreads
SPECIFICATION FairSpec
INVARIANTS
    TypeOK
    OneList
    ListExcludes
    NoneLost
PROPERTY CallsEnd
