CONSTANTS
    m1 = m1
    m2 = m2
    o1 = o1
    o2 = o2
    o3 = o3
    o4 = o4
    Key <- MCKey
    Matching <- MCMatching
    Buckets = 3
    Hash <- MCHash
    MaxEntries = 5
    BatchSize = 1
    MayFail = TRUE
    Thread = {t1, t2, t3}
    MaxCalls = 2
    Request = {r1}
    MaxChanges = 2
    MaxLines = 5
    MaxLength = 5
    Limit = 8
SPECIFICATION FairSpec
INVARIANTS
    ProcessInv
    NothingSurvives
    BatchGrowsEnough
    PoolInRoot
    StuckIsReported
    CreatedOrNothing
    ServeTruthful
    PackedTightly
PROPERTIES
    OthersSpared
    WalkFinishes
    ServeEnds
    GoroutineEnds
CHECK_DEADLOCK FALSE
