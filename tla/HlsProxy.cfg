SPECIFICATION Spec
CONSTANTS
    t1 = t1
    t2 = t2
    c1 = c1
    c2 = c2
    n1 = n1
    n2 = n2
    First = c1
    Own = Own
    None = None
    Tasks = {t1, t2}
    Cameras = {c1, c2}
    Names = {n1, n2}
    TTL = 1
    KeyTTL = 0
    Capacity = 2
    Evicted = 1
    Preloads <- FileOrNone
    MaxTime = 2
    MaxVersion = 1
    MaxRequests = 3
SYMMETRY Symmetric
INVARIANTS
    TypeOK
    FreshAnswers
    BorrowedOnlyForLack
PROPERTIES
    RealStays
    FullCacheGrowsByFallback
CHECK_DEADLOCK FALSE
