SPECIFICATION Spec
CONSTANTS
    th1 = th1
    th2 = th2
    None = None
    Malformed = Malformed
    Threads = {th1, th2}
    Registry <- TwoCameras
    Answers <- ThreeAnswers
    TTL = 3
    FetchTime = 2
    MaxClock = 5
    MaxRequests = 3
SYMMETRY Symmetry
INVARIANTS
    TypeOK
    ServedAge
CHECK_DEADLOCK FALSE
