SPECIFICATION FairSpec
CONSTANTS
    None = None
    MaxReconnects = 6
    HasHls = TRUE
    DecoderFails = TRUE
    Timeout = 2
    Cap = 6
INVARIANTS
    TypeOK
    AtMostOneLateFrame
    BackoffLaw
    StateTruthful
    EndsStopped
PROPERTIES
    Lifecycle
    StopHonoured
    KeepsTrying
    DeadStreamLeft
