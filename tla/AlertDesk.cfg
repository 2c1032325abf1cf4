SPECIFICATION Spec
CONSTANTS
    t1 = t1
    t2 = t2
    c1 = c1
    o1 = o1
    None = None
    Threads = {t1, t2}
    LoopThreads = {}
    Cameras = {c1}
    Officers = {o1}
    Cooldown = 2
    MaxTime = 2
    MaxIncidents = 2
    MaxRows = 2
    SampleAlerts <- Sample
    MaxRestarts = 1
    Handled <- Firsts
SYMMETRY Symmetric
INVARIANTS
    TypeOK
    SequentialCooldown
    DispatchShown
PROPERTY
    IncidentAckKept
CHECK_DEADLOCK FALSE
