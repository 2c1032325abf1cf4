SPECIFICATION Spec
CONSTANTS
    c1 = c1
    p1 = p1
    p2 = p2
    None = None
    Uuid = Uuid
    Cameras = {c1}
    Plates = {p1, p2}
    Seeds <- NoSeeds
    Window = 0
    MaxTime = 1
    MaxRecorded = 2
    MaxRows = 1
    MaxEpoch = 1
    Demo = {p1}
    Tables <- NoTable
    Cooldown = 1
    ForeignKeys = TRUE
    EventIds = {1}
    MaxAlerts = 2
    MaxFaults = 1
INVARIANT
    SightingsStored
