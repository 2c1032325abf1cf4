SPECIFICATION Spec
CONSTANTS
    c1 = c1
    c2 = c2
    p1 = p1
    p2 = p2
    None = None
    Cameras = {c1, c2}
    Plates = {p1, p2}
    Seeds <- DemoSeeds
    Window = 1
    MaxTime = 2
    MaxRecorded = 2
    MaxRows = 2
    MaxEpoch = 1
INVARIANTS
    TypeOK
    Spacing
    SummaryMatchesSegments
    RepeatsOnlyAcrossRestarts
    OneRowPerPipeline
    SoleWriterRowCovers
