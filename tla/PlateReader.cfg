SPECIFICATION Spec
CONSTANTS
    v1 = v1
    v2 = v2
    t1 = t1
    t2 = t2
    None = None
    Vehicles = {v1, v2}
    Plate <- TwoPlates
    Confusions <- SomeConfusions
    Tracks = {t1, t2}
    Skip = 2
    Tries = 2
    Reliable = 6500
    MinConf = 30
    PlateModel = FALSE
    PlateConfs = {}
    OcrConfs = {20, 40, 90}
    Cuts = {4, 9}
    MaxFrames = 6
INVARIANTS
    TypeOK
    OwnPlate
PROPERTY
    AnswersStay
CHECK_DEADLOCK FALSE
