SPECIFICATION AnalyticsSpec
CONSTANTS
    Null = Null
    Garbled = Garbled
    YearDays = 3
    AlertTables <- TwoAlertTables
    Truths <- TwoDrawings
    Samples <- TwoSamples
    DeptMap <- TwoDepartments
    Lists <- ThreeLists
    BootTimes <- NightOrAfternoon
    Queries <- SomeQueries
    MaxRestarts = 3
    MaxFaults = 3
INVARIANTS
    ReportAgrees
    SeededOnce
CHECK_DEADLOCK FALSE
