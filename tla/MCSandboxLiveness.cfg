SPECIFICATION FairSpec
CONSTANTS
    Tasks = {t1, t2}
    ZoneIds = {z1, z2}
    Containers = {c1, c2}
    None = None
    MAX_RESULT_BYTES = 1
    ResultsMaxBytes = 2
    FaultKinds = {"crash"}
    MaxFaults = 1
    Operator = FALSE
PROPERTIES
    ServesAgain
    CleanupEnds
CHECK_DEADLOCK FALSE
