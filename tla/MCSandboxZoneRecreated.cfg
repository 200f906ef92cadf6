SPECIFICATION Spec
CONSTANTS
    Tasks = {t1}
    ZoneIds = {z1, z2}
    Containers = {c1}
    None = None
    MAX_RESULT_BYTES = 1
    ResultsMaxBytes = 1
    FaultKinds = {"crash"}
    MaxFaults = 1
    Operator = TRUE
INVARIANT NoRunWithoutRecord
CHECK_DEADLOCK FALSE
