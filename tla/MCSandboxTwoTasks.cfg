SPECIFICATION Spec
CONSTANTS
    Tasks = {t1, t2}
    ZoneIds = {z1, z2}
    Containers = {c1, c2}
    None = None
    MAX_RESULT_BYTES = 2
    ResultsMaxBytes = 3
    FaultKinds = {"crash", "io"}
    MaxFaults = 1
    Operator = FALSE
SYMMETRY Symmetry
INVARIANTS
    RecordHasReservation
    WithinCapacity
CHECK_DEADLOCK FALSE
