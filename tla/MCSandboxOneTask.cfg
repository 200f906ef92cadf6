SPECIFICATION Spec
CONSTANTS
    Tasks = {t1}
    ZoneIds = {z1, z2}
    Containers = {c1, c2}
    None = None
    MAX_RESULT_BYTES = 2
    ResultsMaxBytes = 4
    FaultKinds = {"crash", "io", "reply", "zone"}
    MaxFaults = 2
    Operator = TRUE
SYMMETRY Symmetry
INVARIANTS
    ExecutedAtMostOnce
    RunningIsRecorded
    SettledIsStopped
    EvidenceKeptUntilCommit
    OneContainerPerTask
PROPERTY CommittedIsImmutable
CHECK_DEADLOCK FALSE
