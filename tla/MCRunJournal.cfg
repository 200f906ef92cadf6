SPECIFICATION Spec
CONSTANTS
    Procs = {p1, p2}
    Events = {e1, e2, e3}
    None = None
    Torn = Torn
SYMMETRY Symmetry
INVARIANTS
    HeadAlwaysVerifies
    ExposedIsDurable
    StagingIsFree
    OneRecordTail
PROPERTY ImplementsCommittedLog
