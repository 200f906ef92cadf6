SPECIFICATION Spec
CONSTANTS
    Kinds <- MCKinds
    MaxEvents = 3
INVARIANT JournalReplays
CHECK_DEADLOCK FALSE
