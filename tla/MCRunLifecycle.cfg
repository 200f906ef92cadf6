SPECIFICATION Spec
CONSTANTS
    Kinds <- MCKinds
    MaxEvents = 7
INVARIANTS
    StateFollowsJournal
    AcceptedWasProved
    BeginsOnce
    CreatedRunReplays
PROPERTY TerminalIsFinal
CHECK_DEADLOCK FALSE
