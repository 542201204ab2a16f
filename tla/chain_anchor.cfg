SPECIFICATION Spec
CONSTANTS
    Calls <- MCCalls
    MaxRetries = 1
    MaxTxs = 3
    Observers <- MCObservers
    RequireQuorum = TRUE
    Amounts <- MCAmounts
    Word = 8
    MaxFaults = 1
INVARIANTS
    RecordsAreBacked
    DuplicateIntentHasACause
PROPERTIES
    EventuallyAnchored
CHECK_DEADLOCK FALSE
