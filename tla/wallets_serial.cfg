CONSTANTS
    NumUsers = 2
    Procs = {p1, p2}
    Keys = {k1, k2}
    Amounts = {1}
    OpeningMax = 1
    AutoFix = FALSE
SYMMETRY Symmetry
SPECIFICATION Spec
INVARIANTS
    LedgerExplainsBalance
    NoDeadlock
PROPERTY BookKept
CHECK_DEADLOCK FALSE
