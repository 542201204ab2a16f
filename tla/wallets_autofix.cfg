CONSTANTS
    NumUsers = 2
    Procs = {p1}
    Keys = {k1, k2}
    Amounts = {1}
    OpeningMax = 1
    AutoFix = TRUE
SPECIFICATION FairSpec
PROPERTY AutoFixConverges
CHECK_DEADLOCK FALSE
