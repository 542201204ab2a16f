SPECIFICATION Spec
CONSTANTS
    p1 = p1
    p2 = p2
    Procs <- MCProcs
    MaxTokens = 3
    MaxCodes = 2
    MaxCalls = 5
SYMMETRY MCSymmetry
INVARIANTS
    TokensRotate
    CodesWorkOnce
PROPERTIES
    RevokedStaysRevoked
CHECK_DEADLOCK FALSE
