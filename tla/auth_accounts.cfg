SPECIFICATION Spec
CONSTANTS
    p1 = p1
    p2 = p2
    Users <- MCUsers
    Procs <- MCProcs
    Numbers <- MCNumbers
    Mailed <- MCMailed
    MaxCalls = 4
    MaxCrashes = 1
SYMMETRY MCSymmetry
INVARIANTS
    AcknowledgedWritesStand
    NumbersIdentify
    KycIsConsistent
CHECK_DEADLOCK FALSE
