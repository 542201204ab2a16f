SPECIFICATION PartnerSpec
CONSTANTS
    t1 = t1
    t2 = t2
    k1 = k1
    k2 = k2
    Transfers = {t1, t2}
    Checks = {k1, k2}
    Envs <- MCEnvs
    OtherCodes <- MCOtherCodes
    MaxRestarts = 2
SYMMETRY MCSymmetry
INVARIANTS
    RowTellsThePartner
    SignatureCoversPayment
CHECK_DEADLOCK FALSE
