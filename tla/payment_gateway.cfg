SPECIFICATION Spec
CONSTANTS
    Payments <- MCPayments
    Plans <- MCPlans
    Balances <- MCBalances
    MaxAttempts = 3
    HardAmount = 9
    FailOpen = TRUE
    MaxEntries = 1
    Word = 20
INVARIANTS
    PaidOnce
    AnswersAreTrue
    UnprovenIsUnremarkable
CHECK_DEADLOCK FALSE
