SPECIFICATION Spec
CONSTANTS r1 = r1 r2 = r2 j1 = j1 j2 = j2 w1 = w1 w2 = w2
 Calls = {r1, r2} Polls = {j1} Workers = {w1} ChainAsyncMaxRetries = 0 MaxAttempts = 1 MaxFaults = 0
INVARIANTS TypeOK DebitedOnce DepositSafety
PROPERTIES SecondRefundOverlapped
CHECK_DEADLOCK FALSE
SYMMETRY Symmetry
