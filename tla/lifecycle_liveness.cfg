SPECIFICATION FairSpec
CONSTANTS r1 = r1 r2 = r2 j1 = j1 j2 = j2 w1 = w1 w2 = w2
 Calls = {r1} Polls = {j1, j2} Workers = {w1} ChainAsyncMaxRetries = 1 MaxAttempts = 2 MaxFaults = 1
INVARIANTS ExternalCompletionAnnounced
PROPERTIES EventuallySettled EventuallyAnchoredOrGivenUp FailedWithdrawalIsRefunded
CHECK_DEADLOCK FALSE
