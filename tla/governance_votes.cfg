CONSTANTS
    kufi = kufi
    bank = bank
    shop = shop
    kufi1 = kufi1
    kufi2 = kufi2
    cafe = cafe
    cafe1 = cafe1
    MSPs <- SmallMSPs
    Clients <- SmallClients
    MspOf <- SmallMspOf
    OrgLists <- SmallLists
    Applicants <- Newcomers
    Requests = {r1, r2}
    Policies <- ShorterExpiry
    DefaultPolicy <- LongMajority
    MaxTime = 2
    MaxInFlight = 2
SPECIFICATION Spec
SYMMETRY Symmetry
INVARIANTS
    OnePendingPerMSP
    OneVoteEach
    OutcomeFollowsVotes
    AdmittedByVotes
PROPERTIES
    ResolvedIsFinal
    LateVotesDecideNothing
CHECK_DEADLOCK FALSE
