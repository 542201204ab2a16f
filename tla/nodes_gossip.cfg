SPECIFICATION NodeSpec
CONSTANTS
    o = o
    p1 = p1
    p2 = p2
    fresh = fresh
    Nodes <- MCNodes
    Orderer <- o
    Networks <- MCNetworks
    MaxVotes = 2
    MaxFaults = 1
    Fresh <- fresh
INVARIANTS
    UpdateFollowsMajority
    NewsArrives
PROPERTIES
    HandledVotesStay
CHECK_DEADLOCK FALSE
