CONSTANTS
    e1 = e1
    e2 = e2
    alice = alice
    bob = bob
    r1 = r1
    Events = {e1, e2}
    Dispatchers = {d1, d2}
    BatchSize = 1
    MaxRetries = 1
    MaxFaults = 1
    Users = {alice, bob}
    Message <- MCMessage
    Openings <- MCOpenings
    Requests = {r1}
    Wants <- MCWants
SPECIFICATION FairSpec
INVARIANTS
    PublishedIsInTopic
    NotifiedOnceWithoutFaults
PROPERTIES
    ChoiceStands
    EventuallyDispatched
    EventuallyNotified
CHECK_DEADLOCK FALSE
