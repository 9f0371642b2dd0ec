SPECIFICATION FairSpec
CONSTANTS
    Response <- MCResponse
INVARIANTS
    BodyExact
    NoneWaitsInVain
PROPERTIES
    CompletesWhenPaced
CHECK_DEADLOCK FALSE
