SPECIFICATION FairSpec
CONSTANTS
    k1 = k1
    k2 = k2
    EVENT_A = EVENT_A
    EVENT_B = EVENT_B
    None = None
    Key <- MCKey
    Type <- MCType
    Publications <- MCPublications
    Rounds = 2
    MaxConnects = 3
INVARIANTS
    TypeOK
    InOrder
    NothingMissed
PROPERTIES
    BoardSpec
    Dispatched
CHECK_DEADLOCK FALSE
