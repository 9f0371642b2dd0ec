SPECIFICATION FairSpec
CONSTANTS
    k1 = k1
    Key <- MCKey
    MaxMessages = 2
PROPERTY ContextStops
CHECK_DEADLOCK FALSE
