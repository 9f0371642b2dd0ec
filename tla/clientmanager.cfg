SPECIFICATION FairSpec
CONSTANTS
    k1 = k1
    k2 = k2
    l1 = l1
    l2 = l2
    A = A
    B = B
    None = None
    Key <- MCKey
    EventType <- MCEventType
    DefaultType = A
    Lineage <- MCLineage
    Scripts <- MCScripts
    MaxStrand = 2
INVARIANTS
    AllTracked
    NoAbort
PROPERTIES
    CloseIsFinal
    CloseTakesEffect
    Reconnects
CHECK_DEADLOCK FALSE
