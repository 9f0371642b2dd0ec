SPECIFICATION Spec
CONSTANTS
    k1 = k1
    k2 = k2
    k3 = k3
    l1 = l1
    l2 = l2
    l3 = l3
    A = A
    None = None
    Key <- MCKey
    OldKey <- MCOldKey
    NewKey <- MCNewKey
    EventType <- MCEventType
    DefaultType = A
    Lineage <- MCLineage
    Scripts <- MCScripts
    MaxStrand = 1
PROPERTIES
    NoneComesBack
CHECK_DEADLOCK FALSE
