SPECIFICATION FairSpec
CONSTANTS
    m1 = m1
    m2 = m2
    Message <- MCMessage
    MaxMessages = 4
    MaxStrand = 3
INVARIANTS
    TypeOK
    SingleFlight
    NoStall
    HalfDuplex
    EndIsReported
PROPERTIES
    FrontStable
    QuietAfterDeath
    SenderSpec
    Flushed
CHECK_DEADLOCK FALSE
