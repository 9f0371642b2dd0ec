SPECIFICATION FairSpec
CONSTANTS
    Data <- MCData
    MaxMessages = 3
INVARIANTS
    TypeOK
    NothingLost
    WorkerOutlives
PROPERTIES
    ReturnIsFinal
    StopCompletes
    AllForwarded
CHECK_DEADLOCK FALSE
