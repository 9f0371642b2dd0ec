SPECIFICATION FairSpec
CONSTANT MaxDatagrams = 2
INVARIANTS
    TypeOK
    AnswerIsMine
PROPERTIES
    ExchangeEnds
    ServedAlone
    SessionEnds
    AcceptLoopEnds
CHECK_DEADLOCK FALSE
