SPECIFICATION Spec
CONSTANTS
    A = A
    B = B
    NoServer = NoServer
    Server <- MCServer
    MaxMessages = 2
INVARIANT RightServer
CHECK_DEADLOCK FALSE
