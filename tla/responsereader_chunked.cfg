SPECIFICATION FairSpec
CONSTANTS
    Response <- MCResponse
PROPERTIES
    ChunkedCompletes
CHECK_DEADLOCK FALSE
