\* The defaults, in units of five minutes: a request and the whole answer have one each.
SPECIFICATION FairSpec
CONSTANTS
    Directions = {a, b}
    MaxRetries = 2
    Timeout = 1
    WriteTimeout = 1
PROPERTIES
    FallbackTold
CHECK_DEADLOCK FALSE
