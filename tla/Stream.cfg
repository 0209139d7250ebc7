\* A race has two directions. A team's plan makes two calls of two requests each, a tick
\* per request: the connection lasts longer. The goroutines end, and then nothing moves.
SPECIFICATION FairSpec
CONSTANTS
    Directions = {a, b}
    MaxRetries = 1
    Timeout = 1
    WriteTimeout = 5
INVARIANTS
    ProtocolKept
    SoundResults
PROPERTIES
    KeepsPromise
    EverythingEnds
    FallbackTold
CHECK_DEADLOCK FALSE
