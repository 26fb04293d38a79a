SPECIFICATION Spec
CONSTANTS
    Chunks <- SomeChunks
    MaxOut <- Shorter
    Codes = {0, 3}
    MaxSignals = 1
    MaxFaults = 0
INVARIANTS
    InputStaysOpen
\* the wrapper exits
CHECK_DEADLOCK FALSE
