SPECIFICATION Spec
CONSTANTS
    Chunks <- SomeChunks
    MaxOut <- Shorter
    Codes = {0, 3}
    MaxSignals = 0
    MaxFaults = 0
INVARIANTS
    OutputComplete
\* the wrapper exits
CHECK_DEADLOCK FALSE
