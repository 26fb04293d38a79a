SPECIFICATION Spec
CONSTANTS
    Chunks <- SomeChunks
    MaxOut <- Short
    Codes = {0, 3}
    MaxSignals = 0
    MaxFaults = 1
INVARIANTS
    TypeOK
    OutputTranslated
    ExitFaithful
\* the wrapper exits
CHECK_DEADLOCK FALSE
