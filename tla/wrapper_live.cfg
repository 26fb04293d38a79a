SPECIFICATION FairSpec
CONSTANTS
    Chunks <- SomeChunks
    MaxOut <- Shorter
    Codes = {0, 3}
    MaxSignals = 2
    MaxFaults = 1
PROPERTIES
    WrapperExits
    LinesShown
    SignalsArrive
\* the wrapper exits
CHECK_DEADLOCK FALSE
