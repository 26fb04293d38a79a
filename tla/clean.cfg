SPECIFICATION Spec
CONSTANTS
    a = a
    b = b
    p1 = p1
    p2 = p2
    card = card
    gpu = gpu
    drv = drv
    drv2 = drv2
    ann = ann
    Names <- MCNames
    Procs = {p1, p2}
    Users <- MCUsers
    Cards = {card}
    NvNodes = {gpu}
    Drivers <- TwoDrivers
    MaxFaults = 0
    FaultPhases = {}
    Lossy <- Lossless
    Killable = FALSE
    Menu <- CleanMenu
    Worlds <- CleanWorlds
    Exclusive = TRUE
    MaxHostChanges = 1
PROPERTIES
    NoSpuriousError
    AutosetupRestores
\* every invocation runs one command and ends
CHECK_DEADLOCK FALSE
