SPECIFICATION FairSpec
CONSTANTS
    a = a
    b = b
    p1 = p1
    p2 = p2
    card = card
    gpu = gpu
    drv = drv
    drv2 = drv2
    ann = ann
    Names <- OneName
    Procs = {p1, p2}
    Users <- MCUsers
    Cards = {card}
    NvNodes = {}
    Drivers = {}
    MaxFaults = 0
    FaultPhases = {}
    Lossy <- Lossless
    Killable = FALSE
    Menu <- SetMenu
    Worlds <- SetWorlds
    Exclusive = FALSE
    MaxHostChanges = 0
INVARIANTS
    SetSticks
\* every invocation runs one command and ends
CHECK_DEADLOCK FALSE
