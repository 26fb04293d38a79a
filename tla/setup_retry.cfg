SPECIFICATION FairSpec
CONSTANTS
    a = a
    b = b
    p1 = p1
    p2 = p2
    card = card
    gpu = gpu
    drv = drv
    drv2 = drv2
    ann = ann
    Names <- OneName
    Procs = {p1, p2}
    Users <- MCUsers
    Cards = {card}
    NvNodes = {}
    Drivers = {}
    MaxFaults = 1
    FaultPhases = {"running"}
    Lossy <- Lossless
    Killable = FALSE
    Menu <- LoneSetupMenu
    Worlds <- LoneSetupWorlds
    Exclusive = TRUE
    MaxHostChanges = 0
INVARIANTS
    Eth0Replaced
\* every invocation runs one command and ends
CHECK_DEADLOCK FALSE
