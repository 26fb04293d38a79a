SPECIFICATION FairSpec
CONSTANTS
    a = a
    b = b
    p1 = p1
    p2 = p2
    card = card
    gpu = gpu
    drv = drv
    drv2 = drv2
    ann = ann
    Names <- MCNames
    Procs = {p1, p2}
    Users <- MCUsers
    Cards = {card}
    NvNodes = {gpu}
    Drivers = {}
    MaxFaults = 1
    FaultPhases = {"running", "undoing"}
    Lossy <- Ops
    Killable = TRUE
    Menu <- MixedMenu
    Worlds <- MixedWorlds
    Exclusive = FALSE
    MaxHostChanges = 1
INVARIANTS
    TypeOK
    OwnTarget
    Eth0HasBridge
    SetupsRestore
PROPERTIES
    ForeignDevicesKept
    Termination
\* every invocation runs one command and ends
CHECK_DEADLOCK FALSE
